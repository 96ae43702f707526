# A verification development of filclient

filclient is a Go library, with a command line tool `filc`, that makes storage
deals with Filecoin storage providers, moves the deal's data to them, and
retrieves data from them.  This directory holds TLA+ models of the parts of it
that run concurrently, survive restarts, or talk to unreliable parties, the TLC
configurations that check them, and TLAPS proofs.

Paths below are relative to `src/`.  `PROJECT.json` maps every definition to the
lines it models.

## 1. Inventory

| Component | Where | State | Operations | Hard parts |
|---|---|---|---|---|
| Libp2p transfer manager | `libp2ptransfermgr.go` | token database `authDB`, datastore `dtds` of outcomes, listener with `listenerLk`, ticker | Start, Stop, expiry check, server callback, Subscribe/unsub, PrepareForDataRequest, CleanupPreparedRequest, All, byId, byRemoteAddrAndPayloadCid | expiry races completion; tokens leave the database in a batch and are worked off one by one; crash between any two writes; errors are skipped; the listener runs under a lock |
| Deal command and deal construction | `filc/cmds.go` 67-337, `filclient.go` 317-406, 450-977, 1506-1525, `filc/disk.go` 57-79 | the proposal file, `pullComplete`, subscription | makeDealCmd, MakeDeal, saveDealProposal, SendProposalV110/V120, makev110Deal, makev120Deal and its listener | an answer lost after the provider accepted; two goroutines meet on an unbuffered channel, one of them with a lock held that the other wants |
| Message pusher | `msgpusher.go` (and `apiprov.go`) | `nonces`, `nlk` | MpoolPushMessage | concurrent callers, several addresses of one key, failing remote calls, lost replies, restart |
| Retrieval event publisher | `rep/publisher.go` | bounded channel, subscriber map | Subscribe, Unsubscribe, Publish, loop | back-pressure, a list used after unlock, order |
| Retrieval | `filclient.go` 1832-2166 | `chanid`, `dtRes`, voucher counters | function and data-transfer callback | events before the channel identifier is known, competing results, payments, cancellation |
| Retrieve command | `filc/retrieval.go`, `filc/cmds.go` | list of attempts, queries | IPFS attempt and its search goroutine, Filecoin attempt and its queries | slowest candidate, goroutine left behind, order of candidates |
| Deal status | `filclient.go` 1052-1162 | none | DealStatus | |
| Transfer queries | `filclient.go` 1284-1308, 1447-1500, `libp2ptransfermgr.go` 250-361 | reads two stores | TransferStatusByID, TransfersInProgress, TransferStatusForContent | two stores read one after the other while the manager works on both |
| Transfer diagnostics | `filclient.go` 1310-1437 | none | MinerTransferDiagnostics, generateTransfers | |
| Keystore, node setup | `keystore/keystore.go`, `filc/disk.go` | key files, datastore lock | Put, Get, List, Delete, setup, loadOrInitPeerKey, setupWallet, clientFromNode | every file is written in two steps; commands overlap and only the datastore's lock keeps them apart, after the first file is written; the user adds files |
| Connection watcher | `filc/cmds.go` 339-396 | channel `disconnected` | keepConnection, Disconnected, processDisconnect | reports that come while a reconnect is under way, goroutines that restart themselves |
| Market and chain operations | `filclient.go` 1164-1283, 1573-1606 | none | LockMarketFunds, Balance, CheckChainDeal | balance read before the push |
| Streams, RPC, conversion, printing, flags | the rest | none | | remote I/O and formatting |

How they interact.  The deal command subscribes to the transfer manager, prepares a
data request (a token in `authDB`), sends the proposal, and waits.  The provider
opens the transfer on the HTTP-over-libp2p server of boost, which checks the token
and reports events to the manager's callback; the manager forwards them to the
listener.  A failure is not forwarded: the provider may try again until the token
times out, and then the expiry goroutine cancels the transfer, saves the failure
and announces it.  The retrieve command runs queries and retrievals; both publish
their steps through the event publisher; a paid retrieval creates vouchers on a
payment channel that the message pusher's transactions fund.

What makes each part correct is stated at the properties (section 4), what can go
wrong is listed under `hazards` in `PROJECT.json`.

## 2. Modules

* `DataRequests`: the abstract specification of what the transfer manager promises:
  a request is open until it expires or is withdrawn, gets one outcome, fails only
  once closed, and the client is told nothing but the outcome.
* `TransferManager`: the manager and the server it runs on.  `auth`, `old` and
  `store` are the two databases (a crash keeps them and nothing else); `srv`,
  `hpc`, `hev` are boost's map of transfers and its event callbacks, external and
  modelled from how lines 104, 113-119 and 221-247 use them; `epc`, `work`, `cur`
  follow the expiry goroutine through `checkTransferExpiry`, one action per
  database, server or lock operation; `listener`, `lk`, `callee` are the listener
  lock and the call made under it.  The constant `ServerWaits` says whether the
  server answers a cancellation only after the transfer's callback has returned,
  `Faults` whether datastore, token database and server may return errors.
  A transfer that is over stays in the server's map, completed or failed, until the server
  drops it.  `ExpiryTickFails` is a DeleteExpired that has deleted some tokens when it
  fails.  `Reused` are the requests whose number an earlier process has used: dbids are
  drawn with `rand.Uint32` (`filc/cmds.go` 233), which nothing seeds, so an outcome may be
  stored under them when they are prepared.  `Implements` is `DataRequests` for the other
  ones (`Fresh`), under the mapping `open <- auth`, `outcome <- store`, `told <- fired`.
* `TransferQueries`: EXTENDS `TransferManager` with a query that looks into the server's
  map, and then reads the state of the transfer it found (`ReadState`: byId and
  byRemoteAddrAndPayloadCid; All takes the states in one look) or the saved outcomes, any
  step of the manager between two reads.  A transfer that has been found keeps the state
  in which it ends when it leaves the map.  A broken transfer is reported as failed, as in
  toDTState, although its request may be opened again.  `during`
  collects what a right answer could have been since the query was asked; `bare` are
  the saved failures without address and payload, which the expiry goroutine writes
  when it did not find the transfer active.  A query changes nothing, so one at a time
  stands for any number.  The iteration over the saved outcomes is one step.
* `NodeSetup`: the filc commands over one data directory.  `peerFile`, `wallet` and
  `default` are files, each `Absent`, `Torn` (truncated and not yet filled) or a key;
  the constructor of a key file is two steps.  `lock` is the lock of the datastore.
  The wallet is lotus's: `WalletNew`, `FindDefault` to `FillDefault` and `GetDefault`
  are external, except for the Get, Put and List they call, which are the key store's.
  `PlaceKey` is the user, who adds the files of keys of theirs, before or after the
  default one is made.
  `cut`, `early` and `raced` remember the events that excuse an unusable wallet or a
  second identity.
* `DealTerms`: pure; the proposal MakeDealUnsigned computes from an ask, and `Meets`,
  what the provider demands of it.
* `DealCommand`: EXTENDS `TransferManager` and `DealTerms` with makeDealCmd, from the ask to
  the verdict.  `mpc` is the command's place, `file` the proposal in the deals
  directory, `provider` what the provider made of the proposal (which the command
  learns only if the answer arrives).  With v1.1.0 the command polls `channel`, the
  status of the push channel that the data transfer library moves on.  With v1.2.0
  `sending` is what the listener is trying to send on `pullComplete`; a step of the
  manager that would return from the listener is blocked while the listener is.
* `ConnWatcher`: keepConnection and the processDisconnect goroutines, counted by where
  they are (`sleeping`, `reconnecting`); `reports` are callbacks libp2p has still to
  make, so that a report may come after the connection is up again.
* `NonceLedger`: the abstract specification of what the pusher promises the node: a
  message takes the first nonce of its key that is free, and only an environment that
  loses replies or forgets pending messages lets it replace a pending one.
* `MsgPusher`: the callers of MpoolPushMessage, the mutex held over five remote
  calls, and a node with a mempool (`sent`) and a chain (`mined`).  `ImplementsLedger` is
  `NonceLedger` over `sent`, `mined` and `calm` themselves: callers, lock and counters are
  hidden.
* `EventPublisher`: publishers, the channel, the loop goroutine with the copy of the
  list it made under the lock (`todo`), and the subscriptions.
* `Retrieval`: the function and the callback of one retrieval, with the events that
  the data transfer library may deliver in any order it allows: acceptances as often as
  the provider likes, its cancellation, and requests for funds before and after it has
  completed the deal.  A payment is three steps: what is owed is added
  (`OnFundsNeeded`), the voucher is created (`CreateVoucher`), and it is sent and counted
  (`SendVoucher`; one whose send fails counts as not sent).  The other callbacks are one
  step each.
* `RetrievalAttempts`: the retrieve command around it; one retrieval is a single step
  there that succeeds or fails.  `Candidates` are the entries of the list of candidates
  (`filc/cmds.go` 650-666), from which nothing removes duplicates: a miner listed twice has
  two entries, is queried twice and may be tried twice.
* `MC*`: instances for TLC.  `*_proofs`: theorems.

In every module the definitions called "Deviation" are not part of the
specification: each is a plausible mistake in the code, used as a mutant that one
of the properties must detect.

## 3. Runs

| Run | Instance | What it shows |
|---|---|---|
| `MCTransferManager` | 2 requests, 1 attempt each, no crash, no errors, fairness | no request is dropped by the batch; each gets an outcome, and a listener hears it |
| `MCTransferManagerFaults` | 2 requests, 1 attempt, 1 crash, errors anywhere (DeleteExpired part-way included), a server that does not wait | a failure is told once and late; a removed listener is not running; a request is lost only to the error or crash that took its token |
| `MCTransferQueries` | 2 requests, one with a number used before, of which the client prepares one, 2 attempts, 1 crash, no errors, a query at any moment | an outcome is saved before it is told, a failure only when all is quiet; refinement of `DataRequests`; queries report a status the request had |
| `MCNodeSetup` | 3 commands, 5 keys, 2 failures or crashes, a user who adds keys at any time | one address and one identity; a wallet that another command is making is never seen half made |
| `MCDealCommand` | 1 deal over either protocol, 2 asks (above and below the size of the data), verified or not, 3 attempts, orderly or not, fairness | the verdict is what became of the deal; a proposal is on disk and meets the ask before a provider sees it; the orderly command returns |
| `MCConnWatcher` | 4 disconnections, fairness | a reconnect begins after every report; the goroutines end when the connection holds |
| `MCMsgPusher` | 2 callers, 2 keys of 3 addresses, calm or not, fairness | consecutive nonces when calm, no gap ever, refinement of `NonceLedger`, every call returns |
| `MCEventPublisher` | 2 publishers of 2 events, 2 subscriptions, 2 places, fairness | no holes, at most one late call, everyone is told, Publish returns |
| `MCRetrieval` | 2 payments of 1, 2 progress events, acceptances as long as fewer than 3 events are published, reading user or not, fairness | events, result, vouchers and verdict agree; cancellation and graceful shutdown end it |
| `MCRetrievalChannel` | 1 payment | violation: see findings |
| `MCRetrievalAttempts` | 3 candidates, 3 kinds of offers, 3 IPFS providers, fairness | nobody skipped, nobody tried after success, the command returns, the search ends |
| `MCRetrievalAttemptsOrder` | 2 candidates | violation: see findings |

Bounds.  Two requests are what one needs for a batch with a first and a second
element, and for a callback of one to hold the lock that the other's failure waits
for.  The run of the queries has two requests, so that there can be a record that a
content query does not ask about, one of them with an old outcome under its number, and
the client prepares either, but not both (the CONSTRAINT `OneRequest`): the states of two
requests that both live and of the query multiply beyond what a run can visit.  Two
attempts let one fail and be retried; the crash may fall anywhere.  That outcomes are
unique, told and quiet for any number of requests and attempts is proved (section 5),
so those properties are run where the queries are.  `OneOutcome` is not
run: it follows from `SavedBeforeTold` and `FailureIsLate`, which are.  Three commands are
two that overlap and one that finds what they left; of five keys the commands may
need four while all of them may make a peer key, and none once the wallet is there; the
guard of `PlaceKey` leaves them what they may still need (`KeysToCome`) and the user the
rest, so that a key is placed before the first command, while the wallet is made, and
up to three times after there is a default key.  Two callers of the pusher suffice to race, three addresses to have two of
one key and one of another; with `MaxSends = 2` up to three messages of a key are
accepted.  Two publishers, two subscriptions and two places in the channel give
overtaking, a full channel and a subscriber that leaves while another is called.
Two payments are the least that have an order; one voucher may fail and another
succeed, and a payment of one unit is enough for an amount that is not cumulative to show.  Two progress events let a second one find the first byte reported, and three
events leave room for two acceptances.  With three IPFS providers the search goroutine fills the channel and
blocks.  Four disconnections give two goroutines in a reconnect and two reports
for them to find.  Requests are symmetric in `MCTransferManagerFaults`, commands and keys
in `MCNodeSetup`; no run with a liveness property uses symmetry.

Type invariants.  Those of the manager, the pusher, the publisher, the retrieval and the
retrieve command are theorems (`TypeCorrect`) and not run; that of the node setup is part
of its inductive invariant (`Typed`).  The types of the deal command and the watcher are
in their invariants (`Way`, `CInv`).

Behaviour chosen once.  `calm` (pusher), `orderly` (deal) and `readsProgress`
(retrieval) are variables that Init chooses and no action changes; a property that
needs the friendlier environment says so in its statement, all others hold in both.

Deadlock.  TLC checks it in the runs of the manager, its queries, the node setup and the pusher.  A deal, a
retrieval, the retrieve command, a connection watcher and a publisher that is shut down
do end, and their
configurations switch the check off; that they do not end too early is what
`CommandReturns`, `CancelEndsRetrieval` and `PublishReturns` say.

Fairness.  Goroutines of the client run (weak fairness of their steps), because
nothing in the Go runtime stops them and every remote call returns with a result or
an error; a Go mutex does not starve a waiter and a channel serves waiting senders
in turn (strong fairness of the steps that take them).  Time passes (`TokenAges`).
A transfer that was cancelled ends, the server drops transfers that are over, and a
data transfer channel that was closed, failed or was cancelled is cleaned up, as the code
in `checkTransferExpiry` and in the retrieval function relies on.  The liveness runs of
the manager have no errors; in the specification itself a deletion may fail, but not for
ever.  The callback's calls of CreateVoucher and SendVoucher return.
Nothing obliges a provider to open a transfer or to answer well, a client to
subscribe, a user to cancel or to stay.

## 4. Properties

Transfer manager: `OneOutcome`, `SavedBeforeTold`, `FailureIsQuiet`,
`FailureIsLate`, `ListenerStaysWhileCalled`,
`NoRequestForgotten`, `EveryRequestSettles`, `EveryRequestIsAnswered`,
`Implements`.  Queries: `StatusIsCurrent`, `ContentIsTrue`.  Node setup: `OneAddress`,
`WalletIsUsable`, `OneIdentity`.  Deal: `VerdictIsOutcome`,
`ProposalOnDisk`, `ProposalMeetsAsk`, `CommandReturns`.  Watcher:
`EveryReportAnswered`, `WatcherRests`.  Pusher:
`NonceSequence`, `NoNonceGap`, `CounterNotAhead`, `ImplementsLedger`, `EveryCallReturns`.  Publisher:
`NoHoles`, `AtMostOneLate`, `EveryoneIsTold`, `PublishReturns`.  Retrieval:
`PublishedInOrder`, `ResultMatchesEvents`, `FirstVerdictWins`,
`VouchersInSequence`, `ReportedIsPaid`, `NoWakeupLost`, `CancelEndsRetrieval`,
`ShutdownEndsRetrieval`.  Retrieve command: `NobodyLeftOut`, `OneRetrievalEach`,
`CommandReturns`, `SearchEnds`.  Each is stated in words above
its definition.

### Where they stop holding

* `OneOutcome` needs the server to wait.  If a transfer is authenticated before
  `DeleteExpired` and registered only after `Get` said "not found", the manager
  announces Failed and later Completed.
* `CommandReturns` needs an orderly user and provider.  If the command leaves its
  select without receiving (an interrupt; a rejected proposal for which the
  provider has pulled the data already; a second completion; a token that expires
  while the proposal is unanswered), the listener stays blocked on `pullComplete`
  with `listenerLk` held, and the deferred unsubscribe waits for that lock.
* A `DeleteExpired` that fails when it has deleted some tokens (88-91), a crash between it
  and the save of the failure, or an error of the lookup, the cancellation or the
  datastore there, leaves a request without token and without outcome, for ever.  `NoRequestForgotten` says that nothing else does: it
  excepts the requests in `dropped`, which only those steps fill.  Liveness is checked
  for a process that keeps running and without errors.
* `OneOutcome` needs the save of a completed transfer to succeed.  The callback
  announces Completed although the save failed (236), and when the token expires the
  client hears Failed.
* A reused dbid (`filc/cmds.go` 233).  With an old Failed under its number a request
  behaves like a new one, except that it looks failed until it ends.  With an old
  Completed the expiry goroutine takes it for completed (113-122), and a failure is
  neither saved nor told: the v1.2.0 command then waits for ever.  `SavedBeforeTold`,
  `FailureIsQuiet`, `OneOutcome` and the queries' properties hold of such requests too;
  `EveryRequestSettles`, `EveryRequestIsAnswered` and `Implements` are stated for new
  numbers, and `MCDealCommand` has one.  That an earlier token under the same number may
  still be in `authDB` is not modelled.
* `StatusIsCurrent`: a broken attempt is reported as Failed (326-327) although the
  provider may open the transfer again, and the request may complete.  The status is that
  of an attempt until it is saved.
* `ContentIsTrue`: a transfer that is there is missed when a record that does not match
  has been saved: the iteration ends at it (308-315), against the comment (289).  The
  property says that this is the only way to miss one.
* `ResultMatchesEvents`: the error of a cancelled context is returned and not published
  (2123), although a retrieval ends in success or failure (`rep/event.go` 18).  The
  property says that it is the only such error.
* `ReportedIsPaid` excepts a provider that asks for funds when it has completed the deal:
  the function may report the total while the voucher is being created.
* A provider that cancels (1945) ends a retrieval as the cleanup of its channel does: with
  success if the root block is there, and with an error if not.
* `PublishedInOrder`: an acceptance is published each time the provider sends it (1968).
* `OneIdentity` excepts two first runs that overlap: both find no peer key, both make
  one, and the file keeps the last; one of them has used an identity that is gone.
* `WalletIsUsable` excepts a first run that is cut off while it makes the wallet: the
  key store then lists a key, so no command makes another, and there is no default
  key, so every command fails until the user repairs the directory.
* `NoWakeupLost`: the end of a channel between the call that opens it and the
  assignment of `chanid` is not heard, and the retrieval waits until it is
  cancelled.  The property does not deny this loss; it says that there is no other.
* `SearchEnds`: the search goroutine sends on `ready` outside its select and is left
  behind when it has more to say than the attempt and the channel take.  The property
  says that it ends otherwise.

### Findings

* A paid retrieval draws its vouchers on the undefined address, because
  `pchAddr, err :=` in an if block shadows the variable the callback uses
  (`MCRetrievalChannel`).
* Candidates are not sorted: the comparison takes both offers from `queries[i]`
  (`MCRetrievalAttemptsOrder`).

Noticed while reading, without a run: the README of filc (`filc/README.md` 52) suggests to put a key file
into the wallet directory, but a key placed there before the first run keeps setupWallet
from making the default one and clientFromNode finds none, and one placed later does
not become the default; TransferStatusForContent may miss a completed transfer, because
`byRemoteAddrAndPayloadCid` stops at the first record that does not match (308-315),
which its comment (289) does not say (see `ContentIsTrue` above); two requests of one
kind to one provider protect its connection under the same tag (`filclient.go` 460, 807,
949, 1064, 1662), so that the end of the first lifts the protection of the second; a
cancelled retrieval publishes neither
success nor failure, and a query never publishes success (`rep/event.go` 16-18
lists both); a reconnect that fails is not tried again, and a connection that breaks
between ConnectToMiner and Notify is not reported (`filc/cmds.go` 341-363);
MakeDealWithOptions takes RawBlockSize from its own copy of the options (`filclient.go`
768) while the payload size is computed in MakeDealUnsigned's (644), so that a deal made
without a PieceInfo announces size 0; StartDataTransfer protects the connection and
nothing lifts the protection (1517);
`generateTransfers` stores the address of its loop variable
(`filclient.go` 1366-1377), so that all entries show the identifiers of the last.

## 5. Proofs

All theorems hold for any sets of requests, listeners, callers, subscriptions and
any bounds; the constants' assumptions are named in the modules, and TLC evaluates
them in every run.

`TransferManager_proofs`
* `TypeCorrect`, `FailureIsLateHolds`, `ListenerStaysWhileCalledHolds`,
  `NoRequestForgottenHolds`: with any server, any errors and any crashes.
* `OneOutcomeHolds`, `SavedBeforeToldHolds`, `FailureIsQuietHolds`,
  `ImplementsPromise`: from `ServerWaits` and `~Faults`.  `OneOutcome` is not
  inductive.  What keeps the expiry goroutine from failing a transfer that
  completes behind its back is that the token is gone before the transfer is looked
  up, so that no new attempt starts, and that a transfer which was found is idle
  when the cancellation has returned.  `IInv` adds where the goroutine stands
  (`Places`), that a callback runs only for a transfer in the server's map
  (`Callbacks`), that a failed request is closed (`FailedIsClosed`), that from the
  lookup of the outcome on nothing of the request is under way (`Deciding`), and
  that what was told is what is saved (`Told`).  These hold of reused numbers too; only the
  last two results are about `Fresh`, because an old Failed may become Completed.  The
  refinement proof shows that every step is a step of `DataRequests` or leaves its
  variables alone.
* `OutcomeIsFinalHolds`, under the same assumptions: no step changes the outcome on disk of
  a request with a new number, an action property that follows from the refinement.

`MsgPusher_proofs`
* `NonceSequenceHolds`: the calm environment.  The invariant `PInv` adds that `nlk` is
  held by exactly the caller past it, that this caller carries the nonce of its key,
  and that a counter stands at the number of messages accepted, or one behind while
  the caller that pushed the last waits for the reply.
* `NoNonceGapHolds`, `CounterNotAheadHolds`, `TypeCorrect`: any environment.  Counters
  no longer count then: a lost reply leaves one behind, a restart sets it back to the
  chain's.  What is left of `Counted` is `Backed`: below what is mined or counted, the
  node has had every nonce, and a caller that may count its message has had it accepted.
* `ImplementsLedgerHolds`, any environment: the refinement of `NonceLedger`.  Only
  NodeAccepts and Mine are steps of the ledger.  If the nonce pushed is free, then by
  `Backed` all below it are taken and by `NoNonceGap` none above it is, so that it is the
  number of those taken (`FreshIsFirst`); when calm it is always free (`CalmIsFresh`, from
  `PInv`), and otherwise the message replaces one that is not mined.
* `LockIsReleasedHolds`: `nlk` is held exactly by a caller in the middle of a call, the
  safety half of `EveryCallReturns`.

`EventPublisher_proofs`
* `AtMostOneLateHolds`: what the loop has still to call was subscribed when it copied
  the list, and is not called late before it is called (`Listed`).
* `NoHolesHolds`: the channel holds the end of the log (`Queue`), and what a
  subscription was handed is the stretch that ends before the event in hand while it
  is still to be called, and with that event once it has been (`Handed`).  Somebody
  who subscribes while an event is in hand has an empty stretch, which ends anywhere.
* `TypeCorrect`.

`Retrieval_proofs`: all safety properties of `MCRetrieval`, for any number and size of
payments and whatever the user does.  `Place` ties the function's place to its
subscription, the channel identifier and the result.  `Judged` says that the first
verdict lies in `dtRes` until the function takes it and that a success comes from a
deal that is complete or a channel that has ended; `FirstVerdictWins` and `NoWakeupLost`
follow, and that a payment is under way after a success only if it was asked for when the
deal was complete.  `Told` says which events are
published at each place; `Drawn` that the counters run with the vouchers and that what
was owed and is not paid is being paid, is an error, or was asked for when the deal was
complete, which with `Judged` gives `ReportedIsPaid`.
`VouchersOnOwnChannel` is not among them: it is false (section 4).

`RetrievalAttempts_proofs`: `NobodyLeftOutHolds`, `OneRetrievalEachHolds`, `TypeCorrect`, for
any candidates, offers, prices and providers.  The invariant `RInv` follows a candidate on
its way: it is at one place at a time (`Turn`, `Apart`), and once its query was answered
(`Published`) it is among the answers, at hand, or tried (`Accounted`), and the attempt
waits until every query goroutine is done (`Waited`).  The sort is a permutation of
positions; that it loses and doubles nobody (`SortPermutes`) is the pigeonhole principle
on those positions.  `Exhausted` says
that a failed command has nobody at hand, `LastTried` whose retrieval worked.

`TransferQueries_proofs`: `QueriesKeepManager` and `QueriesKeepPromise`: a query is no step of
the manager, so that all its theorems, the refinement included, hold of a manager that is
queried.  `StatusIsCurrentHolds`, `ContentIsTrueHolds`, from `ServerWaits`
and `~Faults`.  `Heard` says that every status since the query was asked is in `during`,
and so is the state of the transfer that was found, in which it may end before it is
read, and each saved outcome that the last read may still find.  For a content query, to find nothing was right at some
moment, or a record of the content is there (`Match`), which only a record that does not
match can hide (`Stopper`).  That rests on the
manager's `IInv`: a completion is saved while its transfer is still in the server's map
as completed, and a failure when the transfer has left it (`Saving`), so that no
outcome appears between the reads that was not the status at some moment.

`DealCommand_proofs`: `ProposalOnDiskHolds` and `ProposalMeetsAskHolds`, from an invariant that
says at each place what the command has done (`Way`) and from `ProposalMeets`, the
arithmetic of padding, price and collateral for all sizes and prices.
`VerdictIsOutcomeHolds`, from `ServerWaits` and `~Faults`: every step of the deal command is
a step of the manager or leaves it alone (`DealStepsOfManager`, `DealKeepsManager`), so the
manager's `IInv`, and with it the refinement of `DataRequests` (`DealKeepsPromise`), holds of
a deal; `VInv` adds that what is on its way to the command was told by the
manager, and that a rejected request is closed: its token is gone, no new attempt can
start, and the cancellation has returned.
`ListenerFindsCommandHolds` is the safety half of `CommandReturns`: with an orderly user
and provider the command is in its select whenever the listener is about to send.
`Meeting` says what makes them meet: while the request does not exist, is not answered or
was taken back (`Unanswered`), nothing of it is under way (`Unserved`), and a transfer that
has completed does not complete again (`Once`).
`ReportIsPendingHolds` is about `ConnWatcher`, which the deal command starts: a report that is
owed a reconnect waits in the channel, and a sleeping goroutine will take it, the
safety half of `EveryReportAnswered`.

`NodeSetup_proofs`: `WalletInvariant`, `OneAddressHolds`, `WalletIsUsableHolds`,
`OneIdentityHolds`, for any commands, keys and failures.  `WInv` says that whoever is
past the opening of the datastore holds its lock, hence that no command sees what
another is in the middle of; that the default key, once complete, is saved under its
address and is never replaced; and that a wallet found unusable stays so.  `Peers`
says the same of the peer key while at most one command makes one.

Only model-checked: the liveness properties (liveness and ENABLED are beyond the prover).
Every invariant and every refinement that a passing run checks is a theorem.  That the
programmed sort orders nothing (`UnsealedFirst`) and the vouchers' channel
(`VouchersOnOwnChannel`) are refuted by their runs.

## 6. Plan

1. Proofs: an abstract specification of the publisher (a log that every subscription
   reads from where it joined) and of the retrieval's result, refined by the models.
2. Options of MakeDealWithOptions that the command does not use (a given PieceInfo,
   start and end epochs), where the payload size and RawBlockSize come from different
   copies of the options.
3. LockMarketFunds on top of `MsgPusher`: a balance read outside the lock.

Known from reading and not yet a property: the hazards in `PROJECT.json` that
name none, each with the reason.

Not modelled, and not planned: construction of the client, streams and RPC,
parsing, printing and flags, selectors and conversion of identifiers, DealStatus and the
transfer diagnostics.  They are
remote I/O or pure formatting without state of the client.
