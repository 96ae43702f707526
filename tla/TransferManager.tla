--------------------------- MODULE TransferManager ---------------------------
(***************************************************************************)
(* The libp2p transfer manager of filclient (libp2ptransfermgr.go).        *)
(*                                                                         *)
(* The client prepares a data request by storing an auth token; a storage  *)
(* provider then opens the transfer with that token, as often as it likes, *)
(* on the HTTP-over-libp2p server.  The manager turns the server's events  *)
(* into events for one listener, hides the server's failures until the     *)
(* token is older than the transfer timeout, and persists the outcome.     *)
(*                                                                         *)
(* Processes: the expiry goroutine (checkTransferExpiry), one event        *)
(* callback per transfer, and the callers of the exported methods.  They   *)
(* meet in the token database, the server's map of transfers, the          *)
(* datastore and the listener lock.                                        *)
(*                                                                         *)
(* A request is named by its dbid; every request has one token, so the     *)
(* token is named by the dbid too.                                         *)
(***************************************************************************)
EXTENDS Naturals

CONSTANTS
  Xfers,        \* the dbids of the requests the client prepares
  Reused,       \* those among them that an earlier process has used already
  Listeners,    \* the clients that may subscribe
  NoListener,   \* m.listener = nil
  NoXfer,       \* the expiry goroutine holds no token
  Expiry,       \* the expiry goroutine, as holder of listenerLk
  Nobody,       \* listenerLk is free
  MaxAttempts,  \* bound: how often a provider opens one transfer
  MaxCrashes,   \* bound: how often the process dies
  ServerWaits,  \* does the server finish a transfer's callback before it
                \* forgets the transfer or answers a cancellation, and does it
                \* register a transfer as it checks its token?
  Faults        \* may the datastore and the server return errors?

ASSUME NamesAssumption ==
  /\ NoListener \notin Listeners
  /\ NoXfer \notin Xfers /\ Reused \subseteq Xfers
  /\ Expiry \notin Xfers /\ Nobody \notin Xfers /\ Expiry # Nobody

ASSUME BoundsAssumption ==
  /\ MaxAttempts \in Nat /\ MaxCrashes \in Nat
  /\ ServerWaits \in BOOLEAN /\ Faults \in BOOLEAN

VARIABLES
  \* persistent state
  auth,       \* authDB: requests whose token the server accepts
  old,        \* the tokens among them older than xferTimeout
  store,      \* dtds: the saved outcome of each request
  \* the external server
  srv,        \* its view of each transfer
  asked,      \* transfers it was asked to cancel
  hpc, hev,   \* the event callback of each transfer, and the event it handles
  \* the manager
  phase,      \* "fresh" process, "running" after Start, "stopped", or "draining" if
              \* a tick is left in the stopped ticker's channel
  listener, lk,
  epc, work, cur, \* the expiry goroutine: its place, the tokens left, the one
                  \* at hand
  cleanup,    \* place of each CleanupPreparedRequest call
  callee,     \* the listener whose callback is executing
  \* history and bounds
  prepared, attempts, crashes,
  fired,      \* how often the listener was told each outcome
  dropped     \* requests the expiry goroutine lost, for an error or a crash

durable == <<auth, old, store>>
server  == <<srv, asked>>
handler == <<hpc, hev>>
expiry  == <<epc, work, cur>>
locking == <<listener, lk, callee>>
history == <<prepared, attempts, crashes, dropped>>
vars == <<durable, server, handler, expiry, locking, history, phase, cleanup, fired>>

(***************************************************************************)
(* toDTState and the listener tell Started and Ongoing apart only in the   *)
(* log line they print: one progress event stands for both.                *)
(***************************************************************************)
Events   == {"Ongoing", "Completed"}
Outcomes == {"Completed", "Failed"}

Fresh == Xfers \ Reused

\* Callers draw the dbid with rand.Uint32 (filc/cmds.go 233), which nothing in the
\* repository seeds: the outcome of an earlier request may be stored under it.
Init ==
  /\ auth = {} /\ old = {} /\ prepared = {}
  /\ store \in [Xfers -> Outcomes \cup {"none"}]
  /\ \A x \in Xfers : store[x] = "none" <=> x \in Fresh
  /\ srv = [x \in Xfers |-> "idle"] /\ asked = {}
  /\ hpc = [x \in Xfers |-> "idle"] /\ hev = [x \in Xfers |-> "Ongoing"]
  /\ phase = "fresh"
  /\ listener = NoListener /\ lk = Nobody /\ callee = NoListener
  /\ epc = "idle" /\ work = {} /\ cur = NoXfer
  /\ cleanup = [x \in Xfers |-> "no"]
  /\ fired = [x \in Xfers |-> [o \in Outcomes |-> 0]]
  /\ attempts = [x \in Xfers |-> 0] /\ crashes = 0 /\ dropped = {}

-----------------------------------------------------------------------------
(* The exported methods. *)

\* Start: subscribe to the server's events and start the ticker.
Start ==
  /\ phase = "fresh"
  /\ phase' = "running"
  /\ UNCHANGED <<durable, server, handler, expiry, locking, history, cleanup, fired>>

\* Stop: no more ticks and no more server events; a check that is under way and
\* callbacks that have been entered run on.  A tick that the ticker has sent already
\* waits in its channel.
Stop ==
  /\ phase = "running"
  /\ phase' \in {"draining", "stopped"}
  /\ UNCHANGED <<durable, server, handler, expiry, locking, history, cleanup, fired>>

\* The client uses a dbid once; that no earlier process did is what Fresh says.
PrepareForDataRequest(x) ==
  /\ x \notin prepared /\ phase # "fresh"
  /\ auth' = auth \cup {x}
  /\ prepared' = prepared \cup {x}
  /\ UNCHANGED <<old, store, server, handler, expiry, locking, attempts, crashes,
                 dropped, phase, cleanup, fired>>

\* The first half of CleanupPreparedRequest: the token goes, unless authDB
\* fails; the transfer is cancelled in either case.
CleanupPreparedRequest(x) ==
  /\ x \in prepared /\ cleanup[x] = "no" /\ phase # "fresh"
  /\ cleanup' = [cleanup EXCEPT ![x] = "cancel"]
  /\ \/ auth' = auth \ {x} /\ old' = old \ {x}
     \/ Faults /\ UNCHANGED <<auth, old>>
  /\ UNCHANGED <<store, server, handler, expiry, locking, history, phase, fired>>

\* Subscribe succeeds only while there is no listener.
Subscribe(l) ==
  /\ lk = Nobody /\ listener = NoListener
  /\ listener' = l
  /\ UNCHANGED <<durable, server, handler, expiry, lk, callee, history, phase,
                 cleanup, fired>>

\* Deviation: the listener is removed without taking listenerLk.
UnsubscribeUnlocked(l) ==
  /\ listener = l
  /\ listener' = NoListener
  /\ UNCHANGED <<durable, server, handler, expiry, lk, callee, history, phase,
                 cleanup, fired>>

\* The function Subscribe returned; its owner calls it once.
Unsubscribe(l) ==
  /\ lk = Nobody /\ listener = l
  /\ listener' = NoListener
  /\ UNCHANGED <<durable, server, handler, expiry, lk, callee, history, phase,
                 cleanup, fired>>

\* Call the listener, if there is one, with listenerLk held by p.  The lock stays
\* with p until the callback returns.
CallListener(p, x, status) ==
  /\ lk = Nobody /\ listener # NoListener
  /\ lk' = p /\ callee' = listener
  /\ fired' = IF status \in Outcomes
              THEN [fired EXCEPT ![x][status] = @ + 1] ELSE fired
  /\ UNCHANGED listener

ListenerReturns(p) ==
  /\ lk = p
  /\ lk' = Nobody /\ callee' = NoListener
  /\ UNCHANGED listener

-----------------------------------------------------------------------------
(* The HTTP server, which is not in this repository.  A transfer is "open"   *)
(* while the provider is connected; when it has completed ("ended") or is    *)
(* broken ("failed") it is still in the server's map until it is dropped;    *)
(* "checked" is a request whose token has been accepted and whose transfer   *)
(* is not registered yet.                                                    *)

InMap(x) == srv[x] \in {"open", "ended", "failed"}

\* A provider opens the transfer, for the first time or after a broken connection.
Request(x) ==
  /\ x \in auth /\ srv[x] = "idle" /\ attempts[x] < MaxAttempts
  /\ srv' = [srv EXCEPT ![x] = IF ServerWaits THEN "open" ELSE "checked"]
  /\ attempts' = [attempts EXCEPT ![x] = @ + 1]
  /\ UNCHANGED <<durable, asked, handler, expiry, locking, prepared, crashes,
                 dropped, phase, cleanup, fired>>

Register(x) ==
  /\ srv[x] = "checked"
  /\ srv' = [srv EXCEPT ![x] = "open"]
  /\ UNCHANGED <<durable, asked, handler, expiry, locking, history, phase,
                 cleanup, fired>>

\* Progress reaches the callback that Start registered.
ServerProgress(x) ==
  /\ srv[x] = "open" /\ hpc[x] = "idle" /\ phase = "running"
  /\ hpc' = [hpc EXCEPT ![x] = "lock"]
  /\ hev' = [hev EXCEPT ![x] = "Ongoing"]
  /\ UNCHANGED <<durable, server, expiry, locking, history, phase, cleanup, fired>>

\* The provider has everything: the callback, if there still is one, saves and then
\* notifies.
ServerComplete(x) ==
  /\ srv[x] = "open" /\ hpc[x] = "idle"
  /\ srv' = [srv EXCEPT ![x] = "ended"]
  /\ IF phase = "running"
     THEN hpc' = [hpc EXCEPT ![x] = "save"] /\ hev' = [hev EXCEPT ![x] = "Completed"]
     ELSE UNCHANGED handler
  /\ UNCHANGED <<durable, asked, expiry, locking, history, phase, cleanup, fired>>

\* The transfer breaks or is cancelled.  The callback returns at once on a
\* Failed event, so that the provider can make another request.
ServerFail(x) ==
  /\ srv[x] = "open" /\ hpc[x] = "idle"
  /\ srv' = [srv EXCEPT ![x] = "failed"]
  /\ UNCHANGED <<durable, asked, handler, expiry, locking, history, phase, cleanup,
                 fired>>

\* The server drops a transfer that is over.  A server that does not wait drops a
\* completed one in the middle of its callback.
ServerForget(x) ==
  /\ srv[x] \in {"ended", "failed"} /\ (ServerWaits => hpc[x] = "idle")
  /\ srv' = [srv EXCEPT ![x] = "idle"]
  /\ asked' = asked \ {x}
  /\ UNCHANGED <<durable, handler, expiry, locking, history, phase, cleanup, fired>>

CancelReturns(x) == ServerWaits => ~InMap(x)

\* The second half of CleanupPreparedRequest.
CleanupCancel(x) ==
  /\ cleanup[x] = "cancel"
  /\ cleanup' = [cleanup EXCEPT ![x] = "cancelling"]
  /\ asked' = IF InMap(x) THEN asked \cup {x} ELSE asked
  /\ UNCHANGED <<durable, srv, handler, expiry, locking, history, phase, fired>>

CleanupReturn(x) ==
  /\ cleanup[x] = "cancelling" /\ CancelReturns(x)
  /\ cleanup' = [cleanup EXCEPT ![x] = "done"]
  /\ UNCHANGED <<durable, server, handler, expiry, locking, history, phase, fired>>

-----------------------------------------------------------------------------
(* The event callback registered by subscribe(). *)

\* A failed save is logged, and the listener is told all the same.
HandlerSave(x) ==
  /\ hpc[x] = "save"
  /\ hpc' = [hpc EXCEPT ![x] = "lock"]
  /\ \/ store' = [store EXCEPT ![x] = "Completed"]
     \/ Faults /\ UNCHANGED store
  /\ UNCHANGED <<auth, old, server, hev, expiry, locking, history, phase, cleanup, fired>>

HandlerNotify(x) ==
  /\ hpc[x] = "lock"
  /\ CallListener(x, x, hev[x])
  /\ hpc' = [hpc EXCEPT ![x] = "call"]
  /\ UNCHANGED <<durable, server, hev, expiry, history, phase, cleanup>>

\* The callback is over, after the listener's return or because there is none.
HandlerReturn(x) ==
  /\ \/ hpc[x] = "call" /\ ListenerReturns(x)
     \/ hpc[x] = "lock" /\ lk = Nobody /\ listener = NoListener /\ UNCHANGED locking
  /\ hpc' = [hpc EXCEPT ![x] = "idle"]
  /\ hev' = [hev EXCEPT ![x] = "Ongoing"]
  /\ UNCHANGED <<durable, server, expiry, history, phase, cleanup, fired>>

-----------------------------------------------------------------------------
(* checkTransferExpiry: one tick of the ticker goroutine. *)

\* The transfer timeout passes for a token.
TokenAges(x) ==
  /\ x \in auth \ old
  /\ old' = old \cup {x}
  /\ UNCHANGED <<auth, store, server, handler, expiry, locking, history, phase,
                 cleanup, fired>>

TakeTick ==
  /\ phase \in {"running", "draining"} /\ epc = "idle" /\ old # {}
  /\ phase' = IF phase = "draining" THEN "stopped" ELSE phase

\* The tokens of these requests are deleted, and nobody will look at them again.
Drops(given) == dropped' = dropped \cup given

\* Deviation: expired tokens are listed and left in the database.
ExpiryTickKeepsTokens ==
  /\ TakeTick
  /\ work' = old
  /\ epc' = "next"
  /\ UNCHANGED <<auth, old, store, server, handler, cur, locking, history, cleanup, fired>>

\* DeleteExpired takes all expired tokens out of the database before any of them
\* is dealt with.
ExpiryTick ==
  /\ TakeTick
  /\ work' = old /\ auth' = auth \ old /\ old' = {}
  /\ epc' = "next"
  /\ UNCHANGED <<store, server, handler, cur, locking, history, cleanup, fired>>

\* DeleteExpired fails, when it has deleted some of the tokens or none, and the check
\* is over: nobody looks at the requests that have lost their token.
ExpiryTickFails ==
  /\ Faults /\ TakeTick
  /\ \E lost \in SUBSET old :
       auth' = auth \ lost /\ old' = old \ lost /\ Drops(lost)
  /\ UNCHANGED <<store, server, handler, expiry, locking, prepared, attempts, crashes,
                 cleanup, fired>>

\* Deviation: "return" in place of "continue".
AdvanceStops(left) ==
  /\ epc' = "idle" /\ work' = {} /\ cur' = NoXfer

\* "continue": on to the next token.
Advance(left) ==
  /\ epc' = IF left = {} THEN "idle" ELSE "next"
  /\ work' = left /\ cur' = NoXfer

\* Deviation: an active transfer is not cancelled.
ExpiryGetWithoutCancel(x) ==
  /\ epc = "next" /\ x \in work
  /\ cur' = x /\ work' = work \ {x} /\ epc' = "check"
  /\ UNCHANGED <<durable, server, handler, locking, history, phase, cleanup, fired>>

\* Deviation: without an active transfer there is nothing to do.
ExpiryGetActiveOnly(x) ==
  /\ epc = "next" /\ x \in work
  /\ IF InMap(x)
     THEN cur' = x /\ work' = work \ {x} /\ epc' = "cancel"
     ELSE Advance(work \ {x})
  /\ UNCHANGED <<durable, server, handler, locking, history, phase, cleanup, fired>>

\* dtServer.Get: an active transfer is cancelled first.
ExpiryGet(x) ==
  /\ epc = "next" /\ x \in work
  /\ \/ /\ cur' = x /\ work' = work \ {x}
        /\ epc' = IF InMap(x) THEN "cancel" ELSE "check"
        /\ UNCHANGED dropped
     \/ Faults /\ Advance(work \ {x}) /\ Drops({x})
  /\ UNCHANGED <<durable, server, handler, locking, prepared, attempts, crashes, phase,
                 cleanup, fired>>

ExpiryCancel ==
  /\ epc = "cancel"
  /\ epc' = "cancelling"
  /\ asked' = IF InMap(cur) THEN asked \cup {cur} ELSE asked
  /\ UNCHANGED <<durable, srv, handler, work, cur, locking, history, phase,
                 cleanup, fired>>

ExpiryCancelled ==
  /\ epc = "cancelling" /\ CancelReturns(cur)
  /\ epc' = "check"
  /\ UNCHANGED <<durable, server, handler, work, cur, locking, history,
                 phase, cleanup, fired>>

\* Deviation: a completed transfer is not told from one that never started.
ExpiryCheckForgetsCompleted ==
  /\ epc = "check"
  /\ epc' = "save"
  /\ UNCHANGED <<durable, server, handler, work, cur, locking, history, phase,
                 cleanup, fired>>

\* getCompletedTransfer: nothing more to do for a completed transfer.
ExpiryCheck ==
  /\ epc = "check"
  /\ IF store[cur] = "Completed"
     THEN Advance(work)
     ELSE /\ epc' = IF store[cur] = "none" THEN "save" ELSE "notify"
          /\ UNCHANGED <<work, cur>>
  /\ UNCHANGED <<durable, server, handler, locking, history, phase, cleanup, fired>>

\* Deviation: the failure is saved, and the listener is not told.
ExpirySaveSilently ==
  /\ epc = "save"
  /\ store' = [store EXCEPT ![cur] = "Failed"]
  /\ Advance(work)
  /\ UNCHANGED <<auth, old, server, handler, locking, history, phase, cleanup, fired>>

ExpirySave ==
  /\ epc = "save"
  /\ store' = [store EXCEPT ![cur] = "Failed"]
  /\ epc' = "notify"
  /\ UNCHANGED <<auth, old, server, handler, work, cur, locking, history,
                 phase, cleanup, fired>>

\* An error from CancelTransfer, the datastore read or the datastore write: the
\* token is skipped, and it is no longer in the database.
ExpiryError ==
  /\ Faults /\ epc \in {"cancelling", "check", "save"}
  /\ Advance(work) /\ Drops({cur})
  /\ UNCHANGED <<durable, server, handler, locking, prepared, attempts, crashes, phase,
                 cleanup, fired>>

ExpiryNotify ==
  /\ epc = "notify"
  /\ CallListener(Expiry, cur, "Failed")
  /\ epc' = "call"
  /\ UNCHANGED <<durable, server, handler, work, cur, history, phase, cleanup>>

ExpiryNext ==
  /\ \/ epc = "call" /\ ListenerReturns(Expiry)
     \/ epc = "notify" /\ lk = Nobody /\ listener = NoListener /\ UNCHANGED locking
  /\ Advance(work)
  /\ UNCHANGED <<durable, server, handler, history, phase, cleanup, fired>>

-----------------------------------------------------------------------------
\* The process dies and is started again: only the two databases survive.
Crash ==
  /\ crashes < MaxCrashes /\ phase # "fresh"
  /\ crashes' = crashes + 1 /\ Drops(work \cup (Xfers \cap {cur}))
  /\ phase' = "fresh"
  /\ srv' = [x \in Xfers |-> "idle"] /\ asked' = {}
  /\ hpc' = [x \in Xfers |-> "idle"] /\ hev' = [x \in Xfers |-> "Ongoing"]
  /\ listener' = NoListener /\ lk' = Nobody /\ callee' = NoListener
  /\ epc' = "idle" /\ work' = {} /\ cur' = NoXfer
  /\ cleanup' = [x \in Xfers |-> IF cleanup[x] = "no" THEN "no" ELSE "done"]
  /\ UNCHANGED <<durable, prepared, attempts, fired>>

ServerEvent(x) == \/ Register(x) \/ ServerProgress(x) \/ ServerComplete(x)
                  \/ ServerFail(x) \/ ServerForget(x)
ServerStep(x)  == Request(x) \/ ServerEvent(x)
HandlerStep(x) == HandlerSave(x) \/ HandlerNotify(x) \/ HandlerReturn(x)
ClientStep(x)  == \/ PrepareForDataRequest(x) \/ CleanupPreparedRequest(x)
                  \/ CleanupCancel(x) \/ CleanupReturn(x)
ExpiryStep     == \/ ExpiryTick \/ ExpiryTickFails \/ (\E x \in Xfers : ExpiryGet(x))
                  \/ ExpiryCancel \/ ExpiryCancelled \/ ExpiryCheck
                  \/ ExpirySave \/ ExpiryError \/ ExpiryNotify \/ ExpiryNext

Next ==
  \/ Start \/ Stop \/ Crash \/ ExpiryStep
  \/ \E x \in Xfers : ServerStep(x) \/ HandlerStep(x) \/ ClientStep(x) \/ TokenAges(x)
  \/ \E l \in Listeners : Subscribe(l) \/ Unsubscribe(l)

Spec == Init /\ [][Next]_vars

(***************************************************************************)
(* Time passes, the ticker goroutine and the callbacks run, listeners      *)
(* return, a cancelled transfer ends, the server drops what is over, and   *)
(* a deletion does not fail for ever.  Nothing obliges a provider to ask   *)
(* for its data or a client to subscribe.  The listener lock is taken in   *)
(* turn (a Go mutex does not starve a waiter), hence SF.                   *)
(***************************************************************************)
Fairness ==
  /\ WF_vars(ExpiryTick) /\ WF_vars(\E x \in Xfers : ExpiryGet(x))
  /\ WF_vars(ExpiryCancel) /\ WF_vars(ExpiryCancelled) /\ WF_vars(ExpiryCheck)
  /\ WF_vars(ExpirySave) /\ SF_vars(ExpiryNotify \/ ExpiryNext)
  /\ \A x \in Xfers : /\ WF_vars(TokenAges(x))
                      /\ WF_vars(HandlerSave(x))
                      /\ SF_vars(HandlerNotify(x) \/ HandlerReturn(x))
                      /\ SF_vars(x \in asked /\ ServerFail(x))
                      /\ WF_vars(ServerForget(x))

FairSpec == Spec /\ Fairness

-----------------------------------------------------------------------------
(* Properties. *)

\* Every variable keeps to its values, and a process that is in the middle of
\* something holds what it needs for it.
TypeOK ==
  /\ prepared \subseteq Xfers /\ auth \subseteq prepared /\ old \subseteq auth
  /\ store \in [Xfers -> Outcomes \cup {"none"}]
  /\ srv \in [Xfers -> {"idle", "checked", "open", "ended", "failed"}]
  /\ asked \subseteq Xfers
  /\ hpc \in [Xfers -> {"idle", "save", "lock", "call"}] /\ hev \in [Xfers -> Events]
  /\ phase \in {"fresh", "running", "draining", "stopped"}
  /\ listener \in Listeners \cup {NoListener} /\ callee \in Listeners \cup {NoListener}
  /\ lk \in Xfers \cup {Expiry, Nobody}
  /\ epc \in {"idle", "next", "cancel", "cancelling", "check", "save", "notify", "call"}
  /\ work \subseteq prepared /\ cur \in prepared \cup {NoXfer}
  /\ epc \notin {"idle", "next"} => cur \in prepared
  /\ cleanup \in [Xfers -> {"no", "cancel", "cancelling", "done"}]
  /\ fired \in [Xfers -> [Outcomes -> Nat]]
  /\ attempts \in [Xfers -> 0..MaxAttempts] /\ crashes \in 0..MaxCrashes
  /\ dropped \subseteq prepared

\* The listener is never told two different outcomes of one request, and never
\* told twice that it failed: the check for a completed transfer (line 114) and
\* the write that follows it (line 147) are not one step, and the server's
\* callback runs between them.
OneOutcome ==
  \A x \in Xfers : /\ fired[x]["Failed"] <= 1
                  /\ fired[x]["Failed"] > 0 => fired[x]["Completed"] = 0

\* What the listener was told is what a restarted client finds on disk: the
\* outcome is saved before it is announced, across crashes too.
SavedBeforeTold ==
  \A x \in Xfers : \A o \in Outcomes : fired[x][o] > 0 => store[x] = o

\* When the listener hears of a failure the request is really over: no provider can
\* open it any more, no transfer and no callback of it is under way.
FailureIsQuiet ==
  \A x \in Xfers : fired[x]["Failed"] > 0 =>
      x \notin auth /\ srv[x] = "idle" /\ hpc[x] = "idle"

\* With any server and any error, a failure is announced at most once, and only
\* after the provider lost its "chance to make another request" (line 231).
FailureIsLate ==
  \A x \in Xfers : /\ fired[x]["Failed"] <= 1
                  /\ fired[x]["Failed"] > 0 => x \notin auth

\* Once the function that Subscribe returned has returned, the listener is not
\* running and will not be called again: listenerLk is held over the whole call.
ListenerStaysWhileCalled == callee # NoListener => listener = callee

\* All expired tokens are deleted at once (line 87) and worked off one by one.  A deletion
\* that fails part-way (line 88), an error in a request's turn and a crash lose the
\* requests whose tokens they took.  No other request is lost, with any server: one
\* without a token is in the batch, has an outcome, or was given up by the client.
NoRequestForgotten ==
  \A x \in prepared : \/ x \in auth \cup work \cup {cur}
                      \/ store[x] # "none"
                      \/ cleanup[x] # "no"
                      \/ x \in dropped

\* In a manager that keeps running, every prepared request gets an outcome, be the
\* provider silent, slow or broken, unless the client gives the request up.
EveryRequestSettles ==
  \A x \in Fresh :
    <>[](phase = "running") =>
      (x \in prepared ~> (store[x] # "none" \/ cleanup[x] # "no"))

\* A client that listens from before it prepares a request is told how it ended, if no
\* outcome is stored under the request's number already.
EveryRequestIsAnswered ==
  \A x \in Fresh :
    [](x \in prepared => phase = "running" /\ listener # NoListener) =>
      (x \in prepared ~> (\E o \in Outcomes : fired[x][o] > 0) \/ cleanup[x] # "no")

\* The manager keeps the promise DataRequests states, for requests with a new number.
Promise == INSTANCE DataRequests WITH
  Requests <- Fresh, prepared <- prepared \cap Fresh, open <- auth \cap Fresh,
  outcome <- [x \in Fresh |-> store[x]],
  told <- [x \in Fresh |-> {o \in Outcomes : fired[x][o] > 0}]

Implements == Promise!Spec

=============================================================================
