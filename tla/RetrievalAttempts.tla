------------------------- MODULE RetrievalAttempts -------------------------
(***************************************************************************)
(* The retrieve command: it tries a list of retrieval attempts, each over  *)
(* a network, until one works (filc/cmds.go, filc/retrieval.go).           *)
(*                                                                         *)
(* The IPFS attempt starts a goroutine that searches the DHT for providers *)
(* and tells the attempt over the channel ready.  The Filecoin attempt     *)
(* queries all candidates at once (RetrievalQuery), waits for all answers, *)
(* sorts them and retrieves from one candidate after the other.  One such  *)
(* retrieval, seen here as a step that succeeds or fails, is the module    *)
(* Retrieval.                                                              *)
(***************************************************************************)
EXTENDS Naturals, Sequences

CONSTANTS
  Candidates,    \* the entries of the list of candidates; a miner may have several
  Nobody,        \* no retrieval is under way
  Offers,        \* the answers to a query: [unseal, perByte, size]
  MaxProviders   \* bound: IPFS providers with an address found by the search

ASSUME ConstantsAssumption ==
  /\ {Nobody, "none", "ipfs", "failed"} \cap Candidates = {} /\ MaxProviders \in Nat
  /\ \A o \in Offers : o.unseal \in Nat /\ o.perByte \in Nat /\ o.size \in Nat

VARIABLES
  attempts,  \* the attempts that are left, the current one first
  pc,        \* place of the command
  cancelled, \* the context of the command is done
  \* the IPFS attempt
  spc, ready, found,
  \* the Filecoin attempt
  qpc,       \* place of the query of each candidate
  answers,   \* the offer of each candidate that answered
  queries,   \* candidates whose answer was collected, in order
  trying,    \* the candidate retrieved from
  \* history
  pub,       \* events of each query
  tried,     \* candidates in the order in which they were tried
  result     \* "none", "ipfs", a candidate, or "failed"

ipfsvars == <<spc, ready, found>>
filvars  == <<qpc, answers, queries, trying, pub, tried>>
vars == <<attempts, pc, cancelled, result, ipfsvars, filvars>>

NoAnswer == [unseal |-> 0, perByte |-> 0, size |-> 0]

\* The flags: IPFS cannot retrieve a part of a DAG, so "auto" skips it when there is a
\* selector; the command exits at once when it is asked for IPFS and a selector.
AttemptsFor(network, selector) ==
  CASE network = "auto" /\ ~selector -> <<"ipfs", "fil">>
    [] network = "ipfs" -> <<"ipfs">>
    [] OTHER -> <<"fil">>

Init ==
  /\ \E network \in {"auto", "ipfs", "fil"}, selector \in BOOLEAN :
       /\ ~(network = "ipfs" /\ selector)
       /\ attempts = AttemptsFor(network, selector)
  /\ pc = "next" /\ cancelled = FALSE /\ result = "none"
  /\ spc = "off" /\ ready = <<>> /\ found = 0
  /\ qpc = [c \in Candidates |-> "none"]
  /\ answers = [c \in Candidates |-> NoAnswer]
  /\ queries = <<>> /\ trying = Nobody
  /\ pub = [c \in Candidates |-> <<>>] /\ tried = <<>>

-----------------------------------------------------------------------------
(* RetrieveFromBestCandidate. *)

Succeed(r) == result' = r /\ pc' = "returned" /\ UNCHANGED attempts

FailAttempt == pc' = "next" /\ attempts' = Tail(attempts) /\ UNCHANGED result

StartIPFS ==
  /\ pc = "next" /\ attempts # <<>> /\ Head(attempts) = "ipfs"
  /\ pc' = "ready" /\ spc' = "select"
  /\ UNCHANGED <<attempts, cancelled, result, ready, found, filvars>>

StartFIL ==
  /\ pc = "next" /\ attempts # <<>> /\ Head(attempts) = "fil"
  /\ IF Candidates = {} THEN FailAttempt /\ UNCHANGED qpc
     ELSE /\ pc' = "wait"
          /\ qpc' = [c \in Candidates |-> "connect"]
          /\ UNCHANGED <<attempts, result>>
  /\ UNCHANGED <<cancelled, ipfsvars, answers, queries, trying, pub, tried>>

GiveUp ==
  /\ pc = "next" /\ attempts = <<>>
  /\ result' = "failed" /\ pc' = "returned"
  /\ UNCHANGED <<attempts, cancelled, ipfsvars, filvars>>

-----------------------------------------------------------------------------
(* IPFSRetrievalAttempt.Retrieve.  The context of the attempt is done when   *)
(* the attempt has returned (defer cancel()) or the command is cancelled.    *)

AttemptOver == cancelled \/ pc \notin {"ready", "walk"}

\* The search yields a provider with addresses, or one without that is skipped.
SearchFinds ==
  /\ spc = "select" /\ found < MaxProviders
  /\ found' = found + 1 /\ spc' = "sendTrue"
  /\ UNCHANGED <<attempts, pc, cancelled, result, ready, filvars>>

SearchExhausted ==
  /\ spc = "select"
  /\ spc' = "sendFalse"
  /\ UNCHANGED <<attempts, pc, cancelled, result, ready, found, filvars>>

SearchCancelled ==
  /\ spc = "select" /\ AttemptOver
  /\ spc' = "done"
  /\ UNCHANGED <<attempts, pc, cancelled, result, ready, found, filvars>>

\* Deviation: the search goes on after the last provider.
SearchSendsAgain ==
  /\ spc \in {"sendTrue", "sendFalse"} /\ ready = <<>>
  /\ ready' = <<spc = "sendTrue">>
  /\ spc' = "select"
  /\ UNCHANGED <<attempts, pc, cancelled, result, found, filvars>>

\* Sends to ready wait for room whatever becomes of the context.
SearchSends ==
  /\ spc \in {"sendTrue", "sendFalse"} /\ ready = <<>>
  /\ ready' = <<spc = "sendTrue">>
  /\ spc' = IF spc = "sendTrue" THEN "select" ELSE "done"
  /\ UNCHANGED <<attempts, pc, cancelled, result, found, filvars>>

Search == SearchFinds \/ SearchExhausted \/ SearchCancelled \/ SearchSends

\* The select on the context and ready.
IPFSReady ==
  /\ pc = "ready"
  /\ \/ /\ cancelled /\ FailAttempt /\ UNCHANGED ready
     \/ /\ ready # <<>> /\ ready' = <<>>
        /\ IF Head(ready) THEN pc' = "walk" /\ UNCHANGED <<attempts, result>>
           ELSE FailAttempt
  /\ UNCHANGED <<cancelled, spc, found, filvars>>

\* merkledag.Walk fetches the DAG or fails.
IPFSWalk ==
  /\ pc = "walk"
  /\ Succeed("ipfs") \/ FailAttempt
  /\ UNCHANGED <<cancelled, ipfsvars, filvars>>

-----------------------------------------------------------------------------
(* FILRetrievalAttempt.Retrieve. *)

PublishQuery(c, code) == pub' = [pub EXCEPT ![c] = Append(@, code)]

\* Deviation: the error path returns without wg.Done.
QueryConnectsNotDone(c) ==
  /\ qpc[c] = "connect"
  /\ \/ qpc' = [qpc EXCEPT ![c] = "ask"] /\ PublishQuery(c, "connected")
     \/ qpc' = [qpc EXCEPT ![c] = "none"] /\ PublishQuery(c, "failure")
  /\ UNCHANGED <<attempts, pc, cancelled, result, ipfsvars, answers, queries, trying, tried>>

\* RetrievalQuery: connect, ask, and publish each.  An error ends the goroutine.
QueryConnects(c) ==
  /\ qpc[c] = "connect"
  /\ \/ qpc' = [qpc EXCEPT ![c] = "ask"] /\ PublishQuery(c, "connected")
     \/ qpc' = [qpc EXCEPT ![c] = "done"] /\ PublishQuery(c, "failure")
  /\ UNCHANGED <<attempts, pc, cancelled, result, ipfsvars, answers, queries, trying, tried>>

QueryAsks(c) ==
  /\ qpc[c] = "ask"
  /\ \/ /\ qpc' = [qpc EXCEPT ![c] = "collect"] /\ PublishQuery(c, "query-asked")
        /\ \E o \in Offers : answers' = [answers EXCEPT ![c] = o]
     \/ /\ qpc' = [qpc EXCEPT ![c] = "done"] /\ PublishQuery(c, "failure")
        /\ UNCHANGED answers
  /\ UNCHANGED <<attempts, pc, cancelled, result, ipfsvars, queries, trying, tried>>

\* The answer is appended under queriesLk.
QueryCollects(c) ==
  /\ qpc[c] = "collect"
  /\ qpc' = [qpc EXCEPT ![c] = "done"]
  /\ queries' = Append(queries, c)
  /\ UNCHANGED <<attempts, pc, cancelled, result, ipfsvars, answers, trying, pub, tried>>

totalCost(o) == o.perByte * o.size + o.unseal

\* The comparison of two offers: an unsealed one first, then the cheaper, then the
\* smaller.
Better(a, b) ==
  \/ a.unseal = 0 /\ b.unseal # 0
  \/ totalCost(a) < totalCost(b)
  \/ totalCost(a) = totalCost(b) /\ a.size < b.size

\* The function given to sort.Slice takes both offers from position i.
LessAt(q, i, j) == Better(answers[q[i]], answers[q[i]])

\* What sort.Slice promises: a permutation without a pair that the function puts in the
\* other order.
SortedBy(q) ==
  {r \in [1..Len(q) -> {q[i] : i \in 1..Len(q)}] :
     /\ \A i, j \in 1..Len(q) : i # j => r[i] # r[j]
     /\ \A i, j \in 1..Len(q) : i < j => ~LessAt(r, j, i)}

\* wg.Wait, then the sort.
Collected ==
  /\ pc = "wait" /\ \A c \in Candidates : qpc[c] = "done"
  /\ IF queries = <<>> THEN FailAttempt /\ UNCHANGED queries
     ELSE /\ queries' \in SortedBy(queries)
          /\ pc' = "try"
          /\ UNCHANGED <<attempts, result>>
  /\ UNCHANGED <<cancelled, ipfsvars, qpc, answers, trying, pub, tried>>

\* Deviation: a proposal that cannot be made ends the loop.
TryNextStops ==
  /\ pc = "try"
  /\ IF queries = <<>> THEN FailAttempt /\ UNCHANGED <<queries, trying, tried>>
     ELSE /\ tried' = Append(tried, Head(queries))
          /\ \/ pc' = "retrieve" /\ trying' = Head(queries) /\ queries' = Tail(queries)
             \/ pc' = "try" /\ trying' = Nobody /\ queries' = <<>>
          /\ UNCHANGED <<attempts, result>>
  /\ UNCHANGED <<cancelled, ipfsvars, qpc, answers, pub>>

\* The next candidate; RetrievalProposalForAsk may fail for it.
TryNext ==
  /\ pc = "try"
  /\ IF queries = <<>> THEN FailAttempt /\ UNCHANGED <<queries, trying, tried>>
     ELSE /\ queries' = Tail(queries)
          /\ tried' = Append(tried, Head(queries))
          /\ \/ pc' = "retrieve" /\ trying' = Head(queries)
             \/ pc' = "try" /\ trying' = Nobody
          /\ UNCHANGED <<attempts, result>>
  /\ UNCHANGED <<cancelled, ipfsvars, qpc, answers, pub>>

\* Deviation: the loop does not end with the first retrieval that works.
RetrieveReturnsCarriesOn ==
  /\ pc = "retrieve"
  /\ trying' = Nobody
  /\ result' = trying \/ UNCHANGED result
  /\ pc' = "try"
  /\ UNCHANGED <<attempts, cancelled, ipfsvars, qpc, answers, queries, pub, tried>>

\* RetrieveContentWithProgressCallback returns.
RetrieveReturns ==
  /\ pc = "retrieve"
  /\ trying' = Nobody
  /\ \/ Succeed(trying)
     \/ pc' = "try" /\ UNCHANGED <<attempts, result>>
  /\ UNCHANGED <<cancelled, ipfsvars, qpc, answers, queries, pub, tried>>

Cancel ==
  /\ ~cancelled /\ cancelled' = TRUE
  /\ UNCHANGED <<attempts, pc, result, ipfsvars, filvars>>

Query(c) == QueryConnects(c) \/ QueryAsks(c) \/ QueryCollects(c)

Command == \/ StartIPFS \/ StartFIL \/ GiveUp \/ IPFSReady \/ IPFSWalk \/ Collected
           \/ TryNext \/ RetrieveReturns

Next == Command \/ Search \/ Cancel \/ \E c \in Candidates : Query(c)

Spec == Init /\ [][Next]_vars

\* The command, the search and the queries run; remote calls return, and the DHT has
\* finitely many providers.
FairSpec ==
  /\ Spec
  /\ WF_vars(Command) /\ WF_vars(Search)
  /\ \A c \in Candidates : WF_vars(Query(c))

-----------------------------------------------------------------------------
(* Properties. *)

InSeq(x, s) == \E i \in 1..Len(s) : s[i] = x

\* What may be left of the attempts.
Remainders == {<<"ipfs", "fil">>, <<"ipfs">>, <<"fil">>, <<>>}

\* Every variable keeps to its values.
TypeOK ==
  /\ attempts \in Remainders
  /\ pc \in {"next", "ready", "walk", "wait", "try", "retrieve", "returned"}
  /\ spc \in {"off", "select", "sendTrue", "sendFalse", "done"}
  /\ ready \in Seq(BOOLEAN) /\ Len(ready) <= 1 /\ found \in 0..MaxProviders
  /\ qpc \in [Candidates -> {"none", "connect", "ask", "collect", "done"}]
  /\ answers \in [Candidates -> Offers \cup {NoAnswer}]
  /\ queries \in Seq(Candidates) /\ tried \in Seq(Candidates)
  /\ trying \in Candidates \cup {Nobody} /\ cancelled \in BOOLEAN
  /\ result \in {"none", "ipfs", "failed"} \cup Candidates

\* The command gives up only when every attempt of the list failed, and the Filecoin
\* attempt only when every candidate that answered was tried.
NobodyLeftOut ==
  result = "failed" =>
    /\ attempts = <<>>
    /\ \A c \in Candidates : InSeq("query-asked", pub[c]) => InSeq(c, tried)

\* An entry of the list is tried at most once, and after a retrieval that worked nobody
\* else is: the last one tried is the one reported.  Nothing removes duplicates from the
\* list (cmds.go 650-666), so a miner is tried as often as it is listed.
OneRetrievalEach ==
  /\ \A i, j \in 1..Len(tried) : tried[i] = tried[j] => i = j
  /\ result \in Candidates => tried[Len(tried)] = result

\* The command returns, although the slowest candidate holds up the others and the
\* search may be stuck.
CommandReturns == <>(pc = "returned")

\* The search ends with the attempt, unless it found more providers than the attempt
\* and the channel take (line 70 sends outside the select) or the attempt was
\* cancelled before it took the first.
SearchEnds ==
  (spc # "off" /\ AttemptOver) ~> (spc = "done" \/ found >= 2 \/ cancelled)

\* "Always prefer unsealed to sealed, no matter what" (retrieval.go:207): no candidate
\* with a sealed copy is tried before one with an unsealed copy.
UnsealedFirst ==
  \A i, j \in 1..Len(tried) :
    i < j /\ answers[tried[j]].unseal = 0 => answers[tried[i]].unseal = 0
=============================================================================
