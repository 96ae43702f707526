------------------------ MODULE TransferQueries_proofs ------------------------
(***************************************************************************)
(* Proofs about TransferQueries, for any requests, attempts and crashes.   *)
(* The manager's own invariant is used as TransferManager_proofs proves    *)
(* it: a query leaves the manager alone.                                   *)
(***************************************************************************)
EXTENDS TransferQueries, TransferManager_proofs

\* What a query is about, and what an entry without address and payload stands for.
Question ==
  /\ qpc \in {"idle", "map", "state", "store", "answered"}
  /\ qpc # "idle" => /\ op \in Ops /\ about \subseteq Xfers
                     /\ op # "byContent" => \E x \in Xfers : about = {x}
  /\ qpc \in {"idle", "map"} => seen = NotFound
  /\ qpc = "state" => op # "All" /\ \E x \in Xfers : about = {x}
  /\ \A x \in bare : store[x] = "Failed"

\* What ends the iteration over the saved outcomes early.
Stopper == \E x \in Xfers \ (about \ bare) : store[x] # "none"

\* A saved outcome of the content that the second read may find.
Match == \E x \in about \ bare : store[x] # "none"

\* Every status since the query was asked is in during; so is each saved outcome that
\* a later read may still find, and what the first read found.
Heard ==
  /\ qpc \in {"map", "state", "store"} => RightAnswers(op, about) \subseteq during
  /\ qpc = "state" => /\ seen \in during
                      /\ seen = "Ongoing" => \A x \in about : srv[x] = "open"
  /\ qpc = "store" /\ op = "byId" => \A x \in about : Saved(x) \in during
  /\ qpc = "store" /\ op = "All" => \A x \in about : store[x] = "none" => seen \in during
  /\ qpc = "store" /\ op = "byContent" =>
       /\ \A x \in about \ bare : store[x] # "none" => store[x] \in during
       /\ NotFound \in during \/ Match
  /\ qpc = "answered" =>
       answer \in during \/ (op = "byContent" /\ answer = NotFound /\ Stopper)

QInv == Question /\ Heard

\* While a completion is saved its transfer is still in the server's map, as completed;
\* when a failure is saved its transfer has left the map, and nothing was saved before.
LEMMA Saving ==
  ASSUME ServerWaits, ~Faults, IInv, TypeOK', [Next]_vars, NEW x \in Xfers
  PROVE  \/ store'[x] = store[x]
         \/ store'[x] = "Completed" /\ srv'[x] = "ended"
         \/ store'[x] = "Failed" /\ srv'[x] = "idle" /\ store[x] = "none"
<1> USE DEF durable, server, handler, expiry, locking, history
<1>1. ASSUME NEW y \in Xfers, HandlerSave(y) 
      PROVE  store'[x] = store[x] \/ (store'[x] = "Completed" /\ srv'[x] = "ended")
  BY <1>1 DEF HandlerSave, IInv, TypeOK, Callbacks
<1>2. CASE ExpirySave
  BY <1>2 DEF ExpirySave, IInv, TypeOK, Deciding
<1>3. CASE UNCHANGED store
  BY <1>3
<1>4. \/ \E y \in Xfers : HandlerSave(y)
      \/ ExpirySave
      \/ UNCHANGED store
  <2>1. CASE ExpiryStep
    BY <2>1 DEF ExpiryStep, ExpiryTick, ExpiryTickFails, TakeTick, ExpiryGet, ExpiryCancel,
                ExpiryCancelled, ExpiryCheck, ExpiryError, ExpiryNotify, ExpiryNext
  <2>2. ASSUME NEW y \in Xfers, ServerStep(y) PROVE UNCHANGED store
    BY <2>2 DEF ServerStep, ServerEvent, Request, Register, ServerProgress, ServerComplete,
                ServerFail, ServerForget
  <2>3. ASSUME NEW y \in Xfers, HandlerStep(y) PROVE HandlerSave(y) \/ UNCHANGED store
    BY <2>3 DEF HandlerStep, HandlerNotify, HandlerReturn
  <2>4. ASSUME NEW y \in Xfers, ClientStep(y) PROVE UNCHANGED store
    BY <2>4 DEF ClientStep, PrepareForDataRequest, CleanupPreparedRequest, CleanupCancel,
                CleanupReturn
  <2>5. ASSUME NEW y \in Xfers, TokenAges(y) PROVE UNCHANGED store
    BY <2>5 DEF TokenAges
  <2>6. ASSUME NEW l \in Listeners, Subscribe(l) \/ Unsubscribe(l) PROVE UNCHANGED store
    BY <2>6 DEF Subscribe, Unsubscribe
  <2>7. CASE Start \/ Stop \/ Crash
    BY <2>7 DEF Start, Stop, Crash
  <2>8. CASE UNCHANGED vars
    BY <2>8 DEF vars
  <2> QED
    BY <2>1, <2>2, <2>3, <2>4, <2>5, <2>6, <2>7, <2>8 DEF Next
<1> QED
  BY <1>1, <1>2, <1>3, <1>4

\* A transfer that is open leaves the map in a later step than the one that ends it,
\* unless the process dies.
LEMMA Leaving ==
  ASSUME TypeOK, [Next]_vars, NEW x \in Xfers, srv[x] = "open", phase' # "fresh"
  PROVE  InMap(x)'
<1> USE DEF InMap, TypeOK, server
<1>1. CASE UNCHANGED server
  BY <1>1
<1>2. CASE Start \/ Stop \/ Crash
  BY <1>2 DEF Start, Stop, Crash
<1>3. CASE ExpiryStep
  BY <1>3 DEF ExpiryStep, ExpiryTick, ExpiryTickFails, TakeTick, ExpiryGet, ExpiryCancel,
              ExpiryCancelled, ExpiryCheck, ExpirySave, ExpiryError, ExpiryNotify, ExpiryNext
<1>4. ASSUME NEW y \in Xfers, ServerStep(y) PROVE InMap(x)'
  BY <1>4 DEF ServerStep, ServerEvent, Request, Register, ServerProgress, ServerComplete,
              ServerFail, ServerForget
<1>5. ASSUME NEW y \in Xfers, HandlerStep(y) \/ TokenAges(y) PROVE InMap(x)'
  BY <1>5 DEF HandlerStep, HandlerSave, HandlerNotify, HandlerReturn, TokenAges
<1>6. ASSUME NEW y \in Xfers, ClientStep(y) PROVE InMap(x)'
  BY <1>6 DEF ClientStep, PrepareForDataRequest, CleanupPreparedRequest, CleanupCancel,
              CleanupReturn
<1>7. ASSUME NEW l \in Listeners, Subscribe(l) \/ Unsubscribe(l) PROVE InMap(x)'
  BY <1>7 DEF Subscribe, Unsubscribe
<1>8. CASE UNCHANGED vars
  BY <1>8 DEF vars
<1> QED
  BY <1>2, <1>3, <1>4, <1>5, <1>6, <1>7, <1>8 DEF Next

\* The status of one request is a right answer about it.
LEMMA OneRight == \A o, x : Status(o, x) \in RightAnswers(o, {x})
  BY DEF RightAnswers

\* The statuses of several requests are right when those of each are.
LEMMA ManyRight ==
  \A o, xs : \A x \in xs : Status(o, x) # NotFound => Status(o, x) \in RightAnswers(o, xs)
  BY DEF RightAnswers

\* The first read: what it finds is a status of now, and so is the saved outcome of
\* what it does not find.
LEMMA MapHeard == TypeOK /\ QInv /\ ReadMap => QInv'
<1> SUFFICES ASSUME TypeOK, QInv, ReadMap PROVE QInv'
  OBVIOUS
<1> USE DEF QInv, TypeOK, durable, Ops
<1>1. /\ qpc = "map" /\ seen = NotFound /\ op \in Ops /\ about \subseteq Xfers
      /\ op # "byContent" => \E x \in Xfers : about = {x}
      /\ RightAnswers(op, about) \subseteq during
      /\ UNCHANGED <<op, during, bare, store, srv>>
  BY DEF ReadMap, Question, Heard, vars, server
<1>2. ASSUME NEW x \in about, InMap(x), seen' = Active(x), about' = {x},
             qpc' = IF op = "All" THEN "store" ELSE "state"
      PROVE  QInv'
  <2>1. Question'
    BY <1>1, <1>2 DEF Question
  <2>2. Status(op, x) \in during
    <3>1. CASE op = "All"
      <4>1. about = {x}
        BY <1>1, <1>2, <3>1
      <4> QED
        BY <4>1, <1>1, OneRight
    <3>2. CASE op # "All"
      <4>1. Status(op, x) # NotFound
        BY <1>2, <3>2, NotFoundAssumption DEF Status, Active
      <4> QED
        BY <4>1, <1>1, ManyRight
    <3> QED
      BY <3>1, <3>2
  <2>3. RightAnswers(op, about)' = {Status(op, x)}
    BY <1>1, <1>2 DEF RightAnswers, Status, Saved, Active, InMap
  <2>4. op = "All" => (store[x] = "none" => seen' \in during)
    BY <1>2, <2>2 DEF Status
  <2>5. op # "All" => seen' \in during /\ (seen' = "Ongoing" => srv[x] = "open")
    BY <1>2, <2>2 DEF Status, Active, InMap
  <2>6. Heard'
    BY <1>1, <1>2, <2>2, <2>3, <2>4, <2>5 DEF Heard
  <2> QED
    BY <2>1, <2>6
<1>3. ASSUME \A x \in about : ~InMap(x), qpc' = "store", UNCHANGED <<about, seen>>
      PROVE  QInv'
  <2>1. Question'
    BY <1>1, <1>3 DEF Question
  <2>2. op # "byContent" => \A x \in about : Saved(x) \in during
    BY <1>1, <1>3, OneRight DEF Status
  <2>3. op = "All" => \A x \in about : store[x] = "none" => seen \in during
    BY <1>1, <2>2 DEF Saved
  <2>4. ASSUME op = "byContent"
        PROVE  /\ \A x \in about \ bare : store[x] # "none" => store[x] \in during
               /\ NotFound \in during \/ Match
    <3>1. ASSUME NEW x \in about \ bare, store[x] # "none" PROVE store[x] \in during
      <4>1. Status(op, x) = store[x] /\ store[x] # NotFound
        BY <2>4, <3>1, <1>1, <1>3, NotFoundAssumption DEF Status, Saved, Outcomes
      <4> QED
        BY <4>1, <3>1, <1>1, ManyRight
    <3>2. CASE ~Match
      <4>1. \A x \in about : Status(op, x) = NotFound
        BY <2>4, <3>2, <1>3 DEF Match, Status, Saved
      <4>2. NotFound \in RightAnswers(op, about)
        BY <4>1 DEF RightAnswers
      <4> QED
        BY <4>2, <3>1, <1>1
    <3> QED
      BY <3>1, <3>2
  <2>5. RightAnswers(op, about)' = RightAnswers(op, about)
    BY <1>1, <1>3 DEF RightAnswers, Status, Saved, Active, InMap
  <2>6. (\A x \in about : Saved(x)' = Saved(x)) /\ Match' = Match
    BY <1>1, <1>3 DEF Saved, Match
  <2>7. Heard'
    BY <1>1, <1>3, <2>2, <2>3, <2>4, <2>5, <2>6 DEF Heard
  <2> QED
    BY <2>1, <2>7
<1> QED
  BY <1>2, <1>3 DEF ReadMap

\* The state of a transfer that was found is a status it had.
LEMMA StateHeard == QInv /\ ReadState => QInv'
  BY DEF QInv, Question, Heard, ReadState, Reply, vars, durable

\* The second read.
LEMMA StoreHeard == TypeOK /\ QInv /\ ReadStore => QInv'
<1> SUFFICES ASSUME TypeOK, QInv, ReadStore PROVE QInv'
  OBVIOUS
<1> USE DEF QInv, TypeOK, durable, Ops
<1>1. /\ qpc = "store" /\ qpc' = "answered" /\ op \in Ops /\ about \subseteq Xfers
      /\ op # "byContent" => \E x \in Xfers : about = {x}
      /\ RightAnswers(op, about) \subseteq during
      /\ UNCHANGED <<op, about, during, bare, store>>
  BY DEF ReadStore, Reply, Question, Heard, vars
<1>2. Question'
  BY <1>1 DEF Question
<1>3. answer' \in during \/ (op = "byContent" /\ answer' = NotFound /\ Stopper)
  <2>1. CASE op = "byId"
    BY <2>1, <1>1 DEF ReadStore, Reply, Heard
  <2>2. CASE op = "All"
    <3>1. PICK x \in Xfers : about = {x} /\ answer' = AllOf(x)
      BY <2>2, <1>1 DEF ReadStore, Reply
    <3>2. Status("All", x) \in during
      BY <2>2, <3>1, <1>1, OneRight
    <3>3. store[x] # "none" => Status("All", x) = store[x]
      BY DEF Status, Saved
    <3> QED
      BY <2>2, <3>1, <3>2, <3>3, <1>1 DEF AllOf, Heard
  <2>3. CASE op = "byContent"
    <3> DEFINE records == {x \in Xfers : store[x] # "none"}
               matching == (about \cap records) \ bare
    <3>1. answer' \in ContentAnswers
      BY <2>3 DEF ReadStore, Reply
    <3>2. CASE \E x \in matching : answer' = store[x]
      BY <2>3, <3>2, <1>1 DEF Heard
    <3>3. CASE answer' = NotFound /\ matching = {}
      <4>1. ~Match
        BY <3>3, <1>1 DEF Match
      <4> QED
        BY <2>3, <3>3, <4>1, <1>1 DEF Heard
    <3>4. CASE answer' = NotFound /\ records # matching
      <4>1. PICK x \in records : x \notin about \ bare
        BY <3>4
      <4> QED
        BY <2>3, <3>4, <4>1 DEF Stopper
    <3> QED
      BY <3>1, <3>2, <3>3, <3>4 DEF ContentAnswers
  <2> QED
    BY <2>1, <2>2, <2>3, <1>1
<1>4. Stopper' = Stopper
  BY <1>1 DEF Stopper
<1>5. Heard'
  BY <1>1, <1>3, <1>4 DEF Heard
<1> QED
  BY <1>2, <1>5

\* A step of the manager: the new status of what is asked about joins the right answers,
\* an outcome that is saved meanwhile is the status as it is saved, and an attempt that
\* ends has the state it ends in.
LEMMA ManagerHeard ==
  ASSUME ServerWaits, ~Faults, IInv, TypeOK', QInv, ManagerStep
  PROVE  QInv'
<1> USE DEF QInv, Ops
<1>0. [Next]_vars /\ TypeOK
  BY DEF ManagerStep, IInv
<1>1. bare' = {x \in Xfers : /\ store'[x] = "Failed"
                             /\ (x \in bare \/ (store[x] # "Failed" /\ ~found))}
  BY DEF ManagerStep
<1>2. CASE qpc \in {"idle", "answered"} \/ phase' = "fresh"
  BY <1>1, <1>2 DEF ManagerStep, Forget, Question, Heard
<1>3. CASE ~(qpc \in {"idle", "answered"} \/ phase' = "fresh")
  <2>1. /\ UNCHANGED <<qpc, op, about, answer>>
        /\ IF qpc = "state" /\ seen = "Ongoing"
           THEN \E x \in about : seen' = Active(x)'
           ELSE UNCHANGED seen
        /\ during' = during \cup RightAnswers(op, about)'
        /\ qpc \in {"map", "state", "store"} /\ phase' # "fresh"
    BY <1>3 DEF ManagerStep, Question
  <2>2. /\ op \in Ops /\ about \subseteq Xfers
        /\ op # "byContent" => \E x \in Xfers : about = {x}
    BY <2>1 DEF Question
  <2>3. Question'
    BY <1>1, <2>1 DEF Question
  <2>4. RightAnswers(op, about)' \subseteq during'
    BY <2>1
  <2>5. ASSUME NEW x \in about, Status(op, x)' # NotFound
        PROVE  Status(op, x)' \in during'
    <3>1. (\A y \in about : Status(op, y) # NotFound => Status(op, y) \in RightAnswers(op, about))'
      BY ManyRight DEF RightAnswers
    <3> QED
      BY <2>1, <2>4, <2>5, <3>1
  <2>6. ASSUME NEW x \in about, store'[x] # store[x]
        PROVE  /\ store'[x] \in Outcomes
               /\ op # "byContent" \/ x \notin bare' => Status(op, x)' = store'[x]
    <3>1. \/ store'[x] = "Completed" /\ srv'[x] = "ended"
          \/ store'[x] = "Failed" /\ srv'[x] = "idle"
      BY <1>0, <2>2, <2>6, Saving
    <3> QED
      BY <3>1, <2>1 DEF Status, Saved, Active, InMap, Outcomes
  <2>7. ASSUME NEW x \in about, store'[x] # store[x], op # "byContent" \/ x \notin bare'
        PROVE  store'[x] \in during'
    <3>1. Status(op, x)' = store'[x] /\ store'[x] # NotFound
      BY <2>6, <2>7, NotFoundAssumption DEF Outcomes
    <3> QED
      BY <3>1, <2>5
  <2>8. ASSUME qpc = "state"
        PROVE  /\ seen' \in during'
               /\ seen' = "Ongoing" => \A x \in about : srv'[x] = "open"
    <3>1. CASE seen # "Ongoing"
      BY <2>1, <2>8, <3>1 DEF Heard
    <3>2. CASE seen = "Ongoing"
      <4>1. PICK x \in Xfers : about = {x} /\ seen' = Active(x)'
        BY <2>1, <2>8, <3>2 DEF Question
      <4>2. InMap(x)' /\ op # "All"
        BY <1>0, <2>1, <2>8, <3>2, <4>1, Leaving DEF Heard, Question
      <4>3. Status(op, x)' = Active(x)' /\ Active(x)' # NotFound
        BY <2>1, <4>2, NotFoundAssumption DEF Status, Active
      <4>4. seen' \in during'
        BY <4>1, <4>3, <2>5
      <4>5. Active(x)' = "Ongoing" => srv'[x] = "open"
        BY DEF Active
      <4> QED
        BY <4>1, <4>4, <4>5
    <3> QED
      BY <3>1, <3>2
  <2>9. op = "byId" /\ qpc = "store" => \A x \in about : Saved(x)' \in during'
    BY <2>1, <2>6, <2>7 DEF Heard, Saved, Outcomes
  <2>10. op = "All" /\ qpc = "store" =>
          \A x \in about : store'[x] = "none" => seen' \in during'
    BY <2>1, <2>6 DEF Heard, Outcomes
  <2>11. op = "byContent" /\ qpc = "store" =>
           \A x \in about \ bare' : store'[x] # "none" => store'[x] \in during'
    <3> SUFFICES ASSUME op = "byContent", qpc = "store", NEW x \in about \ bare',
                        store'[x] # "none"
                 PROVE  store'[x] \in during'
      OBVIOUS
    <3>1. CASE store'[x] # store[x]
      BY <3>1, <2>7
    <3>2. CASE store'[x] = store[x]
      <4>1. x \notin bare
        BY <3>2, <2>2, <1>1 DEF Question
      <4> QED
        BY <4>1, <3>2, <2>1 DEF Heard
    <3> QED
      BY <3>1, <3>2
  <2>12. op = "byContent" /\ qpc = "store" => NotFound \in during' \/ Match'
    <3> SUFFICES ASSUME op = "byContent", qpc = "store", NotFound \notin during PROVE Match'
      BY <2>1
    <3>1. PICK x \in about \ bare : store[x] # "none"
      BY DEF Heard, Match
    <3>2. store'[x] = store[x] \/ store'[x] = "Completed"
      BY <1>0, <2>2, <3>1, Saving
    <3>3. x \notin bare' /\ store'[x] # "none"
      BY <1>1, <3>1, <3>2
    <3> QED
      BY <2>1, <3>3 DEF Match
  <2>13. Heard'
    BY <2>1, <2>4, <2>8, <2>9, <2>10, <2>11, <2>12 DEF Heard
  <2> QED
    BY <2>3, <2>13
<1> QED
  BY <1>2, <1>3

\* The steps that are neither a read nor the manager's.
LEMMA OtherHeard ==
  ASSUME QInv, Ask \/ QueryError \/ UNCHANGED qvars
  PROVE  QInv'
<1> USE DEF QInv, Question, durable
<1>1. CASE Ask
  <2>1. /\ qpc' = "map" /\ op' \in Ops /\ UNCHANGED <<bare, store>> /\ seen' = NotFound
        /\ about' \in IF op' = "byContent" THEN SUBSET Xfers ELSE {{x} : x \in Xfers}
    BY <1>1 DEF Ask, vars
  <2>2. RightAnswers(op, about)' = during'
    BY <1>1 DEF Ask, RightAnswers, Status, Saved, Active, InMap, vars, server
  <2> QED
    BY <2>1, <2>2 DEF Heard
<1>2. CASE QueryError
  BY <1>2 DEF QueryError, Forget, Heard, vars
<1>3. CASE UNCHANGED qvars
  <2>1. UNCHANGED <<qpc, op, about, seen, answer, during, bare, store, srv>>
    BY <1>3 DEF qvars, query, vars, server
  <2>2. UNCHANGED <<RightAnswers(op, about), Stopper, Match>>
    BY <2>1 DEF RightAnswers, Status, Saved, Active, InMap, Stopper, Match
  <2> QED
    BY <2>1, <2>2 DEF Heard, Saved
<1> QED
  BY <1>1, <1>2, <1>3

\* A query changes nothing of the manager: whatever holds of the manager alone holds of
\* it while queries run.
THEOREM QueriesKeepManager == QuerySpec => Spec
<1>1. QueryInit => Init
  BY DEF QueryInit
<1>2. [QueryNext]_qvars => [Next]_vars
  BY DEF QueryNext, QueryStep, Ask, ReadMap, ReadState, ReadStore, QueryError,
         ManagerStep, qvars
<1> QED
  BY <1>1, <1>2, PTL DEF QuerySpec, Spec

\* Under a server that waits and without errors the manager keeps its promise while
\* queries run.
THEOREM QueriesKeepPromise ==
  ASSUME ServerWaits, ~Faults
  PROVE  QuerySpec => Implements
<1> QED
  BY QueriesKeepManager, ImplementsPromise, PTL

\* Whatever the manager does between the reads, what a query has heard is right.
LEMMA QueryInvariant ==
  ASSUME ServerWaits, ~Faults
  PROVE  QuerySpec => []QInv
<1>1. QueryInit => QInv
  BY DEF QueryInit, QInv, Question, Heard
<1>2. TypeOK /\ TypeOK' /\ IInv /\ QInv /\ [QueryNext]_qvars => QInv'
  BY MapHeard, StateHeard, StoreHeard, ManagerHeard, OtherHeard DEF QueryNext, QueryStep
<1> QED
  BY <1>1, <1>2, QueriesKeepManager, TypeCorrect, InvariantHolds, PTL DEF QuerySpec

\* With a server that waits for its callbacks and without errors, byId and All return a
\* status the request had while the query ran, for any number of requests, attempts
\* and crashes.
THEOREM StatusIsCurrentHolds ==
  ASSUME ServerWaits, ~Faults
  PROVE  QuerySpec => []StatusIsCurrent
<1>1. QInv => StatusIsCurrent
  BY DEF QInv, Heard, StatusIsCurrent
<1> QED
  BY <1>1, QueryInvariant, PTL

\* Under the same conditions TransferStatusForContent returns a status that a transfer of
\* this content from this provider had while the query ran, or that there is none while
\* there was none; it misses one only behind a record that does not match.
THEOREM ContentIsTrueHolds ==
  ASSUME ServerWaits, ~Faults
  PROVE  QuerySpec => []ContentIsTrue
<1>1. QInv => ContentIsTrue
  BY DEF QInv, Heard, Stopper, ContentIsTrue
<1> QED
  BY <1>1, QueryInvariant, PTL
=============================================================================
