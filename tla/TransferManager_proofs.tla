----------------------- MODULE TransferManager_proofs -----------------------
(***************************************************************************)
(* Proofs about TransferManager, for any set of requests and listeners and *)
(* any bounds.                                                             *)
(***************************************************************************)
EXTENDS TransferManager, TLAPS

\* Every variable keeps to its values, with any server and any errors.
THEOREM TypeCorrect == Spec => []TypeOK
<1>1. Init => TypeOK
  BY NamesAssumption, BoundsAssumption DEF Init, TypeOK, Outcomes, Events
<1>2. TypeOK /\ [Next]_vars => TypeOK'
  <2> SUFFICES ASSUME TypeOK, [Next]_vars PROVE TypeOK'
    OBVIOUS
  <2> USE NamesAssumption, BoundsAssumption
          DEF TypeOK, Outcomes, Events, durable, server, handler, expiry, locking, history
  <2>1. CASE Start
    BY <2>1 DEF Start
  <2>2. CASE Stop
    BY <2>2 DEF Stop
  <2>3. CASE Crash
    BY <2>3 DEF Crash, Drops
  <2>4. CASE ExpiryStep
    <3>1. CASE ExpiryTick \/ ExpiryTickFails
      BY <3>1 DEF ExpiryTick, ExpiryTickFails, TakeTick, Drops
    <3>2. ASSUME NEW x \in Xfers, ExpiryGet(x) PROVE TypeOK'
      BY <3>2 DEF ExpiryGet, Advance, Drops
    <3>3. CASE ExpiryCancel
      BY <3>3 DEF ExpiryCancel
    <3>4. CASE ExpiryCancelled
      BY <3>4 DEF ExpiryCancelled
    <3>5. CASE ExpiryCheck
      BY <3>5 DEF ExpiryCheck, Advance
    <3>6. CASE ExpirySave
      BY <3>6 DEF ExpirySave
    <3>7. CASE ExpiryError
      BY <3>7 DEF ExpiryError, Advance, Drops
    <3>8. CASE ExpiryNotify
      BY <3>8 DEF ExpiryNotify, CallListener
    <3>9. CASE ExpiryNext
      BY <3>9 DEF ExpiryNext, ListenerReturns, Advance
    <3> QED
      BY <2>4, <3>1, <3>2, <3>3, <3>4, <3>5, <3>6, <3>7, <3>8, <3>9 DEF ExpiryStep
  <2>5. ASSUME NEW x \in Xfers, ServerStep(x) PROVE TypeOK'
    <3>1. CASE Request(x)
      BY <3>1 DEF Request
    <3>2. CASE Register(x)
      BY <3>2 DEF Register
    <3>3. CASE ServerProgress(x)
      BY <3>3 DEF ServerProgress
    <3>4. CASE ServerComplete(x)
      <4>1. CASE phase = "running"
        BY <3>4, <4>1 DEF ServerComplete
      <4>2. CASE phase # "running"
        BY <3>4, <4>2 DEF ServerComplete
      <4> QED
        BY <4>1, <4>2
    <3>5. CASE ServerFail(x)
      BY <3>5 DEF ServerFail
    <3>6. CASE ServerForget(x)
      BY <3>6 DEF ServerForget
    <3> QED
      BY <2>5, <3>1, <3>2, <3>3, <3>4, <3>5, <3>6 DEF ServerStep, ServerEvent
  <2>6. ASSUME NEW x \in Xfers, HandlerStep(x) PROVE TypeOK'
    <3>1. CASE HandlerSave(x)
      BY <3>1 DEF HandlerSave
    <3>2. CASE HandlerNotify(x)
      BY <3>2 DEF HandlerNotify, CallListener
    <3>3. CASE HandlerReturn(x)
      BY <3>3 DEF HandlerReturn, ListenerReturns
    <3> QED
      BY <2>6, <3>1, <3>2, <3>3 DEF HandlerStep
  <2>7. ASSUME NEW x \in Xfers, ClientStep(x) PROVE TypeOK'
    <3>1. CASE PrepareForDataRequest(x)
      BY <3>1 DEF PrepareForDataRequest
    <3>2. CASE CleanupPreparedRequest(x)
      BY <3>2 DEF CleanupPreparedRequest
    <3>3. CASE CleanupCancel(x)
      BY <3>3 DEF CleanupCancel
    <3>4. CASE CleanupReturn(x)
      BY <3>4 DEF CleanupReturn
    <3> QED
      BY <2>7, <3>1, <3>2, <3>3, <3>4 DEF ClientStep
  <2>8. ASSUME NEW x \in Xfers, TokenAges(x) PROVE TypeOK'
    BY <2>8 DEF TokenAges
  <2>9. ASSUME NEW l \in Listeners, Subscribe(l) \/ Unsubscribe(l) PROVE TypeOK'
    BY <2>9 DEF Subscribe, Unsubscribe
  <2>10. CASE UNCHANGED vars
    BY <2>10 DEF vars
  <2> QED
    BY <2>1, <2>2, <2>3, <2>4, <2>5, <2>6, <2>7, <2>8, <2>9, <2>10 DEF Next
<1> QED
  BY <1>1, <1>2, PTL DEF Spec

-----------------------------------------------------------------------------
(***************************************************************************)
(* The outcome of a request, under a server that waits and without errors. *)
(*                                                                         *)
(* OneOutcome alone is not inductive: what keeps the expiry goroutine from *)
(* failing a transfer that completes behind its back is that the token is  *)
(* gone before the transfer is looked up, so that no new attempt starts,   *)
(* and that a transfer which was found is idle when the cancellation has   *)
(* returned.  The invariant says where each process stands while the       *)
(* goroutine decides.                                                      *)
(***************************************************************************)

\* The goroutine's places: what it works on is out of the database, once.
Places ==
  /\ epc = "idle" => work = {}
  /\ epc \in {"idle", "next"} => cur = NoXfer
  /\ \A x \in Xfers : x \in work \/ x = cur => x \notin auth
  /\ cur \notin work

\* A callback is under way only for a transfer in the server's map, and the transfer
\* has ended when its callback handles the completion.
Callbacks ==
  \A x \in Xfers :
    /\ srv[x] # "checked"
    /\ srv[x] # "idle" => x \in prepared
    /\ hpc[x] # "idle" => srv[x] = IF hev[x] = "Completed" THEN "ended" ELSE "open"
    /\ hpc[x] = "save" => hev[x] = "Completed"
    /\ hpc[x] \in {"lock", "call"} /\ hev[x] = "Completed" => store[x] = "Completed"

\* A request that has failed, on disk or for the listener, is closed and is not going to
\* be looked at again; what an earlier process saved under its number says nothing.
FailedIsClosed ==
  \A x \in Xfers : (x \in Fresh /\ store[x] = "Failed") \/ fired[x]["Failed"] > 0 =>
    /\ x \in prepared /\ srv[x] = "idle" /\ x \notin auth /\ x \notin work
    /\ x = cur => epc \in {"notify", "call"}

\* From the lookup of the outcome on, nothing of the request is under way.
Deciding ==
  /\ epc \in {"check", "save", "notify", "call"} => srv[cur] = "idle"
  /\ epc = "save" => store[cur] = "none"
  /\ epc \in {"notify", "call"} => store[cur] = "Failed"
  /\ epc = "notify" => fired[cur]["Failed"] = 0

\* What was told is what is saved, and a failure is told once.
Told ==
  \A x \in Xfers :
    /\ x \in Fresh /\ store[x] # "none" => x \in prepared
    /\ fired[x]["Failed"] <= 1
    /\ \A o \in Outcomes : fired[x][o] > 0 => store[x] = o

IInv == TypeOK /\ Places /\ Callbacks /\ FailedIsClosed /\ Deciding /\ Told

\* The invariant holds at the start and is kept by every step.
LEMMA InvariantHolds ==
  ASSUME ServerWaits, ~Faults
  PROVE  Spec => []IInv
<1>1. Init => IInv
  BY NamesAssumption, BoundsAssumption
     DEF Init, IInv, TypeOK, Places, Callbacks, FailedIsClosed, Deciding, Told, Fresh, InMap,
         Outcomes, Events
<1>2. IInv /\ TypeOK' /\ [Next]_vars => IInv'
  <2> SUFFICES ASSUME IInv, TypeOK', [Next]_vars
               PROVE  Places' /\ Callbacks' /\ FailedIsClosed' /\ Deciding' /\ Told'
    BY DEF IInv
  <2> USE NamesAssumption, BoundsAssumption, ServerWaits, ~Faults
          DEF IInv, TypeOK, Places, Callbacks, FailedIsClosed, Deciding, Told, Fresh, InMap,
              Outcomes, Events, durable, server, handler, expiry, locking, history
  <2>1. CASE Start
    BY <2>1 DEF Start
  <2>2. CASE Stop
    BY <2>2 DEF Stop
  <2>3. CASE Crash
    BY <2>3 DEF Crash, Drops
  <2>4. CASE ExpiryStep
    <3>1. CASE ExpiryTick \/ ExpiryTickFails
      BY <3>1 DEF ExpiryTick, ExpiryTickFails, TakeTick
    <3>2. ASSUME NEW x \in Xfers, ExpiryGet(x) PROVE Places' /\ Callbacks' /\ FailedIsClosed' /\ Deciding' /\ Told'
      BY <3>2 DEF ExpiryGet, Advance, Drops
    <3>3. CASE ExpiryCancel
      BY <3>3 DEF ExpiryCancel
    <3>4. CASE ExpiryCancelled
      BY <3>4 DEF ExpiryCancelled, CancelReturns
    <3>5. CASE ExpiryCheck
      BY <3>5 DEF ExpiryCheck, Advance
    <3>6. CASE ExpirySave
      BY <3>6 DEF ExpirySave
    <3>7. CASE ExpiryError
      BY <3>7 DEF ExpiryError
    <3>8. CASE ExpiryNotify
      BY <3>8 DEF ExpiryNotify, CallListener
    <3>9. CASE ExpiryNext
      BY <3>9 DEF ExpiryNext, ListenerReturns, Advance
    <3> QED
      BY <2>4, <3>1, <3>2, <3>3, <3>4, <3>5, <3>6, <3>7, <3>8, <3>9 DEF ExpiryStep
  <2>5. ASSUME NEW x \in Xfers, ServerStep(x)
        PROVE  Places' /\ Callbacks' /\ FailedIsClosed' /\ Deciding' /\ Told'
    <3>1. CASE Request(x)
      BY <3>1 DEF Request
    <3>2. CASE Register(x)
      BY <3>2 DEF Register
    <3>3. CASE ServerProgress(x)
      BY <3>3 DEF ServerProgress
    <3>4. CASE ServerComplete(x)
      BY <3>4 DEF ServerComplete
    <3>5. CASE ServerFail(x)
      BY <3>5 DEF ServerFail
    <3>6. CASE ServerForget(x)
      BY <3>6 DEF ServerForget
    <3> QED
      BY <2>5, <3>1, <3>2, <3>3, <3>4, <3>5, <3>6 DEF ServerStep, ServerEvent
  <2>6. ASSUME NEW x \in Xfers, HandlerStep(x)
        PROVE  Places' /\ Callbacks' /\ FailedIsClosed' /\ Deciding' /\ Told'
    <3>1. CASE HandlerSave(x)
      BY <3>1 DEF HandlerSave
    <3>2. CASE HandlerNotify(x)
      BY <3>2 DEF HandlerNotify, CallListener
    <3>3. CASE HandlerReturn(x)
      BY <3>3 DEF HandlerReturn, ListenerReturns
    <3> QED
      BY <2>6, <3>1, <3>2, <3>3 DEF HandlerStep
  <2>7. ASSUME NEW x \in Xfers, ClientStep(x)
        PROVE  Places' /\ Callbacks' /\ FailedIsClosed' /\ Deciding' /\ Told'
    <3>1. CASE PrepareForDataRequest(x)
      BY <3>1 DEF PrepareForDataRequest
    <3>2. CASE CleanupPreparedRequest(x)
      BY <3>2 DEF CleanupPreparedRequest
    <3>3. CASE CleanupCancel(x)
      BY <3>3 DEF CleanupCancel
    <3>4. CASE CleanupReturn(x)
      BY <3>4 DEF CleanupReturn
    <3> QED
      BY <2>7, <3>1, <3>2, <3>3, <3>4 DEF ClientStep
  <2>8. ASSUME NEW x \in Xfers, TokenAges(x)
        PROVE  Places' /\ Callbacks' /\ FailedIsClosed' /\ Deciding' /\ Told'
    BY <2>8 DEF TokenAges
  <2>9. ASSUME NEW l \in Listeners, Subscribe(l) \/ Unsubscribe(l)
        PROVE  Places' /\ Callbacks' /\ FailedIsClosed' /\ Deciding' /\ Told'
    BY <2>9 DEF Subscribe, Unsubscribe
  <2>10. CASE UNCHANGED vars
    BY <2>10 DEF vars
  <2> QED
    BY <2>1, <2>2, <2>3, <2>4, <2>5, <2>6, <2>7, <2>8, <2>9, <2>10 DEF Next
<1> QED
  BY <1>1, <1>2, TypeCorrect, PTL DEF Spec

\* The listener is told one outcome, and of a failure once.
THEOREM OneOutcomeHolds ==
  ASSUME ServerWaits, ~Faults
  PROVE  Spec => []OneOutcome
<1>1. IInv => OneOutcome
  BY DEF IInv, TypeOK, Told, OneOutcome, Outcomes
<1> QED
  BY <1>1, InvariantHolds, PTL

\* What the listener was told is on disk.
THEOREM SavedBeforeToldHolds ==
  ASSUME ServerWaits, ~Faults
  PROVE  Spec => []SavedBeforeTold
<1>1. IInv => SavedBeforeTold
  BY DEF IInv, Told, SavedBeforeTold
<1> QED
  BY <1>1, InvariantHolds, PTL

\* When a failure is announced nothing of the request is under way.
THEOREM FailureIsQuietHolds ==
  ASSUME ServerWaits, ~Faults
  PROVE  Spec => []FailureIsQuiet
<1>1. IInv => FailureIsQuiet
  BY DEF IInv, TypeOK, Told, FailedIsClosed, Callbacks, InMap, FailureIsQuiet, Outcomes
<1> QED
  BY <1>1, InvariantHolds, PTL

-----------------------------------------------------------------------------
(* The manager implements DataRequests.  Each step of it is a step of the     *)
(* promise or leaves what the promise speaks of unchanged.                    *)

\* What a step may do to the promise's variables.
LEMMA StepKeepsPromise ==
  ASSUME ServerWaits, ~Faults, IInv, IInv', [Next]_vars
  PROVE  [Promise!Next]_(Promise!vars)
<1> DEFINE outcome == [x \in Fresh |-> store[x]]
           told == [x \in Fresh |-> {o \in Outcomes : fired[x][o] > 0}]
<1> USE DEF durable, server, handler, expiry, locking, history
<1>1. CASE UNCHANGED <<prepared, auth, store, fired>>
  BY <1>1 DEF Promise!vars
<1>2. CASE prepared' = prepared /\ store' = store /\ fired' = fired /\ auth' \subseteq auth
  BY <1>2 DEF Promise!Next, Promise!Close
<1>3. ASSUME NEW x \in Xfers, PrepareForDataRequest(x)
      PROVE  [Promise!Next]_(Promise!vars)
  <2>1. CASE x \in Fresh
    <3>1. Promise!Prepare(x)
      BY <1>3, <2>1 DEF PrepareForDataRequest, Promise!Prepare
    <3> QED
      BY <2>1, <3>1 DEF Promise!Next
  <2>2. CASE x \notin Fresh
    BY <1>3, <2>2 DEF PrepareForDataRequest, Promise!vars
  <2> QED
    BY <2>1, <2>2
<1>4. ASSUME NEW x \in Xfers, HandlerSave(x)
      PROVE  [Promise!Next]_(Promise!vars)
  <2>1. /\ UNCHANGED <<prepared, auth, fired>> /\ store' = [store EXCEPT ![x] = "Completed"]
        /\ store \in [Xfers -> Outcomes \cup {"none"}]
    BY <1>4 DEF HandlerSave, IInv, TypeOK
  <2>2. CASE x \notin Fresh
    <3>1. outcome' = outcome
      BY <2>1, <2>2 DEF Fresh
    <3> QED
      BY <2>1, <3>1 DEF Promise!vars
  <2>3. CASE x \in Fresh
    <3>1. x \in prepared /\ store[x] # "Failed"
      BY <1>4, <2>3 DEF HandlerSave, IInv, Callbacks, FailedIsClosed
    <3>2. outcome' = [outcome EXCEPT ![x] = "Completed"]
      BY <2>1, <2>3 DEF Fresh
    <3>3. CASE store[x] = "none"
      <4>1. Promise!Complete(x)
        BY <2>1, <2>3, <3>1, <3>2, <3>3 DEF Promise!Complete
      <4> QED
        BY <2>3, <4>1 DEF Promise!Next
    <3>4. CASE store[x] = "Completed"
      <4>1. store' = store
        BY <2>1, <3>4
      <4> QED
        BY <2>1, <4>1, <1>1
    <3> QED
      BY <2>1, <3>1, <3>3, <3>4 DEF Outcomes
  <2> QED
    BY <2>2, <2>3
<1>5. CASE ExpirySave
  <2>1. /\ cur \in prepared \ auth /\ cur \in Xfers /\ store[cur] = "none"
        /\ store \in [Xfers -> Outcomes \cup {"none"}]
    BY <1>5 DEF ExpirySave, IInv, TypeOK, Places, Deciding
  <2>2. UNCHANGED <<prepared, auth, fired>> /\ store' = [store EXCEPT ![cur] = "Failed"]
    BY <1>5 DEF ExpirySave
  <2>3. CASE cur \in Fresh
    <3>1. PICK x \in Fresh : x = cur
      BY <2>3
    <3>2. outcome' = [outcome EXCEPT ![x] = "Failed"]
      BY <2>1, <2>2, <3>1 DEF Fresh
    <3>3. Promise!Fail(x)
      BY <2>1, <2>2, <3>1, <3>2 DEF Promise!Fail
    <3> QED
      BY <3>3 DEF Promise!Next
  <2>4. CASE cur \notin Fresh
    <3>1. outcome' = outcome
      BY <2>1, <2>2, <2>4 DEF Fresh
    <3> QED
      BY <2>2, <3>1 DEF Promise!vars
  <2> QED
    BY <2>3, <2>4
<1>6. ASSUME NEW x \in Xfers, NEW status \in Outcomes, UNCHANGED <<prepared, auth, store>>,
             fired' = [fired EXCEPT ![x][status] = @ + 1]
      PROVE  [Promise!Next]_(Promise!vars)
  <2>1. \A y \in Xfers, o \in Outcomes :
          fired'[y][o] = IF y = x /\ o = status THEN fired[y][o] + 1 ELSE fired[y][o]
    BY <1>6 DEF IInv, TypeOK
  <2>2. CASE x \notin Fresh
    <3>1. told' = told
      BY <2>1, <2>2 DEF Fresh
    <3> QED
      BY <1>6, <3>1 DEF Promise!vars
  <2>3. CASE x \in Fresh
    <3>1. store[x] = status /\ x \in prepared
      BY <1>6, <2>1, <2>3 DEF IInv, TypeOK, Told, Outcomes
    <3>2. \A o \in Outcomes : fired'[x][o] > 0 <=> o = status
      BY <2>1, <3>1, <1>6 DEF IInv, TypeOK, Told, Outcomes
    <3>3. {o \in Outcomes : fired'[x][o] > 0} = {store[x]}
      BY <3>1, <3>2
    <3>4. \A y \in Xfers : y # x =>
            {o \in Outcomes : fired'[y][o] > 0} = {o \in Outcomes : fired[y][o] > 0}
      BY <2>1
    <3>5. told' = [y \in Fresh |-> IF y = x THEN {store[x]}
                                   ELSE {o \in Outcomes : fired[y][o] > 0}]
      BY <3>3, <3>4 DEF Fresh
    <3>6. told' = [told EXCEPT ![x] = {store[x]}]
      BY <3>5
    <3>7. Promise!Tell(x)
      BY <1>6, <2>3, <3>1, <3>6 DEF Promise!Tell, Outcomes
    <3> QED
      BY <2>3, <3>7 DEF Promise!Next
  <2> QED
    BY <2>2, <2>3
<1>7. ASSUME NEW x \in Xfers, HandlerNotify(x)
      PROVE  [Promise!Next]_(Promise!vars)
  <2>1. CASE hev[x] \in Outcomes
    <3>1. PICK status \in Outcomes : status = hev[x]
      BY <2>1
    <3>2. /\ UNCHANGED <<prepared, auth, store>>
          /\ fired' = [fired EXCEPT ![x][status] = @ + 1]
      BY <1>7, <3>1 DEF HandlerNotify, CallListener
    <3> QED
      BY <3>2, <1>6
  <2>2. CASE hev[x] \notin Outcomes
    BY <1>7, <2>2, <1>1 DEF HandlerNotify, CallListener
  <2> QED
    BY <2>1, <2>2
<1>8. CASE ExpiryNotify
  <2>1. PICK x \in Xfers : x = cur
    BY <1>8 DEF ExpiryNotify, IInv, TypeOK, Deciding
  <2>2. /\ UNCHANGED <<prepared, auth, store>>
        /\ fired' = [fired EXCEPT ![x]["Failed"] = @ + 1]
    BY <1>8, <2>1 DEF ExpiryNotify, CallListener, Outcomes
  <2>3. "Failed" \in Outcomes
    BY DEF Outcomes
  <2> QED
    BY <2>2, <2>3, <1>6
<1>9. CASE Crash
  BY <1>9, <1>1 DEF Crash
<1>10. CASE Start \/ Stop
  BY <1>10, <1>1 DEF Start, Stop
<1>11. CASE ExpiryStep
  <2>1. CASE ExpiryTick \/ ExpiryTickFails
    BY <2>1, <1>2 DEF ExpiryTick, ExpiryTickFails, TakeTick
  <2>2. CASE (\E x \in Xfers : ExpiryGet(x)) \/ ExpiryCancel \/ ExpiryCancelled
             \/ ExpiryCheck \/ ExpiryError \/ ExpiryNext
    BY <2>2, <1>1 DEF ExpiryGet, ExpiryCancel, ExpiryCancelled, ExpiryCheck, ExpiryError,
                      ExpiryNext
  <2> QED
    BY <1>11, <2>1, <2>2, <1>5, <1>8 DEF ExpiryStep
<1>12. ASSUME NEW x \in Xfers, ServerStep(x)
       PROVE  UNCHANGED <<prepared, auth, store, fired>>
  BY <1>12 DEF ServerStep, ServerEvent, Request, Register, ServerProgress, ServerComplete,
               ServerFail, ServerForget
<1>13. ASSUME NEW x \in Xfers, HandlerStep(x)
       PROVE  [Promise!Next]_(Promise!vars)
  <2>1. CASE HandlerReturn(x)
    BY <2>1, <1>1 DEF HandlerReturn
  <2> QED
    BY <1>13, <2>1, <1>4, <1>7 DEF HandlerStep
<1>14. ASSUME NEW x \in Xfers, ClientStep(x)
       PROVE  [Promise!Next]_(Promise!vars)
  <2>1. CASE CleanupPreparedRequest(x)
    BY <2>1, <1>2 DEF CleanupPreparedRequest
  <2>2. CASE CleanupCancel(x) \/ CleanupReturn(x)
    BY <2>2, <1>1 DEF CleanupCancel, CleanupReturn
  <2> QED
    BY <1>14, <2>1, <2>2, <1>3 DEF ClientStep
<1>15. ASSUME NEW x \in Xfers, TokenAges(x)
       PROVE  UNCHANGED <<prepared, auth, store, fired>>
  BY <1>15 DEF TokenAges
<1>16. ASSUME NEW l \in Listeners, Subscribe(l) \/ Unsubscribe(l)
       PROVE  UNCHANGED <<prepared, auth, store, fired>>
  BY <1>16 DEF Subscribe, Unsubscribe
<1>17. CASE UNCHANGED vars
  BY <1>17, <1>1 DEF vars
<1> QED
  BY <1>1, <1>9, <1>10, <1>11, <1>12, <1>13, <1>14, <1>15, <1>16, <1>17 DEF Next

\* The manager keeps the promise.
THEOREM ImplementsPromise ==
  ASSUME ServerWaits, ~Faults
  PROVE  Spec => Implements
<1>1. Init => Promise!Init
  BY DEF Init, Promise!Init, Fresh, Outcomes
<1>2. IInv /\ IInv' /\ [Next]_vars => [Promise!Next]_(Promise!vars)
  BY StepKeepsPromise
<1> QED
  BY <1>1, <1>2, InvariantHolds, PTL DEF Spec, Implements, Promise!Spec

\* The saved outcome of a request with a new number stays what it is.
LEMMA StepKeepsOutcome ==
  ASSUME ServerWaits, ~Faults, IInv, IInv', [Next]_vars, NEW x \in Fresh, store[x] # "none"
  PROVE  store'[x] = store[x]
<1> DEFINE outcome == [y \in Fresh |-> store[y]]
<1>1. Promise!Next \/ UNCHANGED Promise!vars
  BY StepKeepsPromise
<1>2. outcome' = outcome \/ \E y \in Fresh : \E o \in Outcomes :
        outcome[y] = "none" /\ outcome' = [outcome EXCEPT ![y] = o]
  <2>1. CASE UNCHANGED Promise!vars
    BY <2>1 DEF Promise!vars
  <2>2. CASE Promise!Close
    BY <2>2 DEF Promise!Close
  <2>3. ASSUME NEW y \in Fresh, Promise!Prepare(y) \/ Promise!Tell(y)
        PROVE  outcome' = outcome
    BY <2>3 DEF Promise!Prepare, Promise!Tell
  <2>4. ASSUME NEW y \in Fresh, Promise!Complete(y) \/ Promise!Fail(y)
        PROVE  \E o \in Outcomes :
                 outcome[y] = "none" /\ outcome' = [outcome EXCEPT ![y] = o]
    BY <2>4 DEF Promise!Complete, Promise!Fail, Outcomes
  <2> QED
    BY <1>1, <2>1, <2>2, <2>3, <2>4 DEF Promise!Next
<1>3. outcome'[x] = outcome[x]
  BY <1>2
<1> QED
  BY <1>3

\* What a restarted client finds on disk never changes once it is there: neither the
\* callback (line 236) nor the expiry goroutine (line 147) writes over an outcome of a
\* request with a new number, although both write without looking at what is there in
\* the same step.
OutcomeIsFinal == [][\A x \in Fresh : store[x] # "none" => store'[x] = store[x]]_vars

\* With a server that waits and no errors an outcome on disk is final.
THEOREM OutcomeIsFinalHolds ==
  ASSUME ServerWaits, ~Faults
  PROVE  Spec => OutcomeIsFinal
<1>1. IInv /\ IInv' /\ [Next]_vars =>
        \A x \in Fresh : store[x] # "none" => store'[x] = store[x]
  BY StepKeepsOutcome
<1> QED
  BY <1>1, InvariantHolds, PTL DEF Spec, OutcomeIsFinal

-----------------------------------------------------------------------------
(* What holds with any server and any errors.                                 *)

\* A failure that was announced is behind the goroutine, and its token is gone.
Late ==
  \A x \in Xfers :
    /\ fired[x]["Failed"] <= 1
    /\ fired[x]["Failed"] > 0 => /\ x \in prepared /\ x \notin auth /\ x \notin work
                                 /\ x = cur => epc = "call"

LateInv == TypeOK /\ Places /\ Late

\* A failure is announced once, and only after the token was deleted.
THEOREM FailureIsLateHolds == Spec => []FailureIsLate
<1>1. Init => LateInv
  BY NamesAssumption, BoundsAssumption
     DEF Init, LateInv, TypeOK, Places, Late, Outcomes, Events
<1>2. LateInv /\ TypeOK' /\ [Next]_vars => LateInv'
  <2> SUFFICES ASSUME LateInv, TypeOK', [Next]_vars PROVE Places' /\ Late'
    BY DEF LateInv
  <2> USE NamesAssumption
          DEF LateInv, TypeOK, Places, Late, Outcomes, Events, durable, server, handler,
              expiry, locking, history
  <2>1. CASE Start \/ Stop
    BY <2>1 DEF Start, Stop
  <2>2. CASE Crash
    BY <2>2 DEF Crash, Drops
  <2>3. CASE ExpiryStep
    <3>1. CASE ExpiryTick \/ ExpiryTickFails
      BY <3>1 DEF ExpiryTick, ExpiryTickFails, TakeTick
    <3>2. ASSUME NEW x \in Xfers, ExpiryGet(x) PROVE Places' /\ Late'
      BY <3>2 DEF ExpiryGet, Advance, Drops
    <3>3. CASE ExpiryCancel \/ ExpiryCancelled \/ ExpirySave
      BY <3>3 DEF ExpiryCancel, ExpiryCancelled, ExpirySave
    <3>4. CASE ExpiryCheck \/ ExpiryError
      BY <3>4 DEF ExpiryCheck, ExpiryError, Advance, Drops
    <3>5. CASE ExpiryNotify
      BY <3>5 DEF ExpiryNotify, CallListener
    <3>6. CASE ExpiryNext
      BY <3>6 DEF ExpiryNext, ListenerReturns, Advance
    <3> QED
      BY <2>3, <3>1, <3>2, <3>3, <3>4, <3>5, <3>6 DEF ExpiryStep
  <2>4. ASSUME NEW x \in Xfers, ServerStep(x) PROVE Places' /\ Late'
    BY <2>4 DEF ServerStep, ServerEvent, Request, Register, ServerProgress, ServerComplete,
                ServerFail, ServerForget
  <2>5. ASSUME NEW x \in Xfers, HandlerStep(x) PROVE Places' /\ Late'
    <3>1. CASE HandlerSave(x)
      BY <3>1 DEF HandlerSave
    <3>2. CASE HandlerNotify(x)
      BY <3>2 DEF HandlerNotify, CallListener
    <3>3. CASE HandlerReturn(x)
      BY <3>3 DEF HandlerReturn
    <3> QED
      BY <2>5, <3>1, <3>2, <3>3 DEF HandlerStep
  <2>6. ASSUME NEW x \in Xfers, ClientStep(x) PROVE Places' /\ Late'
    BY <2>6 DEF ClientStep, PrepareForDataRequest, CleanupPreparedRequest, CleanupCancel,
                CleanupReturn
  <2>7. ASSUME NEW x \in Xfers, TokenAges(x) PROVE Places' /\ Late'
    BY <2>7 DEF TokenAges
  <2>8. ASSUME NEW l \in Listeners, Subscribe(l) \/ Unsubscribe(l) PROVE Places' /\ Late'
    BY <2>8 DEF Subscribe, Unsubscribe
  <2>9. CASE UNCHANGED vars
    BY <2>9 DEF vars
  <2> QED
    BY <2>1, <2>2, <2>3, <2>4, <2>5, <2>6, <2>7, <2>8, <2>9 DEF Next
<1>3. LateInv => FailureIsLate
  BY DEF LateInv, Late, FailureIsLate
<1> QED
  BY <1>1, <1>2, <1>3, TypeCorrect, PTL DEF Spec

\* listenerLk is held while the listener runs.
Locked ==
  /\ lk = Nobody => callee = NoListener
  /\ callee # NoListener => listener = callee

\* A listener that was unsubscribed is not running.
THEOREM ListenerStaysWhileCalledHolds == Spec => []ListenerStaysWhileCalled
<1>1. Init => Locked
  BY DEF Init, Locked
<1>2. TypeOK /\ Locked /\ [Next]_vars => Locked'
  <2> SUFFICES ASSUME TypeOK, Locked, [Next]_vars PROVE Locked'
    OBVIOUS
  <2> USE NamesAssumption
          DEF Locked, durable, server, handler, expiry, locking, history
  <2>1. CASE UNCHANGED locking
    BY <2>1
  <2>2. CASE Start \/ Stop \/ Crash
    BY <2>2 DEF Start, Stop, Crash
  <2>3. CASE ExpiryStep
    <3>1. CASE ExpiryNotify
      BY <3>1 DEF ExpiryNotify, CallListener
    <3>2. CASE ExpiryNext
      BY <3>2 DEF ExpiryNext, ListenerReturns
    <3>3. CASE ~ExpiryNotify /\ ~ExpiryNext
      BY <2>3, <3>3, <2>1
         DEF ExpiryStep, ExpiryTick, ExpiryTickFails, TakeTick, ExpiryGet, ExpiryCancel,
             ExpiryCancelled, ExpiryCheck, ExpirySave, ExpiryError
    <3> QED
      BY <3>1, <3>2, <3>3
  <2>4. ASSUME NEW x \in Xfers, ServerStep(x) \/ ClientStep(x) \/ TokenAges(x)
        PROVE  Locked'
    BY <2>4, <2>1
       DEF ServerStep, ServerEvent, Request, Register, ServerProgress, ServerComplete,
           ServerFail, ServerForget, ClientStep, PrepareForDataRequest,
           CleanupPreparedRequest, CleanupCancel, CleanupReturn, TokenAges
  <2>5. ASSUME NEW x \in Xfers, HandlerStep(x) PROVE Locked'
    <3>1. CASE HandlerSave(x)
      BY <3>1 DEF HandlerSave
    <3>2. CASE HandlerNotify(x)
      BY <3>2 DEF HandlerNotify, CallListener, TypeOK
    <3>3. CASE HandlerReturn(x)
      BY <3>3 DEF HandlerReturn, ListenerReturns
    <3> QED
      BY <2>5, <3>1, <3>2, <3>3 DEF HandlerStep
  <2>6. ASSUME NEW l \in Listeners, Subscribe(l) \/ Unsubscribe(l) PROVE Locked'
    BY <2>6 DEF Subscribe, Unsubscribe
  <2>7. CASE UNCHANGED vars
    BY <2>7 DEF vars
  <2> QED
    BY <2>2, <2>3, <2>4, <2>5, <2>6, <2>7 DEF Next
<1>3. Locked => ListenerStaysWhileCalled
  BY DEF Locked, ListenerStaysWhileCalled
<1> QED
  BY <1>1, <1>2, <1>3, TypeCorrect, PTL DEF Spec

-----------------------------------------------------------------------------
(* What becomes of a batch of expired tokens, with any server and any errors. *)

\* The request at hand has its failure on disk once the goroutine announces it.
Worked == epc \in {"notify", "call"} => store[cur] # "none"

ForgetInv == TypeOK /\ Places /\ Worked /\ NoRequestForgotten

\* No request is lost between the deletion of its token and the end of its turn, but
\* those that an error or a crash drops.
THEOREM NoRequestForgottenHolds == Spec => []NoRequestForgotten
<1>1. Init => ForgetInv
  BY NamesAssumption, BoundsAssumption
     DEF Init, ForgetInv, TypeOK, Places, Worked, NoRequestForgotten, Outcomes, Events
<1>2. ForgetInv /\ TypeOK' /\ [Next]_vars => ForgetInv'
  <2> SUFFICES ASSUME ForgetInv, TypeOK', [Next]_vars
               PROVE  Places' /\ Worked' /\ NoRequestForgotten'
    BY DEF ForgetInv
  <2> USE NamesAssumption
          DEF ForgetInv, TypeOK, Places, Worked, NoRequestForgotten, Outcomes, Events,
              durable, server, handler, expiry, locking, history
  <2>1. CASE Start \/ Stop
    BY <2>1 DEF Start, Stop
  <2>2. CASE Crash
    BY <2>2 DEF Crash, Drops
  <2>3. CASE ExpiryStep
    <3>1. CASE ExpiryTick \/ ExpiryTickFails
      BY <3>1 DEF ExpiryTick, ExpiryTickFails, TakeTick, Drops
    <3>2. ASSUME NEW x \in Xfers, ExpiryGet(x)
          PROVE  Places' /\ Worked' /\ NoRequestForgotten'
      BY <3>2 DEF ExpiryGet, Advance, Drops
    <3>3. CASE ExpiryCancel \/ ExpiryCancelled
      BY <3>3 DEF ExpiryCancel, ExpiryCancelled
    <3>4. CASE ExpirySave
      BY <3>4 DEF ExpirySave
    <3>5. CASE ExpiryCheck
      BY <3>5 DEF ExpiryCheck, Advance
    <3>6. CASE ExpiryError
      BY <3>6 DEF ExpiryError, Advance, Drops
    <3>7. CASE ExpiryNotify
      BY <3>7 DEF ExpiryNotify, CallListener
    <3>8. CASE ExpiryNext
      BY <3>8 DEF ExpiryNext, ListenerReturns, Advance
    <3> QED
      BY <2>3, <3>1, <3>2, <3>3, <3>4, <3>5, <3>6, <3>7, <3>8 DEF ExpiryStep
  <2>4. ASSUME NEW x \in Xfers, ServerStep(x)
        PROVE  Places' /\ Worked' /\ NoRequestForgotten'
    BY <2>4 DEF ServerStep, ServerEvent, Request, Register, ServerProgress, ServerComplete,
                ServerFail, ServerForget
  <2>5. ASSUME NEW x \in Xfers, HandlerStep(x)
        PROVE  Places' /\ Worked' /\ NoRequestForgotten'
    <3>1. CASE HandlerSave(x)
      BY <3>1 DEF HandlerSave
    <3>2. CASE HandlerNotify(x) \/ HandlerReturn(x)
      BY <3>2 DEF HandlerNotify, HandlerReturn
    <3> QED
      BY <2>5, <3>1, <3>2 DEF HandlerStep
  <2>6. ASSUME NEW x \in Xfers, ClientStep(x)
        PROVE  Places' /\ Worked' /\ NoRequestForgotten'
    <3>1. CASE PrepareForDataRequest(x)
      BY <3>1 DEF PrepareForDataRequest
    <3>2. CASE CleanupPreparedRequest(x)
      BY <3>2 DEF CleanupPreparedRequest
    <3>3. CASE CleanupCancel(x) \/ CleanupReturn(x)
      BY <3>3 DEF CleanupCancel, CleanupReturn
    <3> QED
      BY <2>6, <3>1, <3>2, <3>3 DEF ClientStep
  <2>7. ASSUME NEW x \in Xfers, TokenAges(x)
        PROVE  Places' /\ Worked' /\ NoRequestForgotten'
    BY <2>7 DEF TokenAges
  <2>8. ASSUME NEW l \in Listeners, Subscribe(l) \/ Unsubscribe(l)
        PROVE  Places' /\ Worked' /\ NoRequestForgotten'
    BY <2>8 DEF Subscribe, Unsubscribe
  <2>9. CASE UNCHANGED vars
    BY <2>9 DEF vars
  <2> QED
    BY <2>1, <2>2, <2>3, <2>4, <2>5, <2>6, <2>7, <2>8, <2>9 DEF Next
<1> QED
  BY <1>1, <1>2, TypeCorrect, PTL DEF Spec, ForgetInv

=============================================================================
