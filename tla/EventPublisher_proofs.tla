------------------------ MODULE EventPublisher_proofs ------------------------
(***************************************************************************)
(* Proofs about EventPublisher, for any publishers, subscriptions,         *)
(* capacity and bound.                                                     *)
(***************************************************************************)
EXTENDS EventPublisher, SequenceTheorems, TLAPS

\* The list holds the subscriptions that are in, and what the loop has still to call
\* was in the list once and has not been called late.
Listed ==
  /\ subs \subseteq Subscriptions /\ todo \subseteq Subscriptions
  /\ sstate \in [Subscriptions -> {"new", "in", "out"}]
  /\ late \in [Subscriptions -> Nat]
  /\ \A s \in Subscriptions :
       /\ s \in subs <=> sstate[s] = "in"
       /\ late[s] > 0 => sstate[s] = "out" /\ s \notin todo
       /\ late[s] <= 1

\* Every step keeps the list and the copy.
LEMMA ListedHolds == Spec => []Listed
<1>1. Init => Listed
  BY DEF Init, Listed
<1>2. Listed /\ [Next]_vars => Listed'
  <2> SUFFICES ASSUME Listed, [Next]_vars PROVE Listed'
    OBVIOUS
  <2> USE DEF Listed, loopvars
  <2>1. ASSUME NEW s \in Subscriptions, Subscribe(s) PROVE Listed'
    BY <2>1 DEF Subscribe
  <2>2. ASSUME NEW s \in Subscriptions, Unsubscribe(s) PROVE Listed'
    BY <2>2 DEF Unsubscribe
  <2>3. ASSUME NEW s \in Subscriptions, Deliver(s) PROVE Listed'
    BY <2>3 DEF Deliver
  <2>4. ASSUME NEW p \in Publishers, Publish(p) \/ Enqueue(p) \/ GiveUp(p) PROVE Listed'
    BY <2>4 DEF Publish, Enqueue, GiveUp
  <2>5. CASE Take
    BY <2>5 DEF Take
  <2>6. CASE CallReturns \/ LoopEnds \/ Shutdown
    BY <2>6 DEF CallReturns, LoopEnds, Shutdown
  <2>7. CASE UNCHANGED vars
    BY <2>7 DEF vars
  <2> QED
    BY <2>1, <2>2, <2>3, <2>4, <2>5, <2>6, <2>7 DEF Next
<1> QED
  BY <1>1, <1>2, PTL DEF Spec

\* A subscription is called at most once after it was ended.
THEOREM AtMostOneLateHolds == Spec => []AtMostOneLate
<1>1. Listed => AtMostOneLate
  BY DEF Listed, AtMostOneLate
<1> QED
  BY <1>1, ListedHolds, PTL

-----------------------------------------------------------------------------
(* Order.  What a subscription has been handed is the stretch of the log that *)
(* ends before the event in hand, while it is still to be called, and with    *)
(* that event once it has been called.                                        *)

Event == Publishers \X Nat

\* How many events the loop has taken from the channel.
Taken == Len(log) - Len(events)

\* A part is what comes last in a whole that is cut off after its element e.
EndsAt(part, whole, e) ==
  /\ Len(part) <= e
  /\ \A j \in 1..Len(part) : part[j] = whole[e - Len(part) + j]

\* The subscription has been handed the last events before and including number e.
Stretch(s, e) == EndsAt(got[s], log, e)

Queue ==
  /\ events \in Seq(Event) /\ log \in Seq(Event) /\ got \in [Subscriptions -> Seq(Event)]
  /\ count \in [Publishers -> Nat]
  /\ Taken \in Nat
  /\ \A j \in 1..Len(events) : events[j] = log[Taken + j]

\* The loop has an event in hand exactly while somebody may still be called.
InHand ==
  /\ lpc \in {"select", "stopped"} => todo = {}
  /\ lpc \in {"select", "stopped", "deliver", "call"}
  /\ lpc \in {"deliver", "call"} => Taken > 0 /\ ev = log[Taken]

Handed ==
  \A s \in Subscriptions :
    /\ sstate[s] = "new" => got[s] = <<>> /\ s \notin todo
    /\ s \in todo => Stretch(s, Taken - 1)
    /\ s \in subs \ todo => Stretch(s, Taken)
    /\ \E e \in 0..Taken : Stretch(s, e)

HInv == Listed /\ Queue /\ InHand /\ Handed

\* A stretch is not touched by events that are published after it.
LEMMA StretchKeeps ==
  ASSUME Queue, NEW s \in Subscriptions, NEW e \in Nat, e <= Len(log), Stretch(s, e),
         got' = got, \A j \in 1..Len(log) : log'[j] = log[j]
  PROVE  Stretch(s, e)'
  BY DEF Stretch, EndsAt, Queue

\* The next element, appended to a stretch, makes a stretch one element longer.
LEMMA NextOne ==
  ASSUME NEW S, NEW q \in Seq(S), NEW w \in Seq(S), NEW r \in Seq(S), NEW e \in Nat, NEW T \in Nat,
         T = e + 1, T <= Len(w), EndsAt(q, w, e), r = Append(q, w[T])
  PROVE  EndsAt(r, w, T)
<1> USE DEF EndsAt
<1>1. /\ w[T] \in S /\ Len(r) = Len(q) + 1 /\ r[Len(q) + 1] = w[T]
      /\ \A j \in 1..Len(q) : r[j] = q[j]
  OBVIOUS
<1>2. ASSUME NEW j \in 1..Len(r) PROVE r[j] = w[T - Len(r) + j]
  <2>0. Len(r) \in Nat /\ Len(q) \in Nat /\ j \in Nat
    BY <1>1
  <2>1. CASE j \in 1..Len(q)
    <3>2. T - Len(r) + j = e - Len(q) + j
      BY <1>1, <2>0
    <3> QED
      BY <3>2, <2>1, <1>1
  <2>2. CASE j = Len(q) + 1
    <3>1. T - Len(r) + j = T
      BY <1>1, <2>0, <2>2
    <3> QED
      BY <3>1, <2>2, <1>1
  <2>3. j \in 1..Len(q) \/ j = Len(q) + 1
    BY <2>0, <1>1
  <2> QED
    BY <2>1, <2>2, <2>3
<1> QED
  BY <1>1, <1>2

\* The steps that neither take nor hand out an event.
LEMMA HandedElsewhere ==
  ASSUME HInv, Listed', got' = got, todo' = todo, Taken' = Taken,
         \A j \in 1..Len(log) : log'[j] = log[j],
         \A s \in Subscriptions : /\ sstate'[s] = "new" => sstate[s] = "new"
                                  /\ s \in subs' => s \in subs \/ sstate[s] = "new"
  PROVE  Handed'
<1> SUFFICES ASSUME NEW s \in Subscriptions
             PROVE  /\ sstate'[s] = "new" => got[s] = <<>> /\ s \notin todo
                    /\ s \in todo => Stretch(s, Taken - 1)'
                    /\ s \in subs' \ todo => Stretch(s, Taken)'
                    /\ \E e \in 0..Taken : Stretch(s, e)'
  BY DEF Handed
<1>1. Taken \in Nat /\ Taken <= Len(log) /\ Queue /\ Len(log) \in Nat
  BY DEF HInv, Queue, Taken
<1>2. \A e \in 0..Taken : Stretch(s, e) => Stretch(s, e)'
  BY <1>1, StretchKeeps
<1>3. PICK T \in Nat : T = Taken
  BY <1>1
<1>4. got[s] = <<>> => Stretch(s, T)
  BY <1>3 DEF Stretch, EndsAt
<1>5. s \in todo => T - 1 \in 0..T
  BY <1>3 DEF HInv, InHand
<1>6. s \in todo => Stretch(s, T - 1)'
  BY <1>2, <1>3, <1>5 DEF HInv, Handed
<1>7. s \in subs' \ todo => Stretch(s, T)'
  BY <1>2, <1>3, <1>4 DEF HInv, Handed
<1>8. \E e \in 0..Taken : Stretch(s, e)'
  BY <1>2 DEF HInv, Handed
<1>9. (Stretch(s, T - 1)' => Stretch(s, Taken - 1)') /\ (Stretch(s, T)' => Stretch(s, Taken)')
  BY <1>3 DEF Stretch
<1>10. sstate'[s] = "new" => got[s] = <<>> /\ s \notin todo
  BY DEF HInv, Handed
<1> QED
  BY <1>6, <1>7, <1>8, <1>9, <1>10

\* The loop takes the next event and copies the list: whoever is in it was handed the
\* events before.
LEMMA TakeHands == HInv /\ Listed' /\ Take => HInv'
<1> SUFFICES ASSUME HInv, Listed', Take PROVE Queue' /\ InHand' /\ Handed'
  BY DEF HInv
<1>1. /\ lpc = "select" /\ todo = {} /\ events # <<>> /\ ev' = Head(events)
      /\ events' = Tail(events) /\ todo' = subs
      /\ lpc' = IF subs = {} THEN "select" ELSE "deliver"
      /\ UNCHANGED <<subs, sstate, count, log, got>>
  BY DEF Take, HInv, InHand
<1>2. PICK T \in Nat : T = Taken
  BY DEF HInv, Queue
<1>3. /\ events \in Seq(Event) /\ log \in Seq(Event) /\ Len(events) > 0
      /\ Len(events') = Len(events) - 1
      /\ \A j \in 1..Len(events') : events'[j] = events[j + 1]
      /\ Head(events) = events[1]
  BY <1>1 DEF HInv, Queue
<1>4. Taken' = T + 1
  BY <1>1, <1>2, <1>3 DEF Taken
<1>5. \A j \in 1..Len(events') : events'[j] = log[T + 1 + j]
  <2> SUFFICES ASSUME NEW j \in 1..Len(events') PROVE events'[j] = log[T + 1 + j]
    OBVIOUS
  <2>1. j + 1 \in 1..Len(events) /\ T + (j + 1) = T + 1 + j
    BY <1>3
  <2> QED
    BY <2>1, <1>2, <1>3 DEF HInv, Queue
<1>6. Queue'
  BY <1>1, <1>3, <1>4, <1>5 DEF HInv, Queue
<1>7. ev' = log[T + 1]
  BY <1>1, <1>2, <1>3 DEF HInv, Queue
<1>8. InHand'
  BY <1>1, <1>4, <1>7 DEF InHand
<1>9. Handed'
  <2> SUFFICES ASSUME NEW s \in Subscriptions
               PROVE  /\ sstate[s] = "new" => got[s] = <<>> /\ s \notin subs
                      /\ s \in subs => Stretch(s, Taken - 1)'
                      /\ \E e \in 0..Taken' : Stretch(s, e)'
    BY <1>1 DEF Handed
  <2>1. \A e \in Nat : Stretch(s, e) => Stretch(s, e)'
    BY <1>1 DEF Stretch
  <2>2. s \in subs => Stretch(s, T)'
    BY <1>1, <1>2, <2>1 DEF HInv, Handed
  <2>3. Stretch(s, T)' => Stretch(s, Taken - 1)'
    <3>1. T = Taken' - 1
      BY <1>4
    <3> QED
      BY <3>1 DEF Stretch
  <2>4. \E e \in 0..Taken' : Stretch(s, e)'
    <3>1. PICK e \in 0..T : Stretch(s, e)
      BY <1>2 DEF HInv, Handed
    <3>2. e \in Nat /\ e \in 0..Taken'
      BY <1>4
    <3> QED
      BY <3>1, <3>2, <2>1
  <2> QED
    BY <2>2, <2>3, <2>4 DEF HInv, Handed, Listed
<1> QED
  BY <1>6, <1>8, <1>9

\* The loop hands the event to one of those it copied.
LEMMA DeliverHands ==
  ASSUME HInv, Listed', NEW s \in Subscriptions, Deliver(s)
  PROVE  HInv'
<1>1. /\ lpc = "deliver" /\ s \in todo /\ lpc' = "call" /\ todo' = todo \ {s}
      /\ got' = [got EXCEPT ![s] = Append(got[s], ev)]
      /\ UNCHANGED <<events, subs, sstate, count, log, ev>>
  BY DEF Deliver
<1>2. PICK T \in Nat : T = Taken /\ T > 0 /\ ev = log[T] /\ T <= Len(log)
  BY <1>1 DEF HInv, Queue, InHand, Taken
<1>3. Taken' = T
  BY <1>1, <1>2 DEF Taken
<1>4. log[T] \in Event
  BY <1>2 DEF HInv, Queue
<1>5. Queue'
  <2>1. got' \in [Subscriptions -> Seq(Event)]
    BY <1>1, <1>2, <1>4 DEF HInv, Queue
  <2> QED
    BY <2>1, <1>1, <1>2, <1>3 DEF HInv, Queue
<1>6. InHand'
  BY <1>1, <1>2, <1>3 DEF InHand
<1>7. got'[s] = Append(got[s], log[T])
  BY <1>1, <1>2 DEF HInv, Queue
<1>8. \A t \in Subscriptions \ {s} : got'[t] = got[t]
  BY <1>1 DEF HInv, Queue
<1>9. Stretch(s, T)'
  <2>1. T - 1 \in Nat /\ (T - 1) + 1 = T
    BY <1>2
  <2>2. Stretch(s, T - 1)
    BY <1>1, <1>2 DEF HInv, Handed
  <2>3. PICK e \in Nat : e = T - 1 /\ e + 1 = T
    BY <2>1
  <2>4. EndsAt(got'[s], log, T)
    <3>1. /\ got[s] \in Seq(Event) /\ log \in Seq(Event) /\ T <= Len(log) /\ T = e + 1
          /\ got'[s] = Append(got[s], log[T]) /\ got'[s] \in Seq(Event)
      BY <2>3, <1>2, <1>4, <1>7 DEF HInv, Queue
    <3>2. EndsAt(got[s], log, e)
      BY <2>2, <2>3 DEF Stretch
    <3> QED
      BY <3>1, <3>2, NextOne
  <2>5. log' = log
    BY <1>1
  <2> QED
    BY <2>4, <2>5 DEF Stretch
<1>10. Handed'
  <2> SUFFICES ASSUME NEW t \in Subscriptions
               PROVE  /\ sstate[t] = "new" => got'[t] = <<>> /\ t \notin todo'
                      /\ t \in todo' => Stretch(t, Taken - 1)'
                      /\ t \in subs \ todo' => Stretch(t, Taken)'
                      /\ \E e \in 0..Taken' : Stretch(t, e)'
    BY <1>1 DEF Handed
  <2>1. (Stretch(t, T - 1)' => Stretch(t, Taken - 1)') /\ (Stretch(t, T)' => Stretch(t, Taken)')
    BY <1>3 DEF Stretch
  <2>2. CASE t = s
    BY <2>1, <2>2, <1>1, <1>2, <1>3, <1>9 DEF HInv, Handed
  <2>3. CASE t # s
    <3>1. \A e \in Nat : Stretch(t, e) => Stretch(t, e)'
      BY <2>3, <1>1, <1>8 DEF Stretch
    <3>2. /\ sstate[t] = "new" => got[t] = <<>> /\ t \notin todo
          /\ t \in todo => Stretch(t, T - 1)
          /\ t \in subs \ todo => Stretch(t, T)
          /\ \E e \in 0..T : Stretch(t, e)
      BY <1>2 DEF HInv, Handed
    <3>3. T - 1 \in Nat /\ \A e \in 0..T : e \in Nat
      BY <1>2
    <3> QED
      BY <2>1, <2>3, <3>1, <3>2, <3>3, <1>1, <1>3, <1>8
  <2> QED
    BY <2>2, <2>3
<1> QED
  BY <1>5, <1>6, <1>10 DEF HInv

\* Every step keeps the stretches.
LEMMA HandedHolds == Spec => []HInv
<1>1. Init => HInv
  BY DEF Init, HInv, Listed, Queue, InHand, Handed, Stretch, EndsAt, Taken, Event
<1>2. HInv /\ Listed' /\ [Next]_vars => HInv'
  <2> SUFFICES ASSUME HInv, Listed', [Next]_vars PROVE HInv'
    OBVIOUS
  <2> USE DEF loopvars
  <2>1. ASSUME NEW s \in Subscriptions, Subscribe(s) \/ Unsubscribe(s) PROVE HInv'
    <3>1. Queue' /\ InHand'
      BY <2>1 DEF Subscribe, Unsubscribe, HInv, Queue, InHand, Taken
    <3>2. Handed'
      BY <2>1, HandedElsewhere DEF Subscribe, Unsubscribe, HInv, Listed, Taken
    <3> QED
      BY <3>1, <3>2 DEF HInv
  <2>2. ASSUME NEW s \in Subscriptions, Deliver(s) PROVE HInv'
    BY <2>2, DeliverHands
  <2>3. ASSUME NEW p \in Publishers, Enqueue(p) PROVE HInv'
    <3>1. /\ events' = Append(events, <<p, count[p]>>) /\ log' = Append(log, <<p, count[p]>>)
          /\ UNCHANGED <<subs, sstate, count, lpc, ev, todo, got>>
          /\ <<p, count[p]>> \in Event
      BY <2>3 DEF Enqueue, HInv, Queue, Event
    <3>2. /\ events' \in Seq(Event) /\ log' \in Seq(Event)
          /\ Len(events') = Len(events) + 1 /\ Len(log') = Len(log) + 1
          /\ \A j \in 1..Len(events) : events'[j] = events[j]
          /\ \A j \in 1..Len(log) : log'[j] = log[j]
          /\ events'[Len(events) + 1] = log'[Len(log) + 1]
      BY <3>1 DEF HInv, Queue
    <3>3. PICK T \in Nat : T = Taken /\ T + Len(events) = Len(log) /\ Taken' = T
      BY <3>2 DEF HInv, Queue, Taken
    <3>4. \A j \in 1..Len(events') : events'[j] = log'[T + j]
      <4> SUFFICES ASSUME NEW j \in 1..Len(events') PROVE events'[j] = log'[T + j]
        OBVIOUS
      <4>1. CASE j \in 1..Len(events)
        <5>1. events[j] = log[T + j] /\ T + j \in 1..Len(log)
          BY <4>1, <3>3 DEF HInv, Queue
        <5> QED
          BY <4>1, <5>1, <3>2
      <4>2. CASE j = Len(events) + 1
        <5>1. T + j = Len(log) + 1
          BY <4>2, <3>3 DEF HInv, Queue
        <5> QED
          BY <4>2, <5>1, <3>2
      <4> QED
        BY <4>1, <4>2, <3>2 DEF HInv, Queue
    <3>5. Queue'
      BY <3>1, <3>2, <3>3, <3>4 DEF HInv, Queue
    <3>6. InHand'
      <4>1. T > 0 => T \in 1..Len(log)
        BY <3>3 DEF HInv, Queue
      <4> QED
        BY <3>1, <3>2, <3>3, <4>1 DEF HInv, InHand
    <3>7. Handed'
      BY <3>1, <3>2, <3>3, HandedElsewhere
    <3> QED
      BY <3>5, <3>6, <3>7 DEF HInv
  <2>4. ASSUME NEW p \in Publishers, Publish(p) \/ GiveUp(p) PROVE HInv'
    <3>0. UNCHANGED <<events, log, got, lpc, ev, todo>> /\ count' \in [Publishers -> Nat]
      BY <2>4 DEF Publish, GiveUp, HInv, Queue
    <3>1. Queue' /\ InHand'
      BY <3>0 DEF HInv, Queue, InHand, Taken
    <3>2. Handed'
      BY <2>4, HandedElsewhere DEF Publish, GiveUp, Taken
    <3> QED
      BY <3>1, <3>2 DEF HInv
  <2>5. CASE Take
    BY <2>5, TakeHands
  <2>6. CASE CallReturns \/ LoopEnds \/ Shutdown
    <3>1. Queue' /\ InHand'
      BY <2>6 DEF CallReturns, LoopEnds, Shutdown, HInv, Queue, InHand, Taken
    <3>2. Handed'
      BY <2>6, HandedElsewhere DEF CallReturns, LoopEnds, Shutdown, Taken
    <3> QED
      BY <3>1, <3>2 DEF HInv
  <2>7. CASE UNCHANGED vars
    <3>1. Queue' /\ InHand'
      BY <2>7 DEF vars, HInv, Queue, InHand, Taken
    <3>2. Handed'
      BY <2>7, HandedElsewhere DEF vars, Taken
    <3> QED
      BY <3>1, <3>2 DEF HInv
  <2> QED
    BY <2>1, <2>2, <2>3, <2>4, <2>5, <2>6, <2>7 DEF Next
<1> QED
  BY <1>1, <1>2, ListedHolds, PTL DEF Spec

\* A sequence that agrees with another from a place on is a part of it.
LEMMA PartOf ==
  ASSUME NEW S, NEW q \in Seq(S), NEW w \in Seq(S), NEW i \in Nat,
         i + Len(q) <= Len(w), \A j \in 1..Len(q) : q[j] = w[i + j]
  PROVE  q = SubSeq(w, i + 1, i + Len(q))
<1> DEFINE part == SubSeq(w, i + 1, i + Len(q))
<1>1. /\ i + 1 \in Int /\ i + Len(q) \in Int
      /\ \A j \in (i + 1)..(i + Len(q)) : w[j] \in S
  OBVIOUS
<1>2. part \in Seq(S)
  BY <1>1, SubSeqProperties
<1>3. Len(part) = Len(q)
  BY <1>1
<1>4. \A j \in 1..Len(q) : part[j] = w[i + j]
  <2> SUFFICES ASSUME NEW j \in 1..Len(q) PROVE part[j] = w[i + j]
    OBVIOUS
  <2>1. part[j] = w[(i + 1) + j - 1]
    BY <1>1
  <2> QED
    BY <2>1
<1> HIDE DEF part
<1>5. part = q
  BY <1>2, <1>3, <1>4, SeqEqual
<1> QED
  BY <1>5 DEF part

\* Whatever was published, whoever subscribes and leaves at whatever moment: what a
\* subscription is handed is one stretch of the published events, in order.
THEOREM NoHolesHolds == Spec => []NoHoles
<1>1. HInv => NoHoles
  <2> SUFFICES ASSUME HInv, NEW s \in Subscriptions PROVE Contiguous(got[s], log)
    BY DEF NoHoles
  <2>1. got[s] \in Seq(Event) /\ log \in Seq(Event) /\ Taken \in Nat /\ Taken <= Len(log)
    BY DEF HInv, Queue, Taken
  <2>2. PICK e \in 0..Taken : Stretch(s, e)
    BY DEF HInv, Handed
  <2> DEFINE i == e - Len(got[s])
  <2>3. i \in 0..(Len(log) - Len(got[s])) /\ i + Len(got[s]) = e
    BY <2>1, <2>2 DEF Stretch, EndsAt
  <2>4. got[s] = SubSeq(log, i + 1, i + Len(got[s]))
    <3>1. i \in Nat /\ i + Len(got[s]) <= Len(log)
      BY <2>1, <2>3
    <3>2. \A j \in 1..Len(got[s]) : got[s][j] = log[i + j]
      BY <2>2 DEF Stretch, EndsAt
    <3> HIDE DEF i
    <3> QED
      BY <2>1, <3>1, <3>2, PartOf
  <2> QED
    BY <2>3, <2>4 DEF Contiguous
<1> QED
  BY <1>1, HandedHolds, PTL

-----------------------------------------------------------------------------
(* Types. *)

Numbered == Publishers \X (1..MaxEvents)

\* An event is numbered when it is made, and keeps its number in the channel, in the
\* hands of the loop and with those that were handed it.
Types ==
  /\ TypeOK
  /\ \A p \in Publishers : ppc[p] = "publish" => count[p] > 0
  /\ todo # {} => ev \in Numbered

\* Every variable keeps to its values, and the loop delivers only while it has somebody
\* to deliver to.
THEOREM TypeCorrect == Spec => []TypeOK
<1> USE BoundsAssumption
<1>1. Init => Types
  <2> SUFFICES ASSUME Init PROVE Types
    OBVIOUS
  <2>1. events \in Seq(Numbered) /\ log \in Seq(Numbered) /\ Len(events) = 0
    BY DEF Init
  <2>2. got \in [Subscriptions -> Seq(Numbered)]
    BY DEF Init
  <2>3. count \in [Publishers -> 0..MaxEvents] /\ late \in [Subscriptions -> Nat]
    BY DEF Init
  <2>4. /\ sstate \in [Subscriptions -> {"new", "in", "out"}]
        /\ ppc \in [Publishers -> {"idle", "publish"}]
        /\ \A p \in Publishers : ppc[p] = "idle"
    BY DEF Init
  <2>5. /\ done \in BOOLEAN /\ subs \subseteq Subscriptions /\ todo = {}
        /\ lpc = "select"
    BY DEF Init
  <2>6. Len(events) <= Capacity
    BY <2>1
  <2> QED
    BY <2>1, <2>2, <2>3, <2>4, <2>5, <2>6 DEF Types, TypeOK, Numbered
<1>2. Types /\ [Next]_vars => Types'
  <2> SUFFICES ASSUME Types, [Next]_vars PROVE Types'
    OBVIOUS
  <2> USE DEF Types, TypeOK, Numbered, loopvars
  <2>1. ASSUME NEW s \in Subscriptions, Subscribe(s) \/ Unsubscribe(s) PROVE Types'
    BY <2>1 DEF Subscribe, Unsubscribe
  <2>2. ASSUME NEW s \in Subscriptions, Deliver(s) PROVE Types'
    <3>1. ev \in Numbered
      BY <2>2 DEF Deliver
    <3>2. got' \in [Subscriptions -> Seq(Numbered)]
      BY <2>2, <3>1 DEF Deliver
    <3> QED
      BY SMTT(30), <2>2, <3>1, <3>2 DEF Deliver
  <2>3. ASSUME NEW p \in Publishers, Publish(p) PROVE Types'
    BY <2>3 DEF Publish
  <2>4. ASSUME NEW p \in Publishers, Enqueue(p) PROVE Types'
    <3>1. <<p, count[p]>> \in Numbered
      BY <2>4 DEF Enqueue
    <3>2. /\ events' \in Seq(Numbered) /\ Len(events') <= Capacity
          /\ log' \in Seq(Numbered)
      BY <2>4, <3>1 DEF Enqueue
    <3> QED
      BY <2>4, <3>2 DEF Enqueue
  <2>5. ASSUME NEW p \in Publishers, GiveUp(p) PROVE Types'
    BY <2>5 DEF GiveUp
  <2>6. CASE Take
    <3>1. /\ events' \in Seq(Numbered) /\ Len(events') <= Capacity
          /\ ev' \in Numbered
      BY <2>6 DEF Take
    <3> QED
      BY <2>6, <3>1 DEF Take
  <2>7. CASE CallReturns \/ LoopEnds \/ Shutdown
    BY <2>7 DEF CallReturns, LoopEnds, Shutdown
  <2>8. CASE UNCHANGED vars
    BY <2>8 DEF vars
  <2> QED
    BY <2>1, <2>2, <2>3, <2>4, <2>5, <2>6, <2>7, <2>8 DEF Next
<1>3. Types => TypeOK
  BY DEF Types
<1> QED
  BY <1>1, <1>2, <1>3, PTL DEF Spec
=============================================================================
