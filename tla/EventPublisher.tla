--------------------------- MODULE EventPublisher ---------------------------
(***************************************************************************)
(* The retrieval event publisher (rep/publisher.go): publishers put events *)
(* on a bounded channel; one goroutine takes them off, copies the list of  *)
(* subscribers and calls them one after the other outside the lock.        *)
(*                                                                         *)
(* A subscription is one Subscribe call: the code gives each its own       *)
(* index, so one subscriber may hold several.  The lock of the subscriber  *)
(* list is held for one step at a time and is not modelled.                *)
(***************************************************************************)
EXTENDS Naturals, Sequences

CONSTANTS
  Publishers,     \* goroutines that publish (retrievals and queries)
  Subscriptions,  \* the subscriptions ever made
  Capacity,       \* of the events channel (16 in the code)
  MaxEvents       \* bound: events per publisher

ASSUME BoundsAssumption == Capacity \in Nat \ {0} /\ MaxEvents \in Nat

VARIABLES
  done,       \* the context is cancelled
  events,     \* the channel
  subs,       \* the subscriber list
  sstate,     \* "new", "in" or "out": the life of each subscription
  ppc, count, \* publishers: place, and events published so far
  lpc,        \* the loop goroutine: "select", "deliver", "call", "stopped"
  ev, todo,   \* its event, and the subscribers it copied and has still to call
  log,        \* history: the events in the order the channel accepted them
  got,        \* history: what each subscription was handed
  late        \* history: how often a subscription was called after it ended

vars == <<done, events, subs, sstate, ppc, count, lpc, ev, todo, log, got, late>>

loopvars == <<lpc, ev, todo, got, late>>

NoEvent == <<>>

Init ==
  /\ done = FALSE /\ events = <<>> /\ subs = {}
  /\ sstate = [s \in Subscriptions |-> "new"]
  /\ ppc = [p \in Publishers |-> "idle"] /\ count = [p \in Publishers |-> 0]
  /\ lpc = "select" /\ ev = NoEvent /\ todo = {}
  /\ log = <<>>
  /\ got = [s \in Subscriptions |-> <<>>]
  /\ late = [s \in Subscriptions |-> 0]

Subscribe(s) ==
  /\ sstate[s] = "new"
  /\ subs' = subs \cup {s}
  /\ sstate' = [sstate EXCEPT ![s] = "in"]
  /\ UNCHANGED <<done, events, ppc, count, log, loopvars>>

\* Deviation: the subscriber stays in the list.
UnsubscribeKeeps(s) ==
  /\ sstate[s] = "in"
  /\ sstate' = [sstate EXCEPT ![s] = "out"]
  /\ UNCHANGED <<done, events, subs, ppc, count, log, loopvars>>

\* The function Subscribe returned.
Unsubscribe(s) ==
  /\ sstate[s] = "in"
  /\ subs' = subs \ {s}
  /\ sstate' = [sstate EXCEPT ![s] = "out"]
  /\ UNCHANGED <<done, events, ppc, count, log, loopvars>>

\* Publish: the publisher waits until there is room or the context is cancelled.
Publish(p) ==
  /\ ppc[p] = "idle" /\ count[p] < MaxEvents
  /\ ppc' = [ppc EXCEPT ![p] = "publish"]
  /\ count' = [count EXCEPT ![p] = @ + 1]
  /\ UNCHANGED <<done, events, subs, sstate, log, loopvars>>

Enqueue(p) ==
  /\ ppc[p] = "publish" /\ Len(events) < Capacity
  /\ events' = Append(events, <<p, count[p]>>)
  /\ log' = Append(log, <<p, count[p]>>)
  /\ ppc' = [ppc EXCEPT ![p] = "idle"]
  /\ UNCHANGED <<done, subs, sstate, count, loopvars>>

GiveUp(p) ==
  /\ ppc[p] = "publish" /\ done
  /\ ppc' = [ppc EXCEPT ![p] = "idle"]
  /\ UNCHANGED <<done, events, subs, sstate, count, log, loopvars>>

Shutdown ==
  /\ ~done /\ done' = TRUE
  /\ UNCHANGED <<events, subs, sstate, ppc, count, log, loopvars>>

\* Deviation: the newest event is taken first.
TakeNewest ==
  /\ lpc = "select" /\ events # <<>>
  /\ ev' = events[Len(events)] /\ events' = SubSeq(events, 1, Len(events) - 1)
  /\ todo' = subs
  /\ lpc' = IF subs = {} THEN "select" ELSE "deliver"
  /\ UNCHANGED <<done, subs, sstate, ppc, count, log, got, late>>

\* Deviation: one subscriber is called per event.
TakeForOne ==
  /\ lpc = "select" /\ events # <<>>
  /\ ev' = Head(events) /\ events' = Tail(events)
  /\ \E one \in SUBSET subs :
       /\ one = {} <=> subs = {}
       /\ \A a, b \in one : a = b
       /\ todo' = one
       /\ lpc' = IF one = {} THEN "select" ELSE "deliver"
  /\ UNCHANGED <<done, subs, sstate, ppc, count, log, got, late>>

\* Take an event and copy the subscriber list.
Take ==
  /\ lpc = "select" /\ events # <<>>
  /\ ev' = Head(events) /\ events' = Tail(events)
  /\ todo' = subs
  /\ lpc' = IF subs = {} THEN "select" ELSE "deliver"
  /\ UNCHANGED <<done, subs, sstate, ppc, count, log, got, late>>

\* Call one of the subscribers copied, in the order the map happened to give.
Deliver(s) ==
  /\ lpc = "deliver" /\ s \in todo
  /\ lpc' = "call"
  /\ todo' = todo \ {s}
  /\ got' = [got EXCEPT ![s] = Append(@, ev)]
  /\ late' = [late EXCEPT ![s] = IF sstate[s] = "out" THEN @ + 1 ELSE @]
  /\ UNCHANGED <<done, events, subs, sstate, ppc, count, log, ev>>

\* Deviation: the loop ends with the subscriber that was called first.
CallReturnsStops ==
  /\ lpc = "call"
  /\ lpc' = "stopped"
  /\ UNCHANGED <<done, events, subs, sstate, ppc, count, log, ev, todo, got, late>>

\* OnRetrievalEvent returns.
CallReturns ==
  /\ lpc = "call"
  /\ lpc' = IF todo = {} THEN "select" ELSE "deliver"
  /\ UNCHANGED <<done, events, subs, sstate, ppc, count, log, ev, todo, got, late>>

\* The context is looked at between events only.
LoopEnds ==
  /\ lpc = "select" /\ done
  /\ lpc' = "stopped"
  /\ UNCHANGED <<done, events, subs, sstate, ppc, count, log, ev, todo, got, late>>

Next ==
  \/ \E s \in Subscriptions : Subscribe(s) \/ Unsubscribe(s) \/ Deliver(s)
  \/ \E p \in Publishers : Publish(p) \/ Enqueue(p) \/ GiveUp(p)
  \/ Take \/ CallReturns \/ LoopEnds \/ Shutdown

Spec == Init /\ [][Next]_vars

\* Goroutines run, subscribers return, and a waiting sender is served in its turn.
Fairness ==
  /\ WF_vars(Take \/ LoopEnds) /\ WF_vars(CallReturns)
  /\ \A s \in Subscriptions : WF_vars(Deliver(s))
  /\ \A p \in Publishers : SF_vars(Enqueue(p)) /\ WF_vars(GiveUp(p))

FairSpec == Spec /\ Fairness

-----------------------------------------------------------------------------
(* Properties. *)

Contiguous(part, whole) ==
  \E i \in 0..(Len(whole) - Len(part)) : part = SubSeq(whole, i + 1, i + Len(part))

\* Every variable keeps to its values.
TypeOK ==
  /\ done \in BOOLEAN /\ subs \subseteq Subscriptions /\ todo \subseteq Subscriptions
  /\ events \in Seq(Publishers \X (1..MaxEvents)) /\ Len(events) <= Capacity
  /\ log \in Seq(Publishers \X (1..MaxEvents))
  /\ sstate \in [Subscriptions -> {"new", "in", "out"}]
  /\ ppc \in [Publishers -> {"idle", "publish"}] /\ count \in [Publishers -> 0..MaxEvents]
  /\ lpc \in {"select", "deliver", "call", "stopped"}
  /\ lpc = "deliver" => todo # {}
  /\ got \in [Subscriptions -> Seq(Publishers \X (1..MaxEvents))]
  /\ late \in [Subscriptions -> Nat]

\* What a subscription is handed is one stretch of what was published, in order:
\* no event is skipped, repeated or overtaken between its first and its last.
NoHoles == \A s \in Subscriptions : Contiguous(got[s], log)

\* The copy of the list outlives the lock: a subscription may be called after it was
\* ended, but only for the one event in hand.
AtMostOneLate == \A s \in Subscriptions : late[s] <= 1

\* Whoever is subscribed while an event waits in the channel is handed that event,
\* unless the subscription ends or the publisher is shut down.
EveryoneIsTold ==
  \A s \in Subscriptions, p \in Publishers, i \in 1..MaxEvents :
    (s \in subs /\ \E j \in 1..Len(events) : events[j] = <<p, i>>) ~>
      (done \/ s \notin subs \/ \E j \in 1..Len(got[s]) : got[s][j] = <<p, i>>)

\* A publisher is never held for ever, however slow the subscribers are.
PublishReturns == \A p \in Publishers : ppc[p] = "publish" ~> ppc[p] = "idle"
=============================================================================
