---------------------------- MODULE DataRequests ----------------------------
(***************************************************************************)
(* What the transfer manager promises its client about data requests: a    *)
(* request is open until it expires or is withdrawn, it gets one outcome,  *)
(* it fails only after it was closed, and the client is told nothing but   *)
(* the outcome.  No server, no lock, no process appears here.              *)
(***************************************************************************)
CONSTANT Requests

VARIABLES prepared,  \* the requests the client prepared
          open,      \* those a provider may still serve
          outcome,   \* what became of each request
          told       \* what the client was told of each request

vars == <<prepared, open, outcome, told>>

Init ==
  /\ prepared = {} /\ open = {}
  /\ outcome = [r \in Requests |-> "none"]
  /\ told = [r \in Requests |-> {}]

Prepare(r) ==
  /\ r \in Requests \ prepared
  /\ prepared' = prepared \cup {r} /\ open' = open \cup {r}
  /\ UNCHANGED <<outcome, told>>

\* Some requests expire together, or one is withdrawn.
Close ==
  /\ open' \subseteq open
  /\ UNCHANGED <<prepared, outcome, told>>

\* A transfer that was opened in time may complete after the request is closed.
Complete(r) ==
  /\ r \in prepared /\ outcome[r] = "none"
  /\ outcome' = [outcome EXCEPT ![r] = "Completed"]
  /\ UNCHANGED <<prepared, open, told>>

Fail(r) ==
  /\ r \in prepared \ open /\ outcome[r] = "none"
  /\ outcome' = [outcome EXCEPT ![r] = "Failed"]
  /\ UNCHANGED <<prepared, open, told>>

Tell(r) ==
  /\ r \in prepared /\ outcome[r] # "none"
  /\ told' = [told EXCEPT ![r] = {outcome[r]}]
  /\ UNCHANGED <<prepared, open, outcome>>

Next ==
  \/ Close
  \/ \E r \in Requests : Prepare(r) \/ Complete(r) \/ Fail(r) \/ Tell(r)

Spec == Init /\ [][Next]_vars
=============================================================================
