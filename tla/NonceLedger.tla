---------------------------- MODULE NonceLedger ----------------------------
(***************************************************************************)
(* What the message pusher promises the Filecoin node: a message takes the *)
(* first nonce of its key that no message has taken yet; only in an        *)
(* environment that loses replies, or restarts the process with messages   *)
(* in the mempool, may it take the nonce of a pending message, which it    *)
(* replaces.  No caller, no lock, no counter and no restart appears here.  *)
(***************************************************************************)
EXTENDS Naturals, Sequences, FiniteSets

CONSTANT Keys

VARIABLES sent,   \* the nonces of the messages accepted from each key, in order
          mined,  \* the nonce of each key's actor on chain
          calm    \* the environment loses no reply and forgets no pending message

vars == <<sent, mined, calm>>

Taken(k) == {sent[k][i] : i \in 1..Len(sent[k])}

Init ==
  /\ sent = [k \in Keys |-> <<>>]
  /\ mined = [k \in Keys |-> 0]
  /\ calm \in BOOLEAN

Accept(k, nonce) == sent' = [sent EXCEPT ![k] = Append(@, nonce)]

\* The next message: as many nonces are taken as lie below its own.
Extend(k) == Accept(k, Cardinality(Taken(k))) /\ UNCHANGED <<mined, calm>>

\* A message for a nonce that is taken and not mined.
Replace(k) ==
  /\ ~calm
  /\ \E nonce \in Taken(k) : nonce >= mined[k] /\ Accept(k, nonce)
  /\ UNCHANGED <<mined, calm>>

Mine(k) ==
  /\ mined[k] \in Taken(k)
  /\ mined' = [mined EXCEPT ![k] = @ + 1]
  /\ UNCHANGED <<sent, calm>>

Next == \E k \in Keys : Extend(k) \/ Replace(k) \/ Mine(k)

Spec == Init /\ [][Next]_vars
=============================================================================
