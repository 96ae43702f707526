----------------------------- MODULE MsgPusher -----------------------------
(***************************************************************************)
(* The nonce-tracking message pusher (msgpusher.go) and the Filecoin node  *)
(* behind api.Gateway, which is not in this repository.                    *)
(*                                                                         *)
(* Several goroutines push messages (LockMarketFunds, the payment channel  *)
(* manager through apiprov.go).  A call holds nlk over five remote calls,  *)
(* each of which may fail; the nonce of a key is read from the chain once  *)
(* and counted locally from then on.  The local count is not persisted.    *)
(***************************************************************************)
EXTENDS Naturals, Sequences

CONSTANTS
  Callers,     \* goroutines that push messages
  Addrs, Keys, \* addresses of senders, and the account keys they resolve to
  KeyOf,       \* StateAccountKey
  NoCaller,    \* nlk is free
  NoNonce,     \* a key that is not in mp.nonces
  MaxSends     \* bound: no new call once a key has had this many messages accepted

ASSUME NamesAssumption ==
  /\ NoCaller \notin Callers /\ NoNonce \notin Nat
  /\ KeyOf \in [Addrs -> Keys]

ASSUME BoundsAssumption == MaxSends \in Nat

VARIABLES
  nlk,     \* holder of the mutex
  nonces,  \* mp.nonces
  pc,      \* place of each caller in MpoolPushMessage
  from,    \* msg.From of its message
  n,       \* msg.Nonce of its message
  sent,    \* node: nonces of the messages accepted from each key, in order
  mined,   \* node: the nonce of the actor on chain
  calm     \* chosen once: no reply is lost, and the process restarts only while no
           \* message waits in the mempool

vars == <<nlk, nonces, pc, from, n, sent, mined, calm>>

key(c) == KeyOf[from[c]]

Init ==
  /\ nlk = NoCaller
  /\ nonces = [k \in Keys |-> NoNonce]
  /\ pc = [c \in Callers |-> "idle"]
  /\ from \in [Callers -> Addrs]
  /\ n = [c \in Callers |-> 0]
  /\ sent = [k \in Keys |-> <<>>]
  /\ mined = [k \in Keys |-> 0]
  /\ calm \in BOOLEAN

-----------------------------------------------------------------------------
(* MpoolPushMessage. *)

Call(c, a) ==
  /\ pc[c] = "idle" /\ Len(sent[KeyOf[a]]) < MaxSends
  /\ pc' = [pc EXCEPT ![c] = "lock"]
  /\ from' = [from EXCEPT ![c] = a]
  /\ UNCHANGED <<nlk, nonces, n, sent, mined, calm>>

Lock(c) ==
  /\ pc[c] = "lock" /\ nlk = NoCaller
  /\ nlk' = c
  /\ pc' = [pc EXCEPT ![c] = "resolve"]
  /\ UNCHANGED <<nonces, from, n, sent, mined, calm>>

\* Deviation: an error path that forgets the unlock (no "defer").
ReturnLocked(c) ==
  /\ pc' = [pc EXCEPT ![c] = "idle"]
  /\ UNCHANGED nlk

\* Return, with the deferred unlock.
Return(c) ==
  /\ pc' = [pc EXCEPT ![c] = "idle"]
  /\ nlk' = NoCaller

\* StateAccountKey, then the lookup in mp.nonces.
Resolve(c) ==
  /\ pc[c] = "resolve"
  /\ IF nonces[key(c)] # NoNonce
     THEN /\ n' = [n EXCEPT ![c] = nonces[key(c)]]
          /\ pc' = [pc EXCEPT ![c] = "estimate"]
     ELSE /\ pc' = [pc EXCEPT ![c] = "actor"]
          /\ UNCHANGED n
  /\ UNCHANGED <<nlk, nonces, from, sent, mined, calm>>

\* Deviation: the counter starts one above the actor's nonce.
ReadActorPlusOne(c) ==
  /\ pc[c] = "actor"
  /\ nonces' = [nonces EXCEPT ![key(c)] = mined[key(c)] + 1]
  /\ n' = [n EXCEPT ![c] = mined[key(c)] + 1]
  /\ pc' = [pc EXCEPT ![c] = "estimate"]
  /\ UNCHANGED <<nlk, from, sent, mined, calm>>

\* StateGetActor: the chain's nonce, which knows nothing of the mempool, is kept
\* for the rest of the process's life.
ReadActor(c) ==
  /\ pc[c] = "actor"
  /\ nonces' = [nonces EXCEPT ![key(c)] = mined[key(c)]]
  /\ n' = [n EXCEPT ![c] = mined[key(c)]]
  /\ pc' = [pc EXCEPT ![c] = "estimate"]
  /\ UNCHANGED <<nlk, from, sent, mined, calm>>

\* GasEstimateMessageGas and WalletSign.
EstimateAndSign(c) ==
  /\ pc[c] = "estimate"
  /\ pc' = [pc EXCEPT ![c] = "push"]
  /\ UNCHANGED <<nlk, nonces, from, n, sent, mined, calm>>

\* Deviation: a failed call uses its nonce up.
RemoteErrorBurnsNonce(c) ==
  /\ pc[c] \in {"resolve", "actor", "estimate", "push"}
  /\ Return(c)
  /\ nonces' = [nonces EXCEPT ![key(c)] = IF @ = NoNonce THEN @ ELSE @ + 1]
  /\ UNCHANGED <<from, n, sent, mined, calm>>

\* Any of the remote calls fails: return the error.
RemoteError(c) ==
  /\ pc[c] \in {"resolve", "actor", "estimate", "push"}
  /\ Return(c)
  /\ UNCHANGED <<nonces, from, n, sent, mined, calm>>

\* MpoolPush arrives at the node.  A nonce that is mined already is refused (that
\* is a RemoteError); one that is pending replaces the pending message.
NodeAccepts(c) ==
  /\ pc[c] = "push" /\ n[c] >= mined[key(c)]
  /\ sent' = [sent EXCEPT ![key(c)] = Append(@, n[c])]
  /\ pc' = [pc EXCEPT ![c] = "accepted"]
  /\ UNCHANGED <<nlk, nonces, from, n, mined, calm>>

\* Deviation: the nonce is not counted as used.
PushReturnsUncounted(c) ==
  /\ pc[c] = "accepted"
  /\ Return(c)
  /\ UNCHANGED <<nonces, from, n, sent, mined, calm>>

\* MpoolPush returns: only then is the nonce counted as used.
PushReturns(c) ==
  /\ pc[c] = "accepted"
  /\ nonces' = [nonces EXCEPT ![key(c)] = @ + 1]
  /\ Return(c)
  /\ UNCHANGED <<from, n, sent, mined, calm>>

\* The reply is lost: an error is returned for a message that was accepted.
ReplyLost(c) ==
  /\ ~calm /\ pc[c] = "accepted"
  /\ Return(c)
  /\ UNCHANGED <<nonces, from, n, sent, mined, calm>>

-----------------------------------------------------------------------------
(* The node and the process. *)

\* A message with the actor's nonce is executed on chain.
Mine(k) ==
  /\ \E i \in 1..Len(sent[k]) : sent[k][i] = mined[k]
  /\ mined' = [mined EXCEPT ![k] = @ + 1]
  /\ UNCHANGED <<nlk, nonces, pc, from, n, sent, calm>>

\* The process restarts with NewMsgPusher's empty map.
Restart ==
  /\ calm => \A k \in Keys : mined[k] = Len(sent[k])
  /\ nlk' = NoCaller
  /\ nonces' = [k \in Keys |-> NoNonce]
  /\ pc' = [c \in Callers |-> "idle"]
  /\ UNCHANGED <<from, n, sent, mined, calm>>

CallerStep(c) == \/ Lock(c) \/ Resolve(c) \/ ReadActor(c) \/ EstimateAndSign(c)
                 \/ RemoteError(c) \/ NodeAccepts(c) \/ PushReturns(c) \/ ReplyLost(c)

Next ==
  \/ \E c \in Callers : CallerStep(c) \/ \E a \in Addrs : Call(c, a)
  \/ \E k \in Keys : Mine(k)
  \/ Restart

Spec == Init /\ [][Next]_vars

\* Remote calls return, with a result or an error, and Go's mutex lets nobody
\* starve.
FairSpec ==
  /\ Spec
  /\ \A c \in Callers : SF_vars(Lock(c)) /\ WF_vars(pc[c] # "lock" /\ CallerStep(c))

-----------------------------------------------------------------------------
(* Properties. *)

\* Every variable keeps to its values.
TypeOK ==
  /\ nlk \in Callers \cup {NoCaller}
  /\ nonces \in [Keys -> Nat \cup {NoNonce}]
  /\ pc \in [Callers -> {"idle", "lock", "resolve", "actor", "estimate", "push", "accepted"}]
  /\ from \in [Callers -> Addrs] /\ n \in [Callers -> Nat]
  /\ sent \in [Keys -> Seq(Nat)] /\ mined \in [Keys -> Nat] /\ calm \in BOOLEAN

\* The messages of a key carry 0, 1, 2, ... in the order in which the node accepted
\* them: no nonce is used twice and none is skipped, whichever callers race,
\* whichever remote calls fail, and under whichever address the key is named, as long
\* as no reply is lost and no restart forgets messages that are still pending.
NonceSequence ==
  calm => \A k \in Keys : \A i \in 1..Len(sent[k]) : sent[k][i] = i - 1

\* Even when replies are lost and the process restarts at the worst time, a message
\* never leaves a gap below its nonce: it does not wait for a nonce nobody will use.
NoNonceGap ==
  \A k \in Keys : \A i \in 1..Len(sent[k]) :
    \A m \in 0..(sent[k][i] - 1) : \E j \in 1..(i - 1) : sent[k][j] = m

\* The counter never runs ahead of the mempool: a failed call burns no nonce.
CounterNotAhead ==
  \A k \in Keys : nonces[k] # NoNonce =>
    \A m \in 0..(nonces[k] - 1) : \E j \in 1..Len(sent[k]) : sent[k][j] = m

Ledger == INSTANCE NonceLedger

\* Whatever the callers and the remote calls do, the node sees a ledger in which each
\* message takes the first nonce that is free, or, in the rough environment only,
\* replaces a message that is still pending.
ImplementsLedger == Ledger!Spec

\* A caller that has started a call returns from it: nlk is released on every
\* error path.
EveryCallReturns == \A c \in Callers : pc[c] = "lock" ~> pc[c] = "idle"
=============================================================================
