-------------------------- MODULE MsgPusher_proofs --------------------------
(***************************************************************************)
(* Proofs about MsgPusher, for any callers, addresses, keys and bound.     *)
(***************************************************************************)
EXTENDS MsgPusher, FiniteSetTheorems, TLAPS

InCall == {"resolve", "actor", "estimate", "push", "accepted"}

\* nlk is held exactly by the caller that is past it, and by nobody when there is none.
Mutex == \A c \in Callers : pc[c] \in InCall <=> nlk = c

\* The caller at work carries the nonce of its key, or asks for a nonce that nobody
\* knows.
Carried ==
  \A c \in Callers :
    /\ pc[c] \in {"estimate", "push", "accepted"} => n[c] = nonces[key(c)]
    /\ pc[c] = "actor" => nonces[key(c)] = NoNonce

\* A counter stands at the number of messages accepted; it is one behind while the
\* caller that pushed the last of them waits for the reply.  A key without a
\* counter has nothing in the mempool that the chain does not know of.
Counted ==
  \A k \in Keys :
    IF nonces[k] = NoNonce
    THEN mined[k] = Len(sent[k])
    ELSE \/ nonces[k] = Len(sent[k]) /\ \A c \in Callers : pc[c] = "accepted" => key(c) # k
         \/ /\ nonces[k] + 1 = Len(sent[k])
            /\ \E c \in Callers : pc[c] = "accepted" /\ key(c) = k

PInv == TypeOK /\ Mutex /\ Carried /\ (calm => Counted) /\ NonceSequence

\* The caller takes the counter of its key, or goes to ask for the nonce.
LEMMA ResolveTypes ==
  ASSUME TypeOK, NEW c \in Callers, Resolve(c)
  PROVE  TypeOK'
<1>1. key(c) \in Keys /\ nonces[key(c)] \in Nat \cup {NoNonce}
  BY NamesAssumption DEF TypeOK, key
<1>2. CASE nonces[key(c)] # NoNonce
  <2>1. n' = [n EXCEPT ![c] = nonces[key(c)]] /\ nonces[key(c)] \in Nat
    BY <1>1, <1>2 DEF Resolve
  <2> QED
    BY <1>2, <2>1 DEF Resolve, TypeOK
<1>3. CASE nonces[key(c)] = NoNonce
  BY <1>3 DEF Resolve, TypeOK
<1> QED
  BY <1>2, <1>3

\* Every step keeps the counters at the number of messages accepted.
LEMMA CalmInvariant == Spec => []PInv
<1> USE NamesAssumption, BoundsAssumption
<1>1. Init => PInv
  BY DEF Init, PInv, TypeOK, Mutex, Carried, Counted, NonceSequence, InCall, key
<1>2. PInv /\ [Next]_vars => PInv'
  <2> SUFFICES ASSUME PInv, [Next]_vars PROVE PInv'
    OBVIOUS
  <2> USE DEF PInv, TypeOK, Mutex, Carried, Counted, NonceSequence, InCall, key
  <2>1. ASSUME NEW c \in Callers, NEW a \in Addrs, Call(c, a) PROVE PInv'
    BY <2>1 DEF Call
  <2>2. ASSUME NEW c \in Callers, Lock(c) PROVE PInv'
    BY <2>2 DEF Lock
  <2>3. ASSUME NEW c \in Callers, Resolve(c) PROVE PInv'
    <3>1. /\ pc[c] = "resolve"
          /\ UNCHANGED <<nlk, nonces, from, sent, mined, calm>>
          /\ \/ /\ nonces[key(c)] # NoNonce
                /\ n' = [n EXCEPT ![c] = nonces[key(c)]]
                /\ pc' = [pc EXCEPT ![c] = "estimate"]
             \/ nonces[key(c)] = NoNonce /\ pc' = [pc EXCEPT ![c] = "actor"] /\ n' = n
      BY <2>3 DEF Resolve
    <3>2. key(c) \in Keys /\ nonces[key(c)] \in Nat \cup {NoNonce}
      OBVIOUS
    <3>3. TypeOK'
      BY <2>3, ResolveTypes
    <3>4. Mutex'
      BY <3>1
    <3>5. Carried'
      BY <3>1
    <3>6. (calm => Counted)'
      BY <3>1
    <3>7. NonceSequence'
      BY <3>1
    <3> QED
      BY <3>3, <3>4, <3>5, <3>6, <3>7
  <2>4. ASSUME NEW c \in Callers, ReadActor(c) PROVE PInv'
    BY <2>4 DEF ReadActor
  <2>5. ASSUME NEW c \in Callers, EstimateAndSign(c) PROVE PInv'
    BY <2>5 DEF EstimateAndSign
  <2>6. ASSUME NEW c \in Callers, RemoteError(c) PROVE PInv'
    BY <2>6 DEF RemoteError, Return
  <2>7. ASSUME NEW c \in Callers, NodeAccepts(c) PROVE PInv'
    BY <2>7 DEF NodeAccepts
  <2>8. ASSUME NEW c \in Callers, PushReturns(c) PROVE PInv'
    BY <2>8 DEF PushReturns, Return
  <2>9. ASSUME NEW c \in Callers, ReplyLost(c) PROVE PInv'
    BY <2>9 DEF ReplyLost, Return
  <2>10. ASSUME NEW k \in Keys, Mine(k) PROVE PInv'
    <3>1. /\ UNCHANGED <<nlk, nonces, pc, from, n, sent, calm>>
          /\ mined' = [mined EXCEPT ![k] = mined[k] + 1]
      BY <2>10 DEF Mine
    <3>2. TypeOK' /\ Mutex' /\ Carried' /\ NonceSequence'
      BY <3>1
    <3>3. ASSUME calm PROVE nonces[k] # NoNonce
      <4>1. PICK i \in 1..Len(sent[k]) : sent[k][i] = mined[k]
        BY <2>10 DEF Mine
      <4>2. mined[k] = i - 1
        BY <3>3, <4>1
      <4>3. mined[k] # Len(sent[k])
        BY <4>1, <4>2
      <4> QED
        BY <3>3, <4>3
    <3>4. (calm => Counted)'
      <4> SUFFICES ASSUME calm PROVE Counted'
        BY <3>1
      <4>1. \A l \in Keys : nonces[l] = NoNonce => mined'[l] = mined[l]
        BY <3>1, <3>3
      <4> QED
        BY <3>1, <4>1
    <3> QED
      BY <3>2, <3>4
  <2>11. CASE Restart
    BY <2>11 DEF Restart
  <2>12. CASE UNCHANGED vars
    BY <2>12 DEF vars
  <2> QED
    BY <2>1, <2>2, <2>3, <2>4, <2>5, <2>6, <2>7, <2>8, <2>9, <2>10, <2>11, <2>12
       DEF Next, CallerStep
<1> QED
  BY <1>1, <1>2, PTL DEF Spec

\* The messages of a key carry 0, 1, 2, ... as long as no reply is lost and the process
\* restarts only with an empty mempool.
THEOREM NonceSequenceHolds == Spec => []NonceSequence
<1>1. PInv => NonceSequence
  BY DEF PInv
<1> QED
  BY <1>1, CalmInvariant, PTL

(***************************************************************************)
(* Any environment: replies are lost, and the process restarts with        *)
(* messages in the mempool.                                                *)
(***************************************************************************)

\* The node has accepted a message of the key with this nonce.
Had(k, m) == \E j \in 1..Len(sent[k]) : sent[k][j] = m

\* Nothing is mined, counted or accepted before all the nonces below it were accepted,
\* and a caller whose message was accepted may count it.
Backed ==
  /\ \A k \in Keys : \A m \in Nat : m < mined[k] => Had(k, m)
  /\ \A k \in Keys : nonces[k] # NoNonce => \A m \in Nat : m < nonces[k] => Had(k, m)
  /\ \A c \in Callers : pc[c] = "accepted" => Had(key(c), n[c])

GInv == TypeOK /\ Mutex /\ Carried /\ Backed /\ NoNonceGap

\* The steps that leave the node's mempool alone: what it had, it has.
LEMMA BackedUntouched ==
  ASSUME GInv, [Next]_vars, UNCHANGED sent,
         \A k \in Keys : \A m \in Nat : m < mined'[k] => Had(k, m),
         \A k \in Keys : nonces'[k] # NoNonce => \A m \in Nat : m < nonces'[k] => Had(k, m),
         \A c \in Callers : pc'[c] = "accepted" => Had(KeyOf[from'[c]], n'[c])
  PROVE  Backed' /\ NoNonceGap'
  BY DEF GInv, Backed, NoNonceGap, Had, key

\* The mutex, the carried nonce and the types do not depend on what the node has.
LEMMA Working == GInv /\ [Next]_vars => TypeOK' /\ Mutex' /\ Carried'
<1> SUFFICES ASSUME GInv, [Next]_vars PROVE TypeOK' /\ Mutex' /\ Carried'
  OBVIOUS
<1> USE NamesAssumption, BoundsAssumption DEF GInv, TypeOK, Mutex, Carried, InCall, key
<1>1. ASSUME NEW c \in Callers, NEW a \in Addrs, Call(c, a)
      PROVE  TypeOK' /\ Mutex' /\ Carried'
  BY <1>1 DEF Call
<1>2. ASSUME NEW c \in Callers, Lock(c) PROVE TypeOK' /\ Mutex' /\ Carried'
  BY <1>2 DEF Lock
<1>3. ASSUME NEW c \in Callers, Resolve(c) PROVE TypeOK' /\ Mutex' /\ Carried'
  <2>1. /\ pc[c] = "resolve"
        /\ UNCHANGED <<nlk, nonces, from, sent, mined, calm>>
        /\ \/ /\ nonces[key(c)] # NoNonce
              /\ n' = [n EXCEPT ![c] = nonces[key(c)]]
              /\ pc' = [pc EXCEPT ![c] = "estimate"]
           \/ nonces[key(c)] = NoNonce /\ pc' = [pc EXCEPT ![c] = "actor"] /\ n' = n
    BY <1>3 DEF Resolve
  <2>2. key(c) \in Keys /\ nonces[key(c)] \in Nat \cup {NoNonce}
    OBVIOUS
  <2>3. TypeOK'
    BY <1>3, ResolveTypes
  <2>4. Mutex'
    BY <2>1
  <2>5. Carried'
    BY <2>1
  <2> QED
    BY <2>3, <2>4, <2>5
<1>4. ASSUME NEW c \in Callers, ReadActor(c) PROVE TypeOK' /\ Mutex' /\ Carried'
  BY <1>4 DEF ReadActor
<1>5. ASSUME NEW c \in Callers, EstimateAndSign(c) PROVE TypeOK' /\ Mutex' /\ Carried'
  BY <1>5 DEF EstimateAndSign
<1>6. ASSUME NEW c \in Callers, RemoteError(c) PROVE TypeOK' /\ Mutex' /\ Carried'
  BY <1>6 DEF RemoteError, Return
<1>7. ASSUME NEW c \in Callers, NodeAccepts(c) PROVE TypeOK' /\ Mutex' /\ Carried'
  BY <1>7 DEF NodeAccepts
<1>8. ASSUME NEW c \in Callers, PushReturns(c) PROVE TypeOK' /\ Mutex' /\ Carried'
  BY <1>8 DEF PushReturns, Return
<1>9. ASSUME NEW c \in Callers, ReplyLost(c) PROVE TypeOK' /\ Mutex' /\ Carried'
  BY <1>9 DEF ReplyLost, Return
<1>10. ASSUME NEW k \in Keys, Mine(k) PROVE TypeOK' /\ Mutex' /\ Carried'
  BY <1>10 DEF Mine
<1>11. CASE Restart
  BY <1>11 DEF Restart
<1>12. CASE UNCHANGED vars
  BY <1>12 DEF vars
<1> QED
  BY <1>1, <1>2, <1>3, <1>4, <1>5, <1>6, <1>7, <1>8, <1>9, <1>10, <1>11, <1>12
     DEF Next, CallerStep

\* The one step that adds to the mempool adds at the end, and what a counter stands
\* at, so that everything below is there already.
LEMMA AcceptedBacked ==
  ASSUME GInv, NEW c \in Callers, NodeAccepts(c)
  PROVE  Backed' /\ NoNonceGap'
<1> USE DEF GInv, TypeOK
<1>0. PICK k \in Keys : k = key(c)
  BY NamesAssumption DEF key
<1>1. /\ n[c] \in Nat /\ n[c] = nonces[k] /\ n[c] # NoNonce
      /\ sent[k] \in Seq(Nat) /\ sent' = [sent EXCEPT ![k] = Append(sent[k], n[c])]
      /\ UNCHANGED <<nlk, nonces, from, n, mined, calm>>
      /\ pc' = [pc EXCEPT ![c] = "accepted"]
  BY <1>0, NamesAssumption DEF NodeAccepts, Carried, key
<1>2. /\ Len(sent'[k]) = Len(sent[k]) + 1 /\ sent'[k][Len(sent[k]) + 1] = n[c]
      /\ \A j \in 1..Len(sent[k]) : sent'[k][j] = sent[k][j]
      /\ \A l \in Keys \ {k} : sent'[l] = sent[l]
  BY <1>1
<1>3. \A l \in Keys : \A m \in Nat : Had(l, m) => Had(l, m)'
  BY <1>1, <1>2 DEF Had
<1>4. \A m \in Nat : m = n[c] => Had(k, m)'
  BY <1>1, <1>2 DEF Had
<1>5. Backed'
  <2>1. \A l \in Keys : \A m \in Nat : m < mined[l] => Had(l, m)'
    BY <1>3 DEF Backed
  <2>2. \A l \in Keys : nonces[l] # NoNonce => \A m \in Nat : m < nonces[l] => Had(l, m)'
    BY <1>3 DEF Backed
  <2>3. ASSUME NEW d \in Callers, pc'[d] = "accepted"
        PROVE  \E j \in 1..Len(sent'[key(d)]) : sent'[key(d)][j] = n[d]
    <3>1. key(d) \in Keys /\ n[d] \in Nat
      BY NamesAssumption DEF key
    <3>2. CASE d = c
      BY <3>2, <1>0, <1>1, <1>4 DEF Had
    <3>3. CASE d # c
      <4>1. pc[d] = "accepted"
        BY <3>3, <2>3, <1>1
      <4>2. Had(key(d), n[d])
        BY <4>1 DEF Backed
      <4> QED
        BY <3>1, <4>2, <1>3 DEF Had
    <3> QED
      BY <3>2, <3>3
  <2>4. \A d \in Callers : pc'[d] = "accepted" => Had(key(d), n[d])'
    <3>1. \A d \in Callers : key(d)' = key(d) /\ n'[d] = n[d]
      BY <1>1 DEF key
    <3> SUFFICES ASSUME NEW d \in Callers, pc'[d] = "accepted"
                 PROVE  Had(key(d), n[d])'
      OBVIOUS
    <3>2. Had(key(d), n[d])' <=>
            \E j \in 1..Len(sent'[key(d)']) : sent'[key(d)'][j] = n'[d]
      BY DEF Had
    <3> QED
      BY <2>3, <3>1, <3>2
  <2>5. mined' = mined /\ nonces' = nonces
    BY <1>1
  <2> QED
    BY <2>1, <2>2, <2>4, <2>5 DEF Backed
<1>6. NoNonceGap'
  <2> SUFFICES ASSUME NEW l \in Keys, NEW i \in 1..Len(sent'[l]), NEW m \in 0..(sent'[l][i] - 1)
               PROVE  \E j \in 1..(i - 1) : sent'[l][j] = m
    BY DEF NoNonceGap
  <2>1. CASE l # k
    <3>1. sent'[l] = sent[l]
      BY <2>1, <1>2
    <3>2. i \in 1..Len(sent[l]) /\ m \in 0..(sent[l][i] - 1)
      BY <3>1
    <3> QED
      BY <3>1, <3>2 DEF NoNonceGap
  <2>2. CASE l = k /\ i \in 1..Len(sent[k])
    <3>1. sent'[k][i] = sent[k][i]
      BY <2>2, <1>2
    <3>2. PICK j \in 1..(i - 1) : sent[k][j] = m
      BY <2>2, <3>1, <1>1 DEF NoNonceGap
    <3> QED
      BY <2>2, <3>2, <1>2, <1>1
  <2>3. CASE l = k /\ i = Len(sent[k]) + 1
    <3>1. m \in Nat /\ m < nonces[k]
      BY <2>3, <1>1, <1>2
    <3>2. PICK j \in 1..Len(sent[k]) : sent[k][j] = m
      BY <3>1, <1>1 DEF Backed, Had
    <3> QED
      BY <2>3, <3>2, <1>1, <1>2
  <2> QED
    BY <2>1, <2>2, <2>3, <1>1, <1>2
<1> QED
  BY <1>5, <1>6

\* Every step keeps the nonces without gaps.
LEMMA GapInvariant == Spec => []GInv
<1> USE NamesAssumption, BoundsAssumption
<1>1. Init => GInv
  BY DEF Init, GInv, TypeOK, Mutex, Carried, Backed, Had, NoNonceGap, InCall, key
<1>2. GInv /\ [Next]_vars => GInv'
  <2> SUFFICES ASSUME GInv, [Next]_vars PROVE Backed' /\ NoNonceGap'
    BY Working DEF GInv
  <2> USE DEF GInv, TypeOK, key
  <2>1. ASSUME NEW c \in Callers, NEW a \in Addrs, Call(c, a) PROVE Backed' /\ NoNonceGap'
    BY <2>1, BackedUntouched DEF Call, Backed
  <2>2. ASSUME NEW c \in Callers, Lock(c) PROVE Backed' /\ NoNonceGap'
    BY <2>2, BackedUntouched DEF Lock, Backed
  <2>3. ASSUME NEW c \in Callers, Resolve(c) PROVE Backed' /\ NoNonceGap'
    BY <2>3, BackedUntouched DEF Resolve, Backed
  <2>4. ASSUME NEW c \in Callers, ReadActor(c) PROVE Backed' /\ NoNonceGap'
    BY <2>4, BackedUntouched DEF ReadActor, Backed
  <2>5. ASSUME NEW c \in Callers, EstimateAndSign(c) PROVE Backed' /\ NoNonceGap'
    BY <2>5, BackedUntouched DEF EstimateAndSign, Backed
  <2>6. ASSUME NEW c \in Callers, RemoteError(c) PROVE Backed' /\ NoNonceGap'
    BY <2>6, BackedUntouched DEF RemoteError, Return, Backed
  <2>7. ASSUME NEW c \in Callers, NodeAccepts(c) PROVE Backed' /\ NoNonceGap'
    BY <2>7, AcceptedBacked
  <2>8. ASSUME NEW c \in Callers, PushReturns(c) PROVE Backed' /\ NoNonceGap'
    BY <2>8, BackedUntouched DEF PushReturns, Return, Backed, Carried
  <2>9. ASSUME NEW c \in Callers, ReplyLost(c) PROVE Backed' /\ NoNonceGap'
    BY <2>9, BackedUntouched DEF ReplyLost, Return, Backed
  <2>10. ASSUME NEW k \in Keys, Mine(k) PROVE Backed' /\ NoNonceGap'
    <3>1. /\ UNCHANGED <<nonces, pc, from, n, sent>>
          /\ mined' = [mined EXCEPT ![k] = mined[k] + 1]
          /\ Had(k, mined[k])
      BY <2>10 DEF Mine, Had
    <3>2. \A l \in Keys : \A m \in Nat : m < mined'[l] => Had(l, m)
      <4> SUFFICES ASSUME NEW l \in Keys, NEW m \in Nat, m < mined'[l] PROVE Had(l, m)
        OBVIOUS
      <4>1. m < mined[l] \/ (l = k /\ m = mined[k])
        BY <3>1
      <4> QED
        BY <4>1, <3>1 DEF Backed
    <3> QED
      BY <3>1, <3>2, BackedUntouched DEF Backed
  <2>11. CASE Restart
    BY <2>11, BackedUntouched DEF Restart, Backed
  <2>12. CASE UNCHANGED vars
    BY <2>12, BackedUntouched DEF vars, Backed
  <2> QED
    BY <2>1, <2>2, <2>3, <2>4, <2>5, <2>6, <2>7, <2>8, <2>9, <2>10, <2>11, <2>12
       DEF Next, CallerStep
<1> QED
  BY <1>1, <1>2, PTL DEF Spec

\* In any environment and after any error nlk is held by a caller that is in the middle
\* of a call, and by no other: no return leaves it locked.
THEOREM LockIsReleasedHolds == Spec => []Mutex
<1>1. GInv => Mutex
  BY DEF GInv
<1> QED
  BY <1>1, GapInvariant, PTL

\* Every variable keeps to its values.
THEOREM TypeCorrect == Spec => []TypeOK
<1>1. GInv => TypeOK
  BY DEF GInv
<1> QED
  BY <1>1, GapInvariant, PTL

\* Even when replies are lost and the process restarts with messages pending, no
\* message is pushed above a nonce that nobody will use.
THEOREM NoNonceGapHolds == Spec => []NoNonceGap
<1>1. GInv => NoNonceGap
  BY DEF GInv
<1> QED
  BY <1>1, GapInvariant, PTL

\* In any environment every nonce below the counter of a key belongs to a message
\* the node has accepted: a failed call burns none.
THEOREM CounterNotAheadHolds == Spec => []CounterNotAhead
<1>1. GInv => CounterNotAhead
  <2> SUFFICES ASSUME GInv, NEW k \in Keys, nonces[k] # NoNonce, NEW m \in 0..(nonces[k] - 1)
               PROVE  \E j \in 1..Len(sent[k]) : sent[k][j] = m
    BY DEF CounterNotAhead
  <2>1. m \in Nat /\ m < nonces[k]
    BY DEF GInv, TypeOK
  <2> QED
    BY <2>1 DEF GInv, Backed, Had
<1> QED
  BY <1>1, GapInvariant, PTL

(***************************************************************************)
(* The refinement: what the node sees is a ledger.                         *)
(***************************************************************************)

\* In the calm environment a caller that is about to push carries the number of
\* messages accepted, which nobody has taken.
LEMMA CalmIsFresh ==
  ASSUME PInv, calm, NEW c \in Callers, pc[c] = "push"
  PROVE  n[c] \notin Ledger!Taken(key(c))
<1> USE DEF PInv, TypeOK
<1>1. key(c) \in Keys /\ n[c] = nonces[key(c)] /\ n[c] \in Nat /\ n[c] # NoNonce
  BY NamesAssumption DEF Carried, key
<1>2. \A d \in Callers : pc[d] # "accepted"
  BY DEF Mutex, InCall
<1>3. n[c] = Len(sent[key(c)])
  BY <1>1, <1>2 DEF Counted
<1>4. \A i \in 1..Len(sent[key(c)]) : sent[key(c)][i] = i - 1
  BY <1>1 DEF NonceSequence
<1>5. sent[key(c)] \in Seq(Nat)
  BY <1>1
<1> QED
  BY <1>3, <1>4, <1>5 DEF Ledger!Taken

\* The ledger counts as this module does.
LEMMA LedgerCounts == \A S : Ledger!Cardinality(S) = Cardinality(S)
  BY Zenon DEF Ledger!Cardinality, Cardinality, Ledger!IsFiniteSet, IsFiniteSet

\* A nonce that nobody has taken, when all those below it are, is the number of those
\* that are: none is taken above it, because that would leave a gap.
LEMMA FreshIsFirst ==
  ASSUME GInv, NEW k \in Keys, NEW m \in Nat, m \notin Ledger!Taken(k),
         \A l \in Nat : l < m => Had(k, l)
  PROVE  Cardinality(Ledger!Taken(k)) = m
<1>1. sent[k] \in Seq(Nat)
  BY DEF GInv, TypeOK
<1>2. \A l \in Nat : l < m => l \in Ledger!Taken(k)
  BY DEF Had, Ledger!Taken
<1>3. ASSUME NEW l \in Ledger!Taken(k) PROVE l \in Nat /\ l < m
  <2>1. PICK i \in 1..Len(sent[k]) : l = sent[k][i]
    BY <1>3 DEF Ledger!Taken
  <2>2. l \in Nat
    BY <1>1, <2>1
  <2>3. ~(m < l)
    <3>1. SUFFICES ASSUME m < l PROVE FALSE
      OBVIOUS
    <3>2. m \in 0..(sent[k][i] - 1)
      BY <2>1, <2>2, <3>1
    <3>3. PICK j \in 1..(i - 1) : sent[k][j] = m
      BY <2>1, <3>2 DEF GInv, NoNonceGap
    <3>4. j \in 1..Len(sent[k])
      BY <1>1, <2>1, <3>3
    <3> QED
      BY <3>3, <3>4 DEF Ledger!Taken
  <2>4. l # m
    BY <1>3
  <2> QED
    BY <2>2, <2>3, <2>4
<1>4. Ledger!Taken(k) = 0..(m - 1)
  <2>1. \A l \in Nat : l < m => l \in Ledger!Taken(k)
    BY <1>2
  <2>2. \A l : l \in 0..(m - 1) <=> l \in Nat /\ l < m
    OBVIOUS
  <2> QED
    BY <2>1, <2>2, <1>3, Zenon
<1>5. Cardinality(0..(m - 1)) = IF 0 > m - 1 THEN 0 ELSE m - 1 - 0 + 1
  BY FS_Interval
<1> QED
  BY <1>4, <1>5

\* A message that the node accepts extends the ledger or replaces a pending message.
LEMMA AcceptedIsLedger ==
  ASSUME GInv, PInv, NEW c \in Callers, NodeAccepts(c)
  PROVE  Ledger!Next
<1>0. PICK k \in Keys : k = key(c)
  BY NamesAssumption DEF key, GInv, TypeOK
<1>1. /\ pc[c] = "push" /\ n[c] \in Nat /\ n[c] >= mined[k] /\ n[c] = nonces[k]
      /\ n[c] # NoNonce
      /\ sent' = [sent EXCEPT ![k] = Append(sent[k], n[c])] /\ UNCHANGED <<mined, calm>>
  BY <1>0, NamesAssumption DEF NodeAccepts, GInv, TypeOK, Carried
<1>2. Ledger!Accept(k, n[c])
  BY <1>1 DEF Ledger!Accept
<1>3. CASE n[c] \notin Ledger!Taken(k)
  <2>1. \A m \in Nat : m < n[c] => Had(k, m)
    BY <1>1 DEF GInv, Backed
  <2>2. Cardinality(Ledger!Taken(k)) = n[c]
    BY <1>1, <1>3, <2>1, FreshIsFirst
  <2> QED
    BY <1>1, <1>2, <2>2, LedgerCounts, Zenon DEF Ledger!Next, Ledger!Extend
<1>4. CASE n[c] \in Ledger!Taken(k)
  <2>1. ~calm
    BY <1>0, <1>1, <1>4, CalmIsFresh
  <2> QED
    BY <1>1, <1>2, <1>4, <2>1 DEF Ledger!Next, Ledger!Replace
<1> QED
  BY <1>3, <1>4

\* For any callers, keys and addresses, in either environment, every step of the pusher,
\* the node and the process is a step of the ledger or leaves the ledger alone.
THEOREM ImplementsLedgerHolds == Spec => ImplementsLedger
<1>1. Init => Ledger!Init
  BY DEF Init, Ledger!Init
<1>2. GInv /\ PInv /\ [Next]_vars => [Ledger!Next]_(Ledger!vars)
  <2> SUFFICES ASSUME GInv, PInv, [Next]_vars
               PROVE  Ledger!Next \/ UNCHANGED <<sent, mined, calm>>
    BY DEF Ledger!vars
  <2>1. ASSUME NEW c \in Callers, NEW a \in Addrs, Call(c, a)
        PROVE  UNCHANGED <<sent, mined, calm>>
    BY <2>1 DEF Call
  <2>2. ASSUME NEW c \in Callers, CallerStep(c)
        PROVE  Ledger!Next \/ UNCHANGED <<sent, mined, calm>>
    <3>1. CASE NodeAccepts(c)
      BY <3>1, AcceptedIsLedger
    <3>2. CASE ~NodeAccepts(c)
      BY <2>2, <3>2 DEF CallerStep, Lock, Resolve, ReadActor, EstimateAndSign, RemoteError,
                        PushReturns, ReplyLost
    <3> QED
      BY <3>1, <3>2
  <2>3. ASSUME NEW k \in Keys, Mine(k) PROVE Ledger!Next
    <3>1. mined[k] \in Ledger!Taken(k)
      BY <2>3 DEF Mine, Ledger!Taken
    <3> QED
      BY <2>3, <3>1 DEF Mine, Ledger!Next, Ledger!Mine
  <2>4. CASE Restart
    BY <2>4 DEF Restart
  <2>5. CASE UNCHANGED vars
    BY <2>5 DEF vars
  <2> QED
    BY <2>1, <2>2, <2>3, <2>4, <2>5 DEF Next
<1> QED
  BY <1>1, <1>2, GapInvariant, CalmInvariant, PTL DEF Spec, ImplementsLedger, Ledger!Spec
=============================================================================
