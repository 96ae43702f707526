----------------------- MODULE RetrievalAttempts_proofs -----------------------
(***************************************************************************)
(* Proofs about RetrievalAttempts, for any candidates, any offers and any  *)
(* number of providers found by the search.                                *)
(*                                                                         *)
(* A candidate is accounted for in one of four places: its query is under  *)
(* way, its answer waits in queries, it was tried, or its query failed.    *)
(* It is in one of them only, and the sort, a permutation of queries,      *)
(* neither adds nor drops nor repeats one.                                 *)
(***************************************************************************)
EXTENDS RetrievalAttempts, FiniteSetTheorems, TLAPS

\* s has no candidate twice.
NoRepeats(s) == \A i, j \in 1..Len(s) : s[i] = s[j] => i = j

\* The Filecoin attempt is the last one of every list, and the command is at its
\* places only while it is the attempt at hand.
Turn ==
  /\ pc \in {"wait", "try", "retrieve"} => attempts = <<"fil">>
  /\ pc \in {"ready", "walk"} => attempts \in {<<"ipfs">>, <<"ipfs", "fil">>}
  /\ result \in Candidates => pc = "returned"
  /\ result = "failed" => attempts = <<>>
  /\ pc \in {"next", "ready", "walk"} /\ attempts # <<>> =>
       \A c \in Candidates : qpc[c] = "none"

\* No goroutine of a query outlives the wait for all of them.
Waited == pc # "wait" => \A c \in Candidates : qpc[c] \in {"none", "done"}

\* Each candidate stands in one place.
Apart ==
  /\ NoRepeats(queries) /\ NoRepeats(tried)
  /\ \A c \in Candidates : ~(InSeq(c, queries) /\ InSeq(c, tried))
  /\ \A c \in Candidates : qpc[c] # "done" => ~InSeq(c, queries) /\ ~InSeq(c, tried)

\* A candidate that answered is kept in view.
Accounted ==
  \A c \in Candidates : InSeq("query-asked", pub[c]) =>
    qpc[c] = "collect" \/ InSeq(c, queries) \/ InSeq(c, tried)

\* Nothing is left to try when the Filecoin attempt is given up or not begun.
Exhausted == pc \in {"next", "ready", "walk"} \/ result = "failed" => queries = <<>>

\* The candidate at hand, and the one reported, is the last one tried.
LastTried ==
  /\ pc = "retrieve" => tried # <<>> /\ trying = tried[Len(tried)]
  /\ result \in Candidates => tried # <<>> /\ result = tried[Len(tried)]

QueryEvents == {"connected", "query-asked", "failure"}
Published == pub \in [Candidates -> Seq(QueryEvents)]

RInv ==
  /\ TypeOK /\ Published
  /\ Turn /\ Waited /\ Apart /\ Accounted /\ Exhausted /\ LastTried

-----------------------------------------------------------------------------
(* Sequences of candidates, and the sort.                                    *)

\* What Append adds, and when it keeps a sequence without repetitions.
LEMMA AppendIs ==
  ASSUME NEW S, NEW q \in Seq(S), NEW c \in S
  PROVE  /\ Append(q, c) \in Seq(S)
         /\ \A x : InSeq(x, Append(q, c)) <=> InSeq(x, q) \/ x = c
         /\ NoRepeats(q) /\ ~InSeq(c, q) => NoRepeats(Append(q, c))
         /\ Append(q, c) # <<>> /\ Append(q, c)[Len(Append(q, c))] = c
<1> DEFINE r == Append(q, c)
<1>1. Len(r) = Len(q) + 1 /\ Len(q) \in Nat
  OBVIOUS
<1>2. r[Len(q) + 1] = c /\ \A i \in 1..Len(q) : r[i] = q[i]
  OBVIOUS
<1>3. \A x : InSeq(x, r) <=> InSeq(x, q) \/ x = c
  BY <1>1, <1>2 DEF InSeq
<1>4. NoRepeats(q) /\ ~InSeq(c, q) => NoRepeats(r)
  BY <1>1, <1>2 DEF InSeq, NoRepeats
<1> QED
  BY <1>1, <1>2, <1>3, <1>4

\* What Tail leaves, and that the head is gone with it.
LEMMA TailIs ==
  ASSUME NEW S, NEW q \in Seq(S), q # <<>>
  PROVE  /\ Head(q) \in S /\ Tail(q) \in Seq(S) /\ InSeq(Head(q), q)
         /\ \A x : InSeq(x, q) <=> x = Head(q) \/ InSeq(x, Tail(q))
         /\ NoRepeats(q) => NoRepeats(Tail(q)) /\ ~InSeq(Head(q), Tail(q))
<1> DEFINE r == Tail(q)
<1>1. /\ r \in Seq(S) /\ Len(r) = Len(q) - 1 /\ Len(q) \in Nat /\ Len(q) > 0
      /\ Head(q) = q[1] /\ Head(q) \in S
  OBVIOUS
<1>2. \A i \in 1..Len(r) : r[i] = q[i + 1]
  OBVIOUS
<1>3. \A x : InSeq(x, q) <=> x = Head(q) \/ InSeq(x, r)
  <2>1. ASSUME NEW x, InSeq(x, r) PROVE InSeq(x, q)
    BY <1>1, <1>2, <2>1 DEF InSeq
  <2>2. ASSUME NEW x, InSeq(x, q), x # Head(q) PROVE InSeq(x, r)
    <3>1. PICK i \in 1..Len(q) : q[i] = x
      BY <2>2 DEF InSeq
    <3>2. i - 1 \in 1..Len(r) /\ r[i - 1] = x
      BY <1>1, <1>2, <2>2, <3>1
    <3> QED
      BY <3>2 DEF InSeq
  <2>3. InSeq(Head(q), q)
    BY <1>1 DEF InSeq
  <2> QED
    BY <2>1, <2>2, <2>3
<1>4. NoRepeats(q) => NoRepeats(r) /\ ~InSeq(Head(q), r)
  BY <1>1, <1>2 DEF InSeq, NoRepeats
<1> QED
  BY <1>1, <1>3, <1>4

\* The sort returns a permutation: as many entries as there are candidates, none
\* twice, are all of them.
LEMMA SortPermutes ==
  ASSUME NEW q \in Seq(Candidates), NoRepeats(q), NEW r \in SortedBy(q)
  PROVE  /\ r \in Seq(Candidates) /\ NoRepeats(r)
         /\ \A x : InSeq(x, r) <=> InSeq(x, q)
<1> DEFINE places == 1..Len(q)
           range == {q[i] : i \in places}
<1>1. /\ Len(q) \in Nat /\ IsFiniteSet(places)
      /\ q \in [places -> range] /\ range \subseteq Candidates
  <2>1. Len(q) \in Nat
    OBVIOUS
  <2>2. IsFiniteSet(places)
    BY <2>1, FS_Interval
  <2> QED
    BY <2>1, <2>2
<1>2. /\ r \in [places -> range]
      /\ \A i, j \in places : i # j => r[i] # r[j]
  BY DEF SortedBy
<1>3. r \in Seq(Candidates) /\ Len(r) = Len(q)
  BY <1>1, <1>2
<1>4. q \in Bijection(places, range)
  BY <1>1 DEF NoRepeats, Bijection, Injection, Surjection, IsInjective
<1>5. IsFiniteSet(range) /\ Cardinality(range) = Cardinality(places)
  BY <1>1, <1>4, FS_Bijection DEF ExistsBijection
<1>6. r \in Injection(places, range)
  BY <1>2 DEF Injection, IsInjective
<1>7. r \in Surjection(places, range)
  BY <1>5, <1>6, FS_Injection
<1>8. \A x : InSeq(x, r) <=> InSeq(x, q)
  <2>1. ASSUME NEW x, InSeq(x, r) PROVE InSeq(x, q)
    <3>1. PICK i \in places : r[i] = x
      BY <1>3, <2>1 DEF InSeq
    <3>2. x \in range
      BY <1>2, <3>1
    <3> QED
      BY <3>2 DEF InSeq
  <2>2. ASSUME NEW x, InSeq(x, q) PROVE InSeq(x, r)
    <3>1. x \in range
      BY <2>2 DEF InSeq
    <3>2. PICK i \in places : r[i] = x
      BY <1>7, <3>1 DEF Surjection
    <3> QED
      BY <1>3, <3>2 DEF InSeq
  <2> QED
    BY <2>1, <2>2
<1> QED
  BY <1>2, <1>3, <1>8 DEF NoRepeats

-----------------------------------------------------------------------------
(* Types.                                                                    *)

\* What is left after a failed attempt.
LEMMA TailOfRemainder ==
  /\ Tail(<<"ipfs", "fil">>) = <<"fil">>
  /\ Tail(<<"ipfs">>) = <<>> /\ Tail(<<"fil">>) = <<>>
<1>1. \A a, b : Tail(<<a, b>>) = <<b>> /\ Tail(<<a>>) = <<>>
  OBVIOUS
<1> QED
  BY <1>1

\* Dropping the attempt at hand leaves a list the command can be at.
LEMMA RemainderLeft ==
  ASSUME NEW a \in Remainders, a # <<>>
  PROVE  Tail(a) \in Remainders
<1>1. a \in {<<"ipfs", "fil">>, <<"ipfs">>, <<"fil">>}
  BY Zenon DEF Remainders
<1> QED
  BY <1>1, TailOfRemainder, Zenon DEF Remainders

\* An attempt that is under way has not been given up.
LEMMA AtHand ==
  ASSUME Turn, pc \in {"ready", "walk", "wait", "try", "retrieve"}
  PROVE  attempts # <<>>
<1>1. \A a, b : <<a>> # <<>> /\ <<a, b>> # <<>>
  OBVIOUS
<1>2. attempts = <<"fil">> \/ attempts = <<"ipfs">> \/ attempts = <<"ipfs", "fil">>
  BY Zenon DEF Turn
<1> QED
  BY <1>1, <1>2, Zenon

\* The steps of the command take no more than types, but for the order of the
\* attempts and the sort, a permutation of distinct candidates.
LEMMA CommandTypes ==
  ASSUME TypeOK, Turn, Apart, LastTried, Command
  PROVE  TypeOK'
<1> USE DEF TypeOK, ipfsvars, filvars, FailAttempt, Succeed
<1>1. attempts # <<>> => Tail(attempts) \in Remainders
  BY RemainderLeft
<1>2. CASE StartIPFS
  BY <1>2 DEF StartIPFS
<1>3. CASE StartFIL
  BY <1>1, <1>3 DEF StartFIL
<1>4. CASE GiveUp
  BY <1>4 DEF GiveUp
<1>5. CASE IPFSReady
  <2>1. attempts # <<>>
    BY <1>5, AtHand DEF IPFSReady
  <2>2. ready' = ready \/ ready' = <<>>
    BY <1>5 DEF IPFSReady
  <2>3. ready' \in Seq(BOOLEAN) /\ Len(ready') <= 1
    <3>1. CASE ready' = ready
      BY <3>1
    <3>2. CASE ready' = <<>>
      BY <3>2
    <3> QED
      BY <2>2, <3>1, <3>2
  <2>4. attempts' \in Remainders
    BY <1>1, <1>5, <2>1 DEF IPFSReady
  <2> QED
    BY <1>5, <2>3, <2>4 DEF IPFSReady
<1>6. CASE IPFSWalk
  <2>1. attempts # <<>>
    BY <1>6, AtHand DEF IPFSWalk
  <2> QED
    BY <1>1, <1>6, <2>1 DEF IPFSWalk
<1>7. CASE Collected
  <2>1. attempts # <<>>
    BY <1>7, AtHand DEF Collected
  <2>2. queries # <<>> => queries' \in Seq(Candidates)
    BY <1>7, SortPermutes DEF Collected, Apart
  <2> QED
    BY <1>1, <1>7, <2>1, <2>2 DEF Collected
<1>8. CASE TryNext
  <2>1. attempts # <<>>
    BY <1>8, AtHand DEF TryNext
  <2>2. CASE queries = <<>>
    BY <1>1, <1>8, <2>1, <2>2 DEF TryNext
  <2>3. CASE queries # <<>>
    <3>0. queries \in Seq(Candidates)
      OBVIOUS
    <3>1. Head(queries) \in Candidates /\ Tail(queries) \in Seq(Candidates)
      BY <2>3, <3>0, TailIs, Zenon
    <3>2. tried' \in Seq(Candidates)
      <4>1. tried \in Seq(Candidates) /\ tried' = Append(tried, Head(queries))
        BY <1>8, <2>3 DEF TryNext
      <4> QED
        BY <3>1, <4>1, AppendIs, Zenon
    <3> QED
      BY <1>8, <2>3, <3>1, <3>2 DEF TryNext
  <2> QED
    BY <2>2, <2>3
<1>9. CASE RetrieveReturns
  <2>1. trying \in Candidates
    <3>1. Len(tried) \in 1..Len(tried) /\ trying = tried[Len(tried)]
      BY <1>9 DEF RetrieveReturns, LastTried
    <3> QED
      BY <3>1
  <2> QED
    BY <1>9, <2>1 DEF RetrieveReturns
<1> QED
  BY <1>2, <1>3, <1>4, <1>5, <1>6, <1>7, <1>8, <1>9 DEF Command

\* The search, the queries and the user keep the types.
LEMMA OtherTypes ==
  ASSUME TypeOK, Search \/ Cancel \/ (\E c \in Candidates : Query(c)) \/ UNCHANGED vars
  PROVE  TypeOK'
<1> USE ConstantsAssumption DEF TypeOK, ipfsvars, filvars
<1>1. CASE SearchFinds \/ SearchExhausted \/ SearchCancelled
  BY <1>1 DEF SearchFinds, SearchExhausted, SearchCancelled
<1>2. CASE SearchSends
  <2>1. (spc = "sendTrue") \in BOOLEAN
    OBVIOUS
  <2>2. ready' \in Seq(BOOLEAN) /\ Len(ready') = 1
    BY <1>2, <2>1 DEF SearchSends
  <2> QED
    BY <1>2, <2>2 DEF SearchSends
<1>3. ASSUME NEW c \in Candidates, Query(c) PROVE TypeOK'
  <2>1. CASE QueryConnects(c)
    BY <2>1 DEF QueryConnects
  <2>2. CASE QueryAsks(c)
    BY <2>2 DEF QueryAsks
  <2>3. CASE QueryCollects(c)
    BY <2>3 DEF QueryCollects
  <2> QED
    BY <1>3, <2>1, <2>2, <2>3 DEF Query
<1>4. CASE Cancel
  BY <1>4 DEF Cancel
<1>5. CASE UNCHANGED vars
  BY <1>5 DEF vars
<1> QED
  BY <1>1, <1>2, <1>3, <1>4, <1>5 DEF Search

-----------------------------------------------------------------------------
(* The invariant, action by action.                                          *)

\* A step that leaves the queries and the candidates alone.
LEMMA AccountsUntouched ==
  ASSUME Published, Apart, Accounted, UNCHANGED <<qpc, queries, pub, tried>>
  PROVE  Published' /\ Apart' /\ Accounted'
  BY DEF Published, Apart, Accounted, NoRepeats, InSeq

\* A failed attempt leaves the next one, which has not begun.
LEMMA FailedAttempt ==
  ASSUME TypeOK, Turn, Exhausted, FailAttempt, UNCHANGED <<qpc, queries>>,
         pc \in {"next", "ready", "walk", "wait", "try"}, attempts # <<>>, queries = <<>>,
         pc = "next" => Head(attempts) = "fil"
  PROVE  Turn' /\ Exhausted'
<1>1. pc' = "next" /\ attempts' = Tail(attempts) /\ result' = result
  BY DEF FailAttempt
<1>2. result \notin Candidates /\ result # "failed"
  BY DEF Turn
<1>3. attempts' # <<>> => \A c \in Candidates : qpc'[c] = "none"
  <2>1. CASE pc \in {"ready", "walk"}
    BY <2>1 DEF Turn
  <2>2. CASE pc \in {"wait", "try"}
    <3>1. attempts = <<"fil">>
      BY <2>2 DEF Turn
    <3> QED
      BY <1>1, <3>1, TailOfRemainder
  <2>3. CASE pc = "next"
    BY <2>3 DEF Turn
  <2> QED
    BY <2>1, <2>2, <2>3
<1> QED
  BY <1>1, <1>2, <1>3 DEF Turn, Exhausted

\* The steps of the command keep the account of the candidates.
LEMMA CommandKeeps ==
  ASSUME RInv, Command
  PROVE  Published' /\ Turn' /\ Waited' /\ Apart' /\ Accounted' /\ Exhausted' /\ LastTried'
<1> DEFINE Goal == Published' /\ Turn' /\ Waited' /\ Apart' /\ Accounted'
                     /\ Exhausted' /\ LastTried'
<1> SUFFICES Goal
  OBVIOUS
<1> USE DEF ipfsvars, filvars
<1>1. CASE StartIPFS
  <2>1. UNCHANGED <<attempts, result, qpc, queries, pub, tried>> /\ pc' = "ready" /\ pc = "next"
    BY <1>1 DEF StartIPFS
  <2>2. Published' /\ Apart' /\ Accounted'
    BY <2>1, AccountsUntouched DEF RInv
  <2>3. attempts \in {<<"ipfs">>, <<"ipfs", "fil">>}
    BY <1>1 DEF StartIPFS, RInv, TypeOK, Remainders
  <2>4. Turn' /\ Waited' /\ Exhausted' /\ LastTried'
    BY <2>1, <2>3 DEF RInv, Turn, Waited, Exhausted, LastTried
  <2> QED
    BY <2>2, <2>4
<1>2. CASE StartFIL
  <2>1. attempts = <<"fil">> /\ pc = "next"
    BY <1>2 DEF StartFIL, RInv, TypeOK, Remainders
  <2>2. CASE Candidates = {}
    <3>1. FailAttempt /\ UNCHANGED <<qpc, queries, pub, tried>>
      BY <1>2, <2>2 DEF StartFIL
    <3> QED
      BY <2>1, <2>2, <3>1, AccountsUntouched DEF RInv, FailAttempt, Turn, Waited, Exhausted, LastTried
  <2>3. CASE Candidates # {}
    <3>1. /\ pc' = "wait" /\ qpc' = [c \in Candidates |-> "connect"]
          /\ UNCHANGED <<attempts, result, queries, pub, tried>>
      BY <1>2, <2>3 DEF StartFIL
    <3>2. \A c \in Candidates : qpc[c] = "none"
      BY <1>2, <2>1 DEF StartFIL, RInv, Turn
    <3>3. Published' /\ Apart' /\ Accounted'
      BY <3>1, <3>2 DEF RInv, Published, Apart, Accounted, NoRepeats, InSeq
    <3> QED
      BY <2>1, <3>1, <3>3 DEF RInv, Turn, Waited, Exhausted, LastTried
  <2> QED
    BY <2>2, <2>3
<1>3. CASE GiveUp
  <2>1. /\ UNCHANGED <<attempts, qpc, queries, pub, tried>>
        /\ pc' = "returned" /\ pc = "next" /\ result' = "failed" /\ attempts = <<>>
    BY <1>3 DEF GiveUp
  <2> QED
    BY <2>1, AccountsUntouched, ConstantsAssumption
       DEF RInv, Turn, Waited, Exhausted, LastTried
<1>4. CASE IPFSReady \/ IPFSWalk
  <2>1. /\ UNCHANGED <<qpc, queries, pub, tried>>
        /\ pc \in {"ready", "walk"}
        /\ \/ FailAttempt
           \/ pc' = "walk" /\ UNCHANGED <<attempts, result>>
           \/ Succeed("ipfs")
    BY <1>4 DEF IPFSReady, IPFSWalk
  <2>2. Published' /\ Apart' /\ Accounted'
    BY <2>1, AccountsUntouched DEF RInv
  <2>3. queries = <<>> /\ attempts # <<>>
    BY <2>1, AtHand DEF RInv, Exhausted
  <2>4. Waited' /\ LastTried'
    BY <2>1, ConstantsAssumption DEF RInv, Turn, Waited, LastTried, FailAttempt, Succeed
  <2>5. CASE FailAttempt
    BY <2>1, <2>2, <2>3, <2>4, <2>5, FailedAttempt DEF RInv
  <2>6. CASE pc' = "walk" /\ UNCHANGED <<attempts, result>>
    BY <2>1, <2>2, <2>3, <2>4, <2>6 DEF RInv, Turn, Exhausted
  <2>7. CASE Succeed("ipfs")
    BY <2>1, <2>2, <2>3, <2>4, <2>7, ConstantsAssumption DEF RInv, Succeed, Turn, Exhausted
  <2> QED
    BY <2>1, <2>5, <2>6, <2>7
<1>5. CASE Collected
  <2>1. pc = "wait" /\ UNCHANGED <<qpc, pub, tried>> /\ \A c \in Candidates : qpc[c] = "done"
    BY <1>5 DEF Collected
  <2>2. attempts # <<>> /\ attempts = <<"fil">>
    BY <2>1, AtHand DEF RInv, Turn
  <2>3. CASE queries = <<>>
    <3>1. FailAttempt /\ UNCHANGED queries
      BY <1>5, <2>3 DEF Collected
    <3>2. Turn' /\ Exhausted'
      BY <2>1, <2>2, <2>3, <3>1, FailedAttempt DEF RInv
    <3> QED
      BY <2>1, <2>3, <3>1, <3>2, AccountsUntouched DEF RInv, FailAttempt, Waited, LastTried, Turn
  <2>4. CASE queries # <<>>
    <3>1. queries' \in SortedBy(queries) /\ pc' = "try" /\ UNCHANGED <<attempts, result>>
      BY <1>5, <2>4 DEF Collected
    <3>2. NoRepeats(queries') /\ \A x : InSeq(x, queries') <=> InSeq(x, queries)
      BY <3>1, SortPermutes DEF RInv, TypeOK, Apart
    <3>3. Published' /\ Turn' /\ Waited' /\ Exhausted' /\ LastTried'
      BY <2>1, <2>2, <3>1 DEF RInv, Published, Turn, Waited, Exhausted, LastTried
    <3>4. Apart' /\ Accounted'
      BY <2>1, <3>2, Zenon DEF RInv, Apart, Accounted
    <3> QED
      BY <3>3, <3>4
  <2> QED
    BY <2>3, <2>4
<1>6. CASE TryNext
  <2>1. pc = "try" /\ UNCHANGED <<qpc, pub>>
    BY <1>6 DEF TryNext
  <2>2. attempts # <<>> /\ attempts = <<"fil">>
    BY <2>1, AtHand DEF RInv, Turn
  <2>3. CASE queries = <<>>
    <3>1. FailAttempt /\ UNCHANGED <<queries, trying, tried>>
      BY <1>6, <2>3 DEF TryNext
    <3>2. Turn' /\ Exhausted'
      BY <2>1, <2>2, <2>3, <3>1, FailedAttempt DEF RInv
    <3> QED
      BY <2>1, <2>3, <3>1, <3>2, AccountsUntouched DEF RInv, FailAttempt, Waited, LastTried, Turn
  <2>4. CASE queries # <<>>
    <3> DEFINE c == Head(queries)
    <3>1. /\ queries' = Tail(queries) /\ tried' = Append(tried, c)
          /\ pc' \in {"retrieve", "try"} /\ (pc' = "retrieve" => trying' = c)
          /\ UNCHANGED <<attempts, result>>
      BY <1>6, <2>4 DEF TryNext
    <3>2. /\ c \in Candidates /\ InSeq(c, queries)
          /\ \A x : InSeq(x, queries) <=> x = c \/ InSeq(x, queries')
          /\ NoRepeats(queries') /\ ~InSeq(c, queries')
      BY <2>4, <3>1, TailIs, Zenon DEF RInv, TypeOK, Apart
    <3>3. ~InSeq(c, tried)
      BY <3>2 DEF RInv, Apart
    <3>4. /\ \A x : InSeq(x, tried') <=> InSeq(x, tried) \/ x = c
          /\ NoRepeats(tried') /\ tried' # <<>> /\ tried'[Len(tried')] = c
      <4>1. tried \in Seq(Candidates) /\ NoRepeats(tried)
        BY DEF RInv, TypeOK, Apart
      <4>2. tried' = Append(tried, c) /\ c \in Candidates
        BY <3>1, <3>2
      <4> HIDE DEF c
      <4>3. /\ \A x : InSeq(x, Append(tried, c)) <=> InSeq(x, tried) \/ x = c
            /\ NoRepeats(Append(tried, c)) /\ Append(tried, c) # <<>>
            /\ Append(tried, c)[Len(Append(tried, c))] = c
        BY <3>3, <4>1, <4>2, AppendIs, Zenon
      <4> QED
        BY <4>2, <4>3, Zenon
    <3> HIDE DEF c
    <3>5. Published' /\ Turn' /\ Waited' /\ Exhausted' /\ LastTried'
      BY <2>1, <2>2, <3>1, <3>4 DEF RInv, Published, Turn, Waited, Exhausted, LastTried
    <3>6. Apart'
      BY <2>1, <3>2, <3>4, Zenon DEF RInv, Apart
    <3>7. Accounted'
      BY <2>1, <3>2, <3>4, Zenon DEF RInv, Accounted
    <3> QED
      BY <3>5, <3>6, <3>7
  <2> QED
    BY <2>3, <2>4
<1>7. CASE RetrieveReturns
  <2>1. /\ pc = "retrieve" /\ UNCHANGED <<attempts, qpc, queries, pub, tried>>
        /\ \/ pc' = "returned" /\ result' = trying
           \/ pc' = "try" /\ result' = result
    BY <1>7 DEF RetrieveReturns, Succeed
  <2>2. Published' /\ Apart' /\ Accounted'
    BY <2>1, AccountsUntouched DEF RInv
  <2>3. trying \in Candidates
    <3>1. tried \in Seq(Candidates) /\ tried # <<>> /\ trying = tried[Len(tried)]
      BY <2>1 DEF RInv, TypeOK, LastTried
    <3>2. Len(tried) \in 1..Len(tried)
      BY <3>1
    <3> QED
      BY <3>1, <3>2
  <2>4. attempts # <<>> /\ attempts = <<"fil">> /\ trying # "failed"
    BY <2>1, <2>3, AtHand, ConstantsAssumption DEF RInv, Turn
  <2> QED
    BY <2>1, <2>2, <2>3, <2>4 DEF RInv, Turn, Waited, Exhausted, LastTried
<1> QED
  BY <1>1, <1>2, <1>3, <1>4, <1>5, <1>6, <1>7 DEF Command

\* The steps of a query goroutine do.
LEMMA QueryKeeps ==
  ASSUME RInv, NEW c \in Candidates, Query(c)
  PROVE  Published' /\ Turn' /\ Waited' /\ Apart' /\ Accounted' /\ Exhausted' /\ LastTried'
<1> DEFINE Goal == Published' /\ Turn' /\ Waited' /\ Apart' /\ Accounted'
                     /\ Exhausted' /\ LastTried'
<1> SUFFICES Goal
  OBVIOUS
<1>1. UNCHANGED <<attempts, pc, result, tried, trying>>
  BY DEF Query, QueryConnects, QueryAsks, QueryCollects
<1>2. pc = "wait" /\ attempts = <<"fil">> /\ attempts # <<>>
  <2>1. pc = "wait"
    BY DEF RInv, Waited, Query, QueryConnects, QueryAsks, QueryCollects
  <2> QED
    BY <2>1, AtHand DEF RInv, Turn
<1>3. Turn' /\ Waited' /\ Exhausted' /\ LastTried'
  BY <1>1, <1>2 DEF RInv, Turn, Waited, Exhausted, LastTried
<1>4. qpc[c] # "done" /\ ~InSeq(c, queries) /\ ~InSeq(c, tried)
  BY DEF RInv, Apart, Query, QueryConnects, QueryAsks, QueryCollects
<1>5. /\ qpc \in [Candidates -> {"none", "connect", "ask", "collect", "done"}]
      /\ queries \in Seq(Candidates)
  BY DEF RInv, TypeOK
<1>6. CASE QueryConnects(c) \/ QueryAsks(c)
  <2>1. PICK s \in {"ask", "collect", "done"}, code \in QueryEvents :
          /\ qpc' = [qpc EXCEPT ![c] = s] /\ PublishQuery(c, code)
          /\ code = "query-asked" <=> s = "collect"
          /\ qpc[c] # "collect" /\ UNCHANGED queries
    BY <1>6 DEF QueryConnects, QueryAsks, QueryEvents
  <2>2. Published' /\ \A d \in Candidates : InSeq("query-asked", pub'[d]) <=>
                        InSeq("query-asked", pub[d]) \/ (d = c /\ code = "query-asked")
    <3>1. pub[c] \in Seq(QueryEvents) /\ code \in QueryEvents
      BY <2>1 DEF RInv, Published, QueryEvents
    <3>2. /\ Append(pub[c], code) \in Seq(QueryEvents)
          /\ InSeq("query-asked", Append(pub[c], code)) <=>
               InSeq("query-asked", pub[c]) \/ "query-asked" = code
      BY <3>1, AppendIs, Zenon
    <3>3. pub' = [pub EXCEPT ![c] = Append(pub[c], code)] /\ pub \in [Candidates -> Seq(QueryEvents)]
      BY <2>1 DEF PublishQuery, RInv, Published
    <3>4. pub'[c] = Append(pub[c], code) /\ \A d \in Candidates : d # c => pub'[d] = pub[d]
      BY <3>3
    <3>5. Published'
      BY <3>2, <3>3 DEF Published
    <3> QED
      BY <3>2, <3>4, <3>5
  <2>3. Apart'
    BY <1>1, <1>4, <1>5, <2>1 DEF RInv, Apart, NoRepeats, InSeq
  <2>4. Accounted'
    BY <1>1, <1>5, <2>1, <2>2 DEF RInv, Accounted
  <2> QED
    BY <1>3, <2>2, <2>3, <2>4
<1>7. CASE QueryCollects(c)
  <2>1. /\ qpc' = [qpc EXCEPT ![c] = "done"] /\ queries' = Append(queries, c)
        /\ UNCHANGED pub
    BY <1>7 DEF QueryCollects
  <2>2. /\ \A x : InSeq(x, queries') <=> InSeq(x, queries) \/ x = c
        /\ NoRepeats(queries')
    BY <1>4, <1>5, <2>1, AppendIs, Zenon DEF RInv, Apart
  <2>3. /\ tried' = tried /\ NoRepeats(tried) /\ Apart
        /\ qpc'[c] = "done" /\ \A d \in Candidates : d # c => qpc'[d] = qpc[d]
    BY <1>1, <1>5, <2>1 DEF RInv, Apart
  <2>4. Apart'
    <3>1. \A d \in Candidates : ~(InSeq(d, queries') /\ InSeq(d, tried'))
      BY <1>4, <2>2, <2>3, Zenon DEF Apart
    <3>2. \A d \in Candidates : qpc'[d] # "done" => ~InSeq(d, queries') /\ ~InSeq(d, tried')
      BY <2>2, <2>3, Zenon DEF Apart
    <3> QED
      BY <2>2, <2>3, <3>1, <3>2, Zenon DEF Apart
  <2>5. Accounted'
    BY <1>1, <1>5, <2>1, <2>2 DEF RInv, Accounted
  <2> QED
    BY <1>3, <2>1, <2>4, <2>5 DEF RInv, Published
<1> QED
  BY <1>6, <1>7 DEF Query

\* Every step does.
LEMMA RInvHolds == Spec => []RInv
<1>1. Init => RInv
  <2> SUFFICES ASSUME Init PROVE RInv
    OBVIOUS
  <2> USE ConstantsAssumption DEF Init
  <2>1. attempts \in Remainders
    BY DEF AttemptsFor, Remainders
  <2>2. TypeOK
    <3>1. ready \in Seq(BOOLEAN) /\ Len(ready) <= 1
      OBVIOUS
    <3>2. queries \in Seq(Candidates) /\ tried \in Seq(Candidates)
      OBVIOUS
    <3>3. /\ qpc \in [Candidates -> {"none", "connect", "ask", "collect", "done"}]
          /\ answers \in [Candidates -> Offers \cup {NoAnswer}]
      OBVIOUS
    <3>4. found \in 0..MaxProviders /\ trying \in Candidates \cup {Nobody}
      OBVIOUS
    <3> QED
      BY <2>1, <3>1, <3>2, <3>3, <3>4 DEF TypeOK
  <2>3. Published
    BY DEF Published
  <2>4. Apart /\ Accounted
    BY DEF Apart, Accounted, NoRepeats, InSeq
  <2>5. Turn /\ Waited /\ Exhausted /\ LastTried
    BY DEF Turn, Waited, Exhausted, LastTried
  <2> QED
    BY <2>2, <2>3, <2>4, <2>5 DEF RInv
<1>2. RInv /\ [Next]_vars => RInv'
  <2> SUFFICES ASSUME RInv, [Next]_vars PROVE RInv'
    OBVIOUS
  <2>1. CASE Command
    BY <2>1, CommandTypes, CommandKeeps DEF RInv
  <2>2. ASSUME NEW c \in Candidates, Query(c) PROVE RInv'
    BY <2>2, OtherTypes, QueryKeeps DEF RInv
  <2>3. CASE Search \/ Cancel \/ UNCHANGED vars
    <3>1. UNCHANGED <<attempts, pc, result, qpc, queries, trying, pub, tried>>
      BY <2>3 DEF Search, SearchFinds, SearchExhausted, SearchCancelled, SearchSends,
                  Cancel, vars, filvars
    <3>2. Turn' /\ Waited' /\ Exhausted' /\ LastTried'
      BY <3>1 DEF RInv, Turn, Waited, Exhausted, LastTried
    <3> QED
      BY <2>3, <3>1, <3>2, OtherTypes, AccountsUntouched DEF RInv
  <2> QED
    BY <2>1, <2>2, <2>3 DEF Next
<1> QED
  BY <1>1, <1>2, PTL DEF Spec

-----------------------------------------------------------------------------
(* The theorems.                                                             *)

\* Every variable keeps to its values.
THEOREM TypeCorrect == Spec => []TypeOK
<1>1. RInv => TypeOK
  BY DEF RInv
<1> QED
  BY <1>1, RInvHolds, PTL

\* RetrieveFromBestCandidate fails only after each candidate that answered its query
\* was tried, however the answers come in and whatever the sort makes of them.
THEOREM NobodyLeftOutHolds == Spec => []NobodyLeftOut
<1>1. RInv => NobodyLeftOut
  <2> SUFFICES ASSUME RInv, result = "failed"
               PROVE  /\ attempts = <<>>
                      /\ \A c \in Candidates : InSeq("query-asked", pub[c]) => InSeq(c, tried)
    BY DEF NobodyLeftOut
  <2>1. attempts = <<>> /\ queries = <<>>
    BY DEF RInv, Turn, Exhausted
  <2>2. \A c \in Candidates : ~InSeq(c, queries)
    BY <2>1 DEF InSeq
  <2>3. pc # "wait"
    BY <2>1, AtHand DEF RInv
  <2>4. \A c \in Candidates : qpc[c] # "collect"
    BY <2>3 DEF RInv, Waited
  <2> QED
    BY <2>1, <2>2, <2>4 DEF RInv, Accounted
<1> QED
  BY <1>1, RInvHolds, PTL

\* No entry of the list is retrieved from twice, and the one reported is the last one tried.
THEOREM OneRetrievalEachHolds == Spec => []OneRetrievalEach
<1>1. RInv => OneRetrievalEach
  BY DEF RInv, Apart, NoRepeats, LastTried, OneRetrievalEach
<1> QED
  BY <1>1, RInvHolds, PTL
=============================================================================
