--------------------------- MODULE TransferQueries ---------------------------
(***************************************************************************)
(* The queries of filclient about transfers that providers pull:           *)
(* TransferStatusByID, TransfersInProgress and TransferStatusForContent    *)
(* (filclient.go) and byId, All and byRemoteAddrAndPayloadCid of the       *)
(* transfer manager (libp2ptransfermgr.go), composed with the manager.     *)
(*                                                                         *)
(* A query looks for the transfer in the server's map and reads the state  *)
(* of the one it found, or else reads the saved outcomes.  Nothing ties    *)
(* the reads together: between them a transfer may complete or break and   *)
(* leave the map, be failed, or be opened again.                           *)
(*                                                                         *)
(* A query changes nothing, so one query at a time stands for any number.  *)
(***************************************************************************)
EXTENDS TransferManager

CONSTANT NotFound  \* the query finds no transfer

ASSUME NotFoundAssumption == NotFound \notin {"Ongoing", "Completed", "Failed"}

VARIABLES
  qpc,     \* place of the query
  op,      \* which query
  about,   \* the requests it asks about
  seen,    \* All: what the map said of them; otherwise what State() of the transfer
           \* that was found says
  answer,  \* what it returns
  during,  \* history: what a right answer could have been since it was asked
  bare,    \* saved failures without remote address and payload
  found    \* activeXfer of the expiry goroutine is not nil

query == <<qpc, op, about, seen, answer>>
qvars == <<vars, query, during, bare, found>>

Ops == {"byId", "All", "byContent"}

-----------------------------------------------------------------------------
(* What the two stores say.                                                   *)

\* A broken transfer is reported as failed (lines 326-327), although the provider may
\* open the request again: Failed speaks of the attempt until it is a saved outcome.
Active(x) == CASE srv[x] = "open" -> "Ongoing"
               [] srv[x] = "failed" -> "Failed"
               [] OTHER -> "Completed"
Saved(x) == IF store[x] = "none" THEN NotFound ELSE store[x]

\* toDTState of what each query is after: byId prefers the map, All the saved outcome;
\* a failure that was saved without address and payload is no transfer of the content.
Status(o, x) ==
  IF o = "All"
  THEN IF InMap(x) /\ store[x] = "none" THEN Active(x) ELSE Saved(x)
  ELSE IF InMap(x) THEN Active(x)
  ELSE IF o = "byContent" /\ x \in bare THEN NotFound ELSE Saved(x)

RightAnswers(o, xs) ==
  LET known == {Status(o, x) : x \in xs} \ {NotFound}
  IN  IF known = {} THEN {NotFound} ELSE known

\* What an earlier process saved may lack address and payload too.
QueryInit ==
  /\ Init
  /\ qpc = "idle" /\ op = "byId" /\ about = {} /\ seen = NotFound /\ answer = NotFound
  /\ during = {} /\ found = FALSE
  /\ bare \in SUBSET {x \in Xfers : store[x] = "Failed"}

-----------------------------------------------------------------------------
(* The queries.                                                               *)

\* byId and All are asked about a request, whose entry in All's map is looked at; the
\* content query about a payload and a provider, which any of the requests may have.
Ask ==
  /\ qpc = "idle" /\ phase # "fresh"
  /\ op' \in Ops
  /\ about' \in IF op' = "byContent" THEN SUBSET Xfers ELSE {{x} : x \in Xfers}
  /\ qpc' = "map" /\ during' = RightAnswers(op', about')
  /\ UNCHANGED <<vars, seen, answer, bare, found>>

Reply(a) == qpc' = "answered" /\ answer' = a

\* The caller has what it asked for.
Forget ==
  /\ qpc' = "idle" /\ op' = "byId" /\ about' = {} /\ seen' = NotFound
  /\ answer' = NotFound /\ during' = {}

\* Get and Matching are one look at the map each.  All takes the states down in the same
\* look and goes on to the saved outcomes; the others keep the transfer they find.
ReadMap ==
  /\ qpc = "map"
  /\ \/ \E x \in about :
          /\ InMap(x)
          /\ seen' = Active(x) /\ about' = {x}
          /\ qpc' = IF op = "All" THEN "store" ELSE "state"
     \/ /\ \A x \in about : ~InMap(x)
        /\ qpc' = "store" /\ UNCHANGED <<about, seen>>
  /\ UNCHANGED <<vars, op, answer, during, bare, found>>

\* xfer.State() of the transfer that was found, which may have left the map by now.
ReadState ==
  /\ qpc = "state"
  /\ Reply(seen)
  /\ UNCHANGED <<vars, op, about, seen, during, bare, found>>

\* Deviation: an active transfer hides the saved outcome.
AllOfActiveFirst(x) == IF seen # NotFound THEN seen ELSE Saved(x)

\* A saved outcome replaces the entry of the active transfer.
AllOf(x) == IF store[x] # "none" THEN store[x] ELSE seen

\* Deviation: a record is not compared with what was asked.
ContentAnswersOfAny ==
  LET records == {x \in Xfers : store[x] # "none"}
  IN  IF records = {} THEN {NotFound} ELSE {store[x] : x \in records}

\* The callback of forEachCompletedTransfer returns false for a record that does not
\* match, and that ends the iteration: only records before the first other one count,
\* and the last of them; a transfer behind it is not found, although line 289 says it
\* is.  The keys are random numbers, so they may come in any order.
ContentAnswers ==
  LET records  == {x \in Xfers : store[x] # "none"}
      matching == (about \cap records) \ bare
  IN  {store[x] : x \in matching} \cup
      (IF matching = {} \/ records # matching THEN {NotFound} ELSE {})

ReadStore ==
  /\ qpc = "store"
  /\ \/ op = "byId"      /\ \E x \in about : Reply(Saved(x))
     \/ op = "All"       /\ \E x \in about : Reply(AllOf(x))
     \/ op = "byContent" /\ \E a \in ContentAnswers : Reply(a)
  /\ UNCHANGED <<vars, op, about, seen, during, bare, found>>

\* Any of the reads fails, and the query returns the error.
QueryError ==
  /\ qpc \in {"map", "store"}
  /\ Forget
  /\ UNCHANGED <<vars, bare, found>>

\* A step of the manager.  What the expiry goroutine saves carries the address and
\* the payload only if it found the transfer active.  The transfer that a query has
\* found keeps the state in which it ends, in the map or not.
ManagerStep ==
  /\ Next
  /\ found' = (epc' = "cancel" \/ (found /\ epc' \notin {"idle", "next"}))
  /\ bare' = {x \in Xfers : /\ store'[x] = "Failed"
                           /\ (x \in bare \/ (store[x] # "Failed" /\ ~found))}
  /\ IF qpc \in {"idle", "answered"} \/ phase' = "fresh"
     THEN Forget
     ELSE /\ UNCHANGED <<qpc, op, about, answer>>
          /\ IF qpc = "state" /\ seen = "Ongoing"
             THEN \E x \in about : seen' = Active(x)'
             ELSE UNCHANGED seen
          /\ during' = during \cup RightAnswers(op, about)'

QueryStep == Ask \/ ReadMap \/ ReadState \/ ReadStore \/ QueryError

QueryNext == QueryStep \/ ManagerStep

QuerySpec == QueryInit /\ [][QueryNext]_qvars

-----------------------------------------------------------------------------
(* Properties. *)

\* Whatever happens between two reads, byId and All return a status that the request
\* had at some moment of the query: a transfer that completes under way is never
\* reported as unknown, one whose outcome All has reported is never reported as ongoing
\* again.  Failed may be the status of an attempt (lines 326-327).
StatusIsCurrent ==
  qpc = "answered" /\ op \in {"byId", "All"} => answer \in during

\* TransferStatusForContent never reports the status of another provider's transfer
\* or of other content, nor one that the transfer did not have while it was asked.  It
\* misses a transfer that is there, against line 289, only if a record that does not match
\* has been saved: that record may have ended the iteration (lines 308-315).
ContentIsTrue ==
  qpc = "answered" /\ op = "byContent" =>
    \/ answer \in during
    \/ answer = NotFound /\ \E x \in Xfers \ (about \ bare) : store[x] # "none"
=============================================================================
