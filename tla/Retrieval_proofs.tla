--------------------------- MODULE Retrieval_proofs ---------------------------
(***************************************************************************)
(* Proofs about Retrieval, for any number and size of payments, any number *)
(* of progress events, and any user.                                       *)
(***************************************************************************)
EXTENDS Retrieval, TLAPS

\* Before the channel is open, and until the function has a result.
Opening == {"start", "subscribe", "open", "opening"}
Working == Opening \cup {"opened", "wait", "check"}

\* Where the function stands tells whether it listens, whether the callback knows the
\* channel, and whether there is a channel.
Place ==
  /\ pc \in Working \cup {"close", "unsubscribe", "done"}
  /\ result \in {"none", "success", "error"}
  /\ ch \in {"none", "open", "failed", "cancelled", "ended"}
  /\ chanid \in BOOLEAN /\ subscribed \in BOOLEAN
  /\ result = "none" <=> pc \in Working
  /\ pc \in Opening \cup {"opened"} => ~chanid
  /\ pc = "wait" => chanid
  /\ pc \in {"open", "opening", "opened", "wait"} => subscribed
  /\ pc \in {"start", "subscribe", "open"} => ch = "none"

\* Every step goes from place to place.
LEMMA PlaceHolds == Spec => []Place
<1>1. Init => Place
  BY ConstantsAssumption DEF Init, Place, Opening, Working
<1>2. Place /\ [Next]_vars => Place'
  <2> SUFFICES ASSUME Place, [Next]_vars PROVE Place'
    OBVIOUS
  <2> USE DEF Place, Opening, Working, Emits, main, setup, counters, flags, channel,
          callback, rulings, user, remote
  <2>1. CASE SetUpPaych
    BY <2>1 DEF SetUpPaych, FailBefore, ReturnWith, Publish
  <2>2. CASE SubscribeToEvents
    BY <2>2 DEF SubscribeToEvents
  <2>3. CASE OpenCalled
    BY <2>3 DEF OpenCalled
  <2>4. CASE OpenReturns
    BY <2>4 DEF OpenReturns, FailBefore, ReturnWith, Publish
  <2>5. CASE StoreChanid
    BY <2>5 DEF StoreChanid
  <2>6. CASE ReceiveResult
    BY <2>6 DEF ReceiveResult, FailBefore, ReturnWith, Publish
  <2>7. CASE ContextDone
    BY <2>7 DEF ContextDone, ReturnWith
  <2>8. CASE Confirm
    BY <2>8 DEF Confirm, FailBefore, ReturnWith, Publish
  <2>9. CASE DeferredClose
    BY <2>9 DEF DeferredClose
  <2>10. CASE DeferredUnsubscribe
    BY <2>10 DEF DeferredUnsubscribe
  <2>11. CASE ReceiveShutdown
    BY <2>11 DEF ReceiveShutdown
  <2>12. CASE OnError
    BY <2>12 DEF OnError, Finish, NoFinish
  <2>13. CASE OnCleanupComplete
    BY <2>13 DEF OnCleanupComplete, Ends, Finish, NoFinish
  <2>14. CASE OnAccepted
    BY <2>14 DEF OnAccepted, Publish
  <2>15. CASE OnRefused
    BY <2>15 DEF OnRefused, Finish
  <2>16. CASE OnDealCompleted
    BY <2>16 DEF OnDealCompleted, Finish, NoFinish
  <2>17. CASE OnFinishTransfer
    BY <2>17 DEF OnFinishTransfer, Finish, NoFinish
  <2>18. CASE OnProgress
    BY <2>18 DEF OnProgress, Publish
  <2>19. CASE ProgressReturns
    BY <2>19 DEF ProgressReturns
  <2>20. ASSUME NEW owed \in 1..MaxOwed, OnFundsNeeded(owed) PROVE Place'
    BY <2>20 DEF OnFundsNeeded, FundsAsked, Finish, NoFinish
  <2>21. CASE Cancel
    BY <2>21 DEF Cancel
  <2>22. CASE GracefulShutdown
    BY <2>22 DEF GracefulShutdown
  <2>23. CASE OnCancel
    BY <2>23 DEF OnCancel
  <2>24. CASE CreateVoucher
    BY <2>24 DEF CreateVoucher, Finish, NoFinish
  <2>25. CASE SendVoucher
    BY <2>25 DEF SendVoucher, Finish, NoFinish
  <2>26. CASE UNCHANGED vars
    BY <2>26 DEF vars
  <2> QED
    BY <2>1, <2>2, <2>3, <2>4, <2>5, <2>6, <2>7, <2>8, <2>9, <2>10, <2>11,
       <2>12, <2>13, <2>14, <2>15, <2>16, <2>17, <2>18, <2>19, <2>20, <2>21,
       <2>22, <2>23, <2>24, <2>25, <2>26
       DEF Next, Function, Callback
<1> QED
  BY <1>1, <1>2, PTL DEF Spec

-----------------------------------------------------------------------------
(* Verdicts. *)

\* Until the function takes it, the first ruling waits in dtRes; only a success is
\* confirmed, and it comes from a deal that is complete or a channel that has ended.
Judged ==
  /\ ruling \in {"none", "success", "error"}
  /\ ruling # "none" \/ cb # "idle" => chanid
  /\ pc \in Opening \cup {"opened", "wait"} =>
       dtRes = IF ruling = "none" THEN <<>> ELSE <<ruling>>
  /\ pc = "check" \/ result = "success" => ruling = "success"
  /\ ruling = "success" => completed \/ ch = "ended"
  /\ dealComplete => completed
  /\ ch = "ended" /\ pc \in {"opening", "opened", "wait"} => endedEarly \/ ruling # "none"

\* No step forgets the first ruling.
LEMMA JudgedHolds == Spec => []Judged
<1>1. Init => Judged
  BY ConstantsAssumption DEF Init, Judged, Opening
<1>2. Place /\ Judged /\ [Next]_vars => Judged'
  <2> SUFFICES ASSUME Place, Judged, [Next]_vars PROVE Judged'
    OBVIOUS
  <2> USE DEF Place, Judged, Opening, Working, Hears, Unheard, Emits, main, setup,
          counters, flags, channel, callback, rulings, user, remote
  <2>1. CASE SetUpPaych
    BY <2>1 DEF SetUpPaych, FailBefore, ReturnWith, Publish
  <2>2. CASE SubscribeToEvents
    BY <2>2 DEF SubscribeToEvents
  <2>3. CASE OpenCalled
    BY <2>3 DEF OpenCalled
  <2>4. CASE OpenReturns
    BY <2>4 DEF OpenReturns, FailBefore, ReturnWith, Publish
  <2>5. CASE StoreChanid
    BY <2>5 DEF StoreChanid
  <2>6. CASE ReceiveResult
    BY <2>6 DEF ReceiveResult, FailBefore, ReturnWith, Publish
  <2>7. CASE ContextDone
    BY <2>7 DEF ContextDone, ReturnWith
  <2>8. CASE Confirm
    BY <2>8 DEF Confirm, FailBefore, ReturnWith, Publish
  <2>9. CASE DeferredClose
    BY <2>9 DEF DeferredClose
  <2>10. CASE DeferredUnsubscribe
    BY <2>10 DEF DeferredUnsubscribe
  <2>11. CASE ReceiveShutdown
    BY <2>11 DEF ReceiveShutdown
  <2>12. CASE OnError
    BY <2>12 DEF OnError, Finish, NoFinish
  <2>13. CASE OnCleanupComplete
    BY <2>13 DEF OnCleanupComplete, Ends, Finish, NoFinish
  <2>14. CASE OnAccepted
    BY <2>14 DEF OnAccepted, Publish
  <2>15. CASE OnRefused
    BY <2>15 DEF OnRefused, Finish
  <2>16. CASE OnDealCompleted
    BY <2>16 DEF OnDealCompleted, Finish, NoFinish
  <2>17. CASE OnFinishTransfer
    BY <2>17 DEF OnFinishTransfer, Finish, NoFinish
  <2>18. CASE OnProgress
    BY <2>18 DEF OnProgress, Publish
  <2>19. CASE ProgressReturns
    BY <2>19 DEF ProgressReturns
  <2>20. ASSUME NEW owed \in 1..MaxOwed, OnFundsNeeded(owed) PROVE Judged'
    BY <2>20 DEF OnFundsNeeded, FundsAsked, Finish, NoFinish
  <2>21. CASE Cancel
    BY <2>21 DEF Cancel
  <2>22. CASE GracefulShutdown
    BY <2>22 DEF GracefulShutdown
  <2>23. CASE OnCancel
    BY <2>23 DEF OnCancel
  <2>24. CASE CreateVoucher
    BY <2>24 DEF CreateVoucher, Finish, NoFinish
  <2>25. CASE SendVoucher
    BY <2>25 DEF SendVoucher, Finish, NoFinish
  <2>26. CASE UNCHANGED vars
    BY <2>26 DEF vars
  <2> QED
    BY <2>1, <2>2, <2>3, <2>4, <2>5, <2>6, <2>7, <2>8, <2>9, <2>10, <2>11,
       <2>12, <2>13, <2>14, <2>15, <2>16, <2>17, <2>18, <2>19, <2>20, <2>21,
       <2>22, <2>23, <2>24, <2>25, <2>26
       DEF Next, Function, Callback
<1> QED
  BY <1>1, <1>2, PlaceHolds, PTL DEF Spec

\* An error of the callback is never turned into a success by what comes after it.
THEOREM FirstVerdictWinsHolds == Spec => []FirstVerdictWins
<1>1. Judged => FirstVerdictWins
  BY DEF Judged, FirstVerdictWins
<1> QED
  BY <1>1, JudgedHolds, PTL

\* The function waits for a channel that has ended only if it ended while the call that
\* opened it was returning.
THEOREM NoWakeupLostHolds == Spec => []NoWakeupLost
<1>1. Judged => NoWakeupLost
  BY DEF Judged, NoWakeupLost
<1> QED
  BY <1>1, JudgedHolds, PTL

-----------------------------------------------------------------------------
(* Published events. *)

Codes == {"proposed", "accepted", "first-byte", "success", "failure"}

Announced == {pub[i] : i \in 1..Len(pub)}

\* A new event that is not too early, and not a second end, keeps the order.
LEMMA PublishKeeps ==
  ASSUME pub \in Seq(Codes), PublishedInOrder, NEW code \in Codes,
         code # "accepted" => code \notin Announced,
         code \in {"accepted", "first-byte"} => "proposed" \in Announced,
         code \in {"success", "failure"} =>
           "success" \notin Announced /\ "failure" \notin Announced,
         Publish(code)
  PROVE  pub' \in Seq(Codes) /\ PublishedInOrder' /\ Announced' = Announced \cup {code}
<1>1. /\ pub' \in Seq(Codes) /\ Len(pub') = Len(pub) + 1 /\ pub'[Len(pub) + 1] = code
      /\ \A i \in 1..Len(pub) : pub'[i] = pub[i]
  BY DEF Publish
<1>2. \A i \in 1..Len(pub) :
        /\ code # "accepted" => pub[i] # code
        /\ code \in {"success", "failure"} => pub[i] \notin {"success", "failure"}
  BY DEF Announced
<1>3. PublishedInOrder'
  <2> SUFFICES ASSUME NEW i \in 1..Len(pub'), NEW j \in 1..Len(pub')
               PROVE  /\ pub'[i] \in {"accepted", "first-byte"} =>
                           \E k \in 1..(i - 1) : pub'[k] = "proposed"
                      /\ pub'[i] = pub'[j] /\ pub'[i] # "accepted" => i = j
                      /\ {pub'[i], pub'[j]} \subseteq {"success", "failure"} => i = j
    BY DEF PublishedInOrder
  <2>1. i \in 1..Len(pub) \/ i = Len(pub) + 1
    BY <1>1
  <2>2. j \in 1..Len(pub) \/ j = Len(pub) + 1
    BY <1>1
  <2>3. pub'[i] = pub'[j] /\ pub'[i] # "accepted" => i = j
    BY <1>1, <1>2, <2>1, <2>2 DEF PublishedInOrder
  <2>4. {pub'[i], pub'[j]} \subseteq {"success", "failure"} => i = j
    BY <1>1, <1>2, <2>1, <2>2 DEF PublishedInOrder
  <2>5. CASE i \in 1..Len(pub)
    <3>1. pub[i] \in {"accepted", "first-byte"} => \E k \in 1..(i - 1) : pub[k] = "proposed"
      BY <2>5 DEF PublishedInOrder
    <3> QED
      BY <2>3, <2>4, <2>5, <3>1, <1>1
  <2>6. CASE i = Len(pub) + 1
    <3>1. code \in {"accepted", "first-byte"} => \E k \in 1..Len(pub) : pub[k] = "proposed"
      BY DEF Announced
    <3> QED
      BY <2>3, <2>4, <2>6, <3>1, <1>1
  <2> QED
    BY <2>1, <2>5, <2>6
<1>4. Announced' = Announced \cup {code}
  BY <1>1 DEF Announced
<1> QED
  BY <1>1, <1>3, <1>4

\* The steps that publish nothing.
LEMMA NothingPublished ==
  pub' = pub => (PublishedInOrder' <=> PublishedInOrder) /\ Announced' = Announced
  BY DEF PublishedInOrder, Announced

\* Nothing is published before the proposal, and the proposal before the callback is let
\* in; a first byte is remembered, and so is what the result says.
Told ==
  /\ pub \in Seq(Codes) /\ PublishedInOrder
  /\ pc \in Opening => Announced = {}
  /\ pc = "opened" \/ chanid => "proposed" \in Announced
  /\ "first-byte" \in Announced => receivedFirstByte
  /\ result = "success" <=> "success" \in Announced
  /\ "failure" \in Announced => result = "error"
  /\ result = "error" => "failure" \in Announced \/ cancelled

\* Every step publishes what it should.
LEMMA ToldHolds == Spec => []Told
<1>1. Init => Told
  BY ConstantsAssumption DEF Init, Told, Opening, Announced, PublishedInOrder
<1>2. Place /\ Told /\ [Next]_vars => Told'
  <2> SUFFICES ASSUME Place, Told, [Next]_vars PROVE Told'
    OBVIOUS
  <2> USE NothingPublished DEF Place, Told, Opening, Working, Hears, main, setup,
          counters, flags, channel, callback, rulings, user, remote
  <2>1. CASE SetUpPaych
    BY <2>1, PublishKeeps DEF SetUpPaych, FailBefore, ReturnWith, Codes
  <2>2. CASE SubscribeToEvents
    BY <2>2 DEF SubscribeToEvents
  <2>3. CASE OpenCalled
    BY <2>3 DEF OpenCalled
  <2>4. CASE OpenReturns
    BY <2>4, PublishKeeps DEF OpenReturns, FailBefore, ReturnWith, Codes
  <2>5. CASE StoreChanid
    BY <2>5 DEF StoreChanid
  <2>6. CASE ReceiveResult
    BY <2>6, PublishKeeps DEF ReceiveResult, FailBefore, ReturnWith, Codes
  <2>7. CASE ContextDone
    BY <2>7 DEF ContextDone, ReturnWith
  <2>8. CASE Confirm
    BY <2>8, PublishKeeps DEF Confirm, FailBefore, ReturnWith, Codes
  <2>9. CASE DeferredClose
    BY <2>9 DEF DeferredClose
  <2>10. CASE DeferredUnsubscribe
    BY <2>10 DEF DeferredUnsubscribe
  <2>11. CASE ReceiveShutdown
    BY <2>11 DEF ReceiveShutdown
  <2>12. CASE OnError
    BY <2>12 DEF OnError, Finish, NoFinish
  <2>13. CASE OnCleanupComplete
    BY <2>13 DEF OnCleanupComplete, Ends, Finish, NoFinish
  <2>14. CASE OnAccepted
    BY <2>14, PublishKeeps DEF OnAccepted, Codes
  <2>15. CASE OnRefused
    BY <2>15 DEF OnRefused, Finish
  <2>16. CASE OnDealCompleted
    BY <2>16 DEF OnDealCompleted, Finish, NoFinish
  <2>17. CASE OnFinishTransfer
    BY <2>17 DEF OnFinishTransfer, Finish, NoFinish
  <2>18. CASE OnProgress
    BY <2>18, PublishKeeps DEF OnProgress, Codes
  <2>19. CASE ProgressReturns
    BY <2>19 DEF ProgressReturns
  <2>20. ASSUME NEW owed \in 1..MaxOwed, OnFundsNeeded(owed) PROVE Told'
    BY <2>20 DEF OnFundsNeeded, FundsAsked, Finish, NoFinish
  <2>21. CASE Cancel
    BY <2>21 DEF Cancel
  <2>22. CASE GracefulShutdown
    BY <2>22 DEF GracefulShutdown
  <2>23. CASE OnCancel
    BY <2>23 DEF OnCancel
  <2>24. CASE CreateVoucher
    BY <2>24 DEF CreateVoucher, Finish, NoFinish
  <2>25. CASE SendVoucher
    BY <2>25 DEF SendVoucher, Finish, NoFinish
  <2>26. CASE UNCHANGED vars
    BY <2>26 DEF vars
  <2> QED
    BY <2>1, <2>2, <2>3, <2>4, <2>5, <2>6, <2>7, <2>8, <2>9, <2>10, <2>11,
       <2>12, <2>13, <2>14, <2>15, <2>16, <2>17, <2>18, <2>19, <2>20, <2>21,
       <2>22, <2>23, <2>24, <2>25, <2>26
       DEF Next, Function, Callback
<1> QED
  BY <1>1, <1>2, PlaceHolds, PTL DEF Spec

\* Whoever publishes first, a retrieval is proposed before it is accepted or has a first
\* byte, it has one end and one first byte, and only an acceptance may come again.
THEOREM PublishedInOrderHolds == Spec => []PublishedInOrder
<1>1. Told => PublishedInOrder
  BY DEF Told
<1> QED
  BY <1>1, ToldHolds, PTL

\* The subscribers are told the result that is returned, except for the error of a user
\* who cancels, which is returned only.
THEOREM ResultMatchesEventsHolds == Spec => []ResultMatchesEvents
<1>1. Told => ResultMatchesEvents
  BY DEF Told, Announced, ResultMatchesEvents, Published
<1> QED
  BY <1>1, ToldHolds, PTL

-----------------------------------------------------------------------------
(* Payments. *)

LastPaid == IF vouchers = <<>> THEN 0 ELSE vouchers[Len(vouchers)].amount

\* The counters run with the vouchers.  What is owed and not paid is being paid, or is an
\* error, or was asked for when the deal was completed.
Drawn ==
  /\ vouchers \in Seq([ch : {Undef, Paych}, nonce : Nat, amount : Nat])
  /\ nonce = Len(vouchers) /\ totalPayment \in Nat /\ pchAddr \in {Undef, Paych}
  /\ cb \in {"idle", "progress", "paying", "sending"}
  /\ VouchersInSequence
  /\ \A i \in 1..Len(vouchers) : vouchers[i].amount \in 0..totalPayment
  /\ cb \in {"paying", "sending"} =>
       \A i \in 1..Len(vouchers) : vouchers[i].amount < totalPayment
  /\ overdue \/ ruling = "error" \/ cb \in {"paying", "sending"} \/ totalPayment = LastPaid
  /\ ruling = "success" /\ cb \in {"paying", "sending"} => overdue

\* The steps that draw no voucher.
LEMMA NothingDrawn ==
  vouchers' = vouchers => (VouchersInSequence' <=> VouchersInSequence) /\ LastPaid' = LastPaid
  BY DEF VouchersInSequence, LastPaid

\* Every payment draws the next voucher.
LEMMA DrawnHolds == Spec => []Drawn
<1>1. Init => Drawn
  BY ConstantsAssumption DEF Init, Drawn, VouchersInSequence, LastPaid
<1>2. Judged /\ Drawn /\ [Next]_vars => Drawn'
  <2> SUFFICES ASSUME Judged, Drawn, [Next]_vars PROVE Drawn'
    OBVIOUS
  <2> USE NothingDrawn DEF Judged, Drawn, Emits, main, setup, counters, flags,
          channel, callback, rulings, user, remote
  <2>1. CASE SetUpPaych
    BY <2>1 DEF SetUpPaych, FailBefore, ReturnWith, Publish
  <2>2. CASE SubscribeToEvents
    BY <2>2 DEF SubscribeToEvents
  <2>3. CASE OpenCalled
    BY <2>3 DEF OpenCalled
  <2>4. CASE OpenReturns
    BY <2>4 DEF OpenReturns, FailBefore, ReturnWith, Publish
  <2>5. CASE StoreChanid
    BY <2>5 DEF StoreChanid
  <2>6. CASE ReceiveResult
    BY <2>6 DEF ReceiveResult, FailBefore, ReturnWith, Publish
  <2>7. CASE ContextDone
    BY <2>7 DEF ContextDone, ReturnWith
  <2>8. CASE Confirm
    BY <2>8 DEF Confirm, FailBefore, ReturnWith, Publish
  <2>9. CASE DeferredClose
    BY <2>9 DEF DeferredClose
  <2>10. CASE DeferredUnsubscribe
    BY <2>10 DEF DeferredUnsubscribe
  <2>11. CASE ReceiveShutdown
    BY <2>11 DEF ReceiveShutdown
  <2>12. CASE OnError
    BY <2>12 DEF OnError, Finish, NoFinish
  <2>13. CASE OnCleanupComplete
    BY <2>13 DEF OnCleanupComplete, Ends, Hears, Unheard, Finish, NoFinish
  <2>14. CASE OnAccepted
    BY <2>14 DEF OnAccepted, Publish
  <2>15. CASE OnRefused
    BY <2>15 DEF OnRefused, Finish
  <2>16. CASE OnDealCompleted
    BY <2>16 DEF OnDealCompleted, Hears, Unheard, Finish, NoFinish
  <2>17. CASE OnFinishTransfer
    BY <2>17 DEF OnFinishTransfer, Hears, Unheard, Finish, NoFinish
  <2>18. CASE OnProgress
    BY <2>18 DEF OnProgress, Hears, Publish
  <2>19. CASE ProgressReturns
    BY <2>19 DEF ProgressReturns
  <2>20. ASSUME NEW owed \in 1..MaxOwed, OnFundsNeeded(owed) PROVE Drawn'
    <3>0. /\ owed \in Nat /\ owed > 0 /\ cb = "idle"
          /\ UNCHANGED <<pchAddr, nonce, vouchers>>
          /\ overdue' = (overdue \/ completed) /\ ch # "ended"
      BY <2>20, ConstantsAssumption DEF OnFundsNeeded, FundsAsked, Hears
    <3>1. CASE UNCHANGED <<cb, totalPayment>> /\ Finish("error")
      <4>1. ruling' = IF ruling = "none" THEN "error" ELSE ruling
        BY <3>1 DEF Finish
      <4> QED
        BY <3>0, <3>1, <4>1
    <3>2. CASE totalPayment' = totalPayment + owed /\ cb' = "paying" /\ NoFinish
      <4>1. \A i \in 1..Len(vouchers) : vouchers[i].amount \in 0..(totalPayment + owed)
        BY <3>0
      <4>2. ASSUME NEW i \in 1..Len(vouchers) PROVE vouchers[i].amount < totalPayment + owed
        <5>1. vouchers[i].amount \in 0..totalPayment
          OBVIOUS
        <5> QED
          BY <3>0, <5>1
      <4>3. ruling' = ruling /\ (ruling = "success" => overdue')
        BY <3>0, <3>2 DEF NoFinish
      <4> QED
        BY <3>0, <3>2, <4>1, <4>2, <4>3
    <3> QED
      BY <2>20, <3>1, <3>2 DEF OnFundsNeeded
  <2>21. CASE Cancel
    BY <2>21 DEF Cancel
  <2>22. CASE GracefulShutdown
    BY <2>22 DEF GracefulShutdown
  <2>23. CASE OnCancel
    BY <2>23 DEF OnCancel
  <2>24. CASE CreateVoucher
    BY <2>24 DEF CreateVoucher, Finish, NoFinish
  <2>25. CASE SendVoucher
    <3>0. cb = "sending" /\ cb' = "idle" /\ UNCHANGED <<pchAddr, totalPayment, overdue>>
      BY <2>25 DEF SendVoucher
    <3>1. CASE Finish("error") /\ UNCHANGED <<vouchers, nonce>>
      <4>1. ruling' = IF ruling = "none" THEN "error" ELSE ruling
        BY <3>1 DEF Finish
      <4> QED
        BY <3>0, <3>1, <4>1
    <3>2. ASSUME nonce' = nonce + 1, NoFinish,
                 vouchers' = Append(vouchers, [ch |-> pchAddr, nonce |-> nonce,
                                               amount |-> totalPayment])
          PROVE  Drawn'
      <4>1. /\ vouchers' \in Seq([ch : {Undef, Paych}, nonce : Nat, amount : Nat])
            /\ Len(vouchers') = Len(vouchers) + 1
            /\ vouchers'[Len(vouchers) + 1].nonce = Len(vouchers)
            /\ vouchers'[Len(vouchers) + 1].amount = totalPayment
            /\ \A i \in 1..Len(vouchers) : vouchers'[i] = vouchers[i]
        BY <3>0, <3>2
      <4>2. ASSUME NEW i \in 1..Len(vouchers') PROVE vouchers'[i].amount \in 0..totalPayment'
        <5>1. CASE i \in 1..Len(vouchers)
          <6>1. vouchers[i].amount \in 0..totalPayment /\ vouchers'[i] = vouchers[i]
            BY <4>1, <5>1
          <6> QED
            BY <3>0, <6>1
        <5>2. CASE i = Len(vouchers) + 1
          BY <3>0, <4>1, <5>2
        <5> QED
          BY <4>1, <5>1, <5>2
      <4>3. VouchersInSequence'
        <5> SUFFICES ASSUME NEW i \in 1..Len(vouchers')
                     PROVE  /\ vouchers'[i].nonce = i - 1
                            /\ i > 1 => vouchers'[i].amount > vouchers'[i - 1].amount
          BY DEF VouchersInSequence
        <5>1. CASE i \in 1..Len(vouchers)
          <6>1. /\ vouchers[i].nonce = i - 1
                /\ i > 1 => vouchers[i].amount > vouchers[i - 1].amount
            BY <5>1 DEF VouchersInSequence
          <6>2. vouchers'[i] = vouchers[i] /\ (i > 1 => vouchers'[i - 1] = vouchers[i - 1])
            <7>1. i > 1 => i - 1 \in 1..Len(vouchers)
              BY <5>1
            <7> QED
              BY <4>1, <5>1, <7>1
          <6> QED
            BY <6>1, <6>2
        <5>2. CASE i = Len(vouchers) + 1
          <6>1. vouchers'[i].nonce = i - 1 /\ vouchers'[i].amount = totalPayment
            BY <4>1, <5>2
          <6>2. ASSUME i > 1
                PROVE  vouchers'[i - 1].amount < totalPayment
            <7>1. i - 1 \in 1..Len(vouchers)
              BY <5>2, <6>2
            <7>2. vouchers'[i - 1] = vouchers[i - 1] /\ vouchers[i - 1].amount < totalPayment
              BY <3>0, <4>1, <7>1
            <7> QED
              BY <7>2
          <6>3. totalPayment \in Nat /\ (i > 1 => vouchers'[i - 1].amount \in 0..totalPayment)
            BY <3>0, <4>1, <4>2, <5>2
          <6> QED
            BY <6>1, <6>2, <6>3
        <5> QED
          BY <4>1, <5>1, <5>2
      <4>4. LastPaid' = totalPayment'
        <5>1. vouchers' # <<>>
          BY <4>1
        <5> QED
          BY <3>0, <4>1, <5>1 DEF LastPaid
      <4>5. UNCHANGED ruling
        BY <3>2 DEF NoFinish
      <4> QED
        BY <3>0, <3>2, <4>1, <4>2, <4>3, <4>4, <4>5
    <3> QED
      BY <2>25, <3>1, <3>2 DEF SendVoucher
  <2>26. CASE UNCHANGED vars
    BY <2>26 DEF vars
  <2> QED
    BY <2>1, <2>2, <2>3, <2>4, <2>5, <2>6, <2>7, <2>8, <2>9, <2>10, <2>11,
       <2>12, <2>13, <2>14, <2>15, <2>16, <2>17, <2>18, <2>19, <2>20, <2>21,
       <2>22, <2>23, <2>24, <2>25, <2>26
       DEF Next, Function, Callback
<1> QED
  BY <1>1, <1>2, JudgedHolds, PTL DEF Spec

\* The vouchers count 0, 1, 2, ... and their amounts grow, whichever payments fail.
THEOREM VouchersInSequenceHolds == Spec => []VouchersInSequence
<1>1. Drawn => VouchersInSequence
  BY DEF Drawn
<1> QED
  BY <1>1, DrawnHolds, PTL

\* The payment a successful retrieval reports is the one its last voucher promised, unless
\* the provider asked for more when it had completed the deal.
THEOREM ReportedIsPaidHolds == Spec => ReportedIsPaid
<1>1. Judged /\ Drawn => (pc = "check" /\ result' = "success" /\ ~overdue =>
        totalPayment = IF vouchers = <<>> THEN 0 ELSE vouchers[Len(vouchers)].amount)
  BY DEF Judged, Drawn, LastPaid
<1> QED
  BY <1>1, JudgedHolds, DrawnHolds, PTL DEF ReportedIsPaid

-----------------------------------------------------------------------------
(* Types. *)

\* What Place and Drawn leave open.  A payment raises the nonce by at most one and the
\* total by at most MaxOwed.
Typed ==
  /\ localPch \in {Undef, Paych}
  /\ dtRes \in Seq({"success", "error"}) /\ Len(dtRes) <= 1
  /\ ruling \in {"none", "success", "error"}
  /\ cb \in {"idle", "progress", "paying", "sending"}
  /\ pub \in Seq({"proposed", "accepted", "first-byte", "success", "failure"})
  /\ progress \in 0..MaxProgress /\ payments \in 0..MaxPayments
  /\ nonce \in Nat /\ nonce <= payments /\ (cb \in {"paying", "sending"} => nonce < payments)
  /\ totalPayment \in Nat /\ totalPayment <= payments * MaxOwed

\* What is true or false.
Truths ==
  /\ pchRequired \in BOOLEAN /\ chanid \in BOOLEAN /\ subscribed \in BOOLEAN
  /\ allBytesReceived \in BOOLEAN /\ dealComplete \in BOOLEAN /\ receivedFirstByte \in BOOLEAN
  /\ cancelled \in BOOLEAN /\ shutdown \in BOOLEAN /\ readsProgress \in BOOLEAN
  /\ closing \in BOOLEAN /\ finished \in BOOLEAN /\ completed \in BOOLEAN
  /\ endedEarly \in BOOLEAN /\ overdue \in BOOLEAN

\* Every step keeps what is true or false.
LEMMA TruthsHold == Spec => []Truths
<1>1. Init => Truths
  BY ConstantsAssumption DEF Init, Truths
<1>2. Truths /\ [Next]_vars => Truths'
  <2> SUFFICES ASSUME Truths, [Next]_vars PROVE Truths'
    OBVIOUS
  <2> USE DEF Truths, Emits, main, setup, counters, flags, channel, callback,
          rulings, user, remote
  <2>1. CASE SetUpPaych
    BY <2>1 DEF SetUpPaych, FailBefore, ReturnWith, Publish
  <2>2. CASE SubscribeToEvents
    BY <2>2 DEF SubscribeToEvents
  <2>3. CASE OpenCalled
    BY <2>3 DEF OpenCalled
  <2>4. CASE OpenReturns
    BY <2>4 DEF OpenReturns, FailBefore, ReturnWith, Publish
  <2>5. CASE StoreChanid
    BY <2>5 DEF StoreChanid
  <2>6. CASE ReceiveResult
    BY <2>6 DEF ReceiveResult, FailBefore, ReturnWith, Publish
  <2>7. CASE ContextDone
    BY <2>7 DEF ContextDone, ReturnWith
  <2>8. CASE Confirm
    <3>1. UNCHANGED <<pchRequired, chanid, subscribed>> /\ UNCHANGED <<callback, user, remote>>
          /\ UNCHANGED endedEarly
      BY <2>8 DEF Confirm
    <3> QED
      BY <3>1
  <2>9. CASE DeferredClose
    BY <2>9 DEF DeferredClose
  <2>10. CASE DeferredUnsubscribe
    <3>1. subscribed' \in BOOLEAN
      BY <2>10 DEF DeferredUnsubscribe
    <3>2. UNCHANGED <<pchRequired, chanid, endedEarly, callback, user, remote>>
      BY <2>10 DEF DeferredUnsubscribe
    <3> QED
      BY <3>1, <3>2
  <2>11. CASE ReceiveShutdown
    <3>1. shutdown' \in BOOLEAN /\ closing' \in BOOLEAN
      BY <2>11 DEF ReceiveShutdown
    <3>2. UNCHANGED <<main, subscribed, callback, cancelled, readsProgress, channel, endedEarly>>
      BY <2>11 DEF ReceiveShutdown
    <3> QED
      BY <3>1, <3>2
  <2>12. CASE OnError
    BY <2>12 DEF OnError, Finish, NoFinish
  <2>13. CASE OnCleanupComplete
    BY <2>13 DEF OnCleanupComplete, Ends, Finish, NoFinish
  <2>14. CASE OnAccepted
    BY <2>14 DEF OnAccepted, Publish
  <2>15. CASE OnRefused
    BY <2>15 DEF OnRefused, Finish
  <2>16. CASE OnDealCompleted
    BY <2>16 DEF OnDealCompleted, Finish, NoFinish
  <2>17. CASE OnFinishTransfer
    BY <2>17 DEF OnFinishTransfer, Finish, NoFinish
  <2>18. CASE OnProgress
    BY <2>18 DEF OnProgress, Publish
  <2>19. CASE ProgressReturns
    BY <2>19 DEF ProgressReturns
  <2>20. ASSUME NEW owed \in 1..MaxOwed, OnFundsNeeded(owed) PROVE Truths'
    BY <2>20 DEF OnFundsNeeded, FundsAsked, Finish, NoFinish
  <2>21. CASE Cancel
    BY <2>21 DEF Cancel
  <2>22. CASE GracefulShutdown
    BY <2>22 DEF GracefulShutdown
  <2>23. CASE OnCancel
    BY <2>23 DEF OnCancel
  <2>24. CASE CreateVoucher
    BY <2>24 DEF CreateVoucher, Finish, NoFinish
  <2>25. CASE SendVoucher
    BY <2>25 DEF SendVoucher, Finish, NoFinish
  <2>26. CASE UNCHANGED vars
    BY <2>26 DEF vars
  <2> QED
    BY <2>1, <2>2, <2>3, <2>4, <2>5, <2>6, <2>7, <2>8, <2>9, <2>10, <2>11,
       <2>12, <2>13, <2>14, <2>15, <2>16, <2>17, <2>18, <2>19, <2>20, <2>21,
       <2>22, <2>23, <2>24, <2>25, <2>26
       DEF Next, Function, Callback
<1> QED
  BY <1>1, <1>2, PTL DEF Spec

\* A ruling fits the channel of one place.
LEMMA FinishKept ==
  ASSUME Typed, NEW v \in {"success", "error"}, Finish(v)
  PROVE  /\ dtRes' \in Seq({"success", "error"}) /\ Len(dtRes') <= 1
         /\ ruling' \in {"none", "success", "error"}
<1>1. <<v>> \in Seq({"success", "error"}) /\ Len(<<v>>) = 1
  OBVIOUS
<1>2. dtRes' = <<v>> \/ dtRes' = dtRes
  BY DEF Finish
<1>3. dtRes' \in Seq({"success", "error"}) /\ Len(dtRes') <= 1
  <2>1. CASE dtRes' = <<v>>
    BY <1>1, <2>1
  <2>2. CASE dtRes' = dtRes
    BY <2>2 DEF Typed
  <2> QED
    BY <1>2, <2>1, <2>2
<1> QED
  BY <1>3 DEF Finish, Typed

\* Every step keeps the types and the bounds.
LEMMA TypedHolds == Spec => []Typed
<1>1. Init => Typed
  BY ConstantsAssumption DEF Init, Typed
<1>2. Typed /\ [Next]_vars => Typed'
  <2> SUFFICES ASSUME Typed, [Next]_vars PROVE Typed'
    OBVIOUS
  <2> USE ConstantsAssumption, FinishKept DEF Typed, Emits, main, setup, counters,
          flags, channel, callback, rulings, user, remote
  <2>1. CASE SetUpPaych
    <3>1. pub' = pub \/ pub' = Append(pub, "failure")
      BY <2>1 DEF SetUpPaych, FailBefore, Publish
    <3>2. pub' \in Seq({"proposed", "accepted", "first-byte", "success", "failure"})
      BY <3>1
    <3>3. localPch' \in {Undef, Paych} /\ UNCHANGED <<rulings, callback, channel>>
      BY <2>1 DEF SetUpPaych
    <3> QED
      BY <3>2, <3>3
  <2>2. CASE SubscribeToEvents
    BY <2>2 DEF SubscribeToEvents
  <2>3. CASE OpenCalled
    BY <2>3 DEF OpenCalled
  <2>4. CASE OpenReturns
    BY <2>4 DEF OpenReturns, FailBefore, ReturnWith, Publish
  <2>5. CASE StoreChanid
    BY <2>5 DEF StoreChanid
  <2>6. CASE ReceiveResult
    <3>1. /\ dtRes' = <<>> /\ (pub' = pub \/ pub' = Append(pub, "failure"))
          /\ UNCHANGED <<setup, chanid, subscribed, callback, user, remote, ruling, endedEarly>>
      BY <2>6 DEF ReceiveResult, FailBefore, ReturnWith, Publish
    <3>2. dtRes' \in Seq({"success", "error"}) /\ Len(dtRes') <= 1
      BY <3>1
    <3>3. pub' \in Seq({"proposed", "accepted", "first-byte", "success", "failure"})
      BY <3>1
    <3> QED
      BY <3>1, <3>2, <3>3
  <2>7. CASE ContextDone
    BY <2>7 DEF ContextDone, ReturnWith
  <2>8. CASE Confirm
    BY <2>8 DEF Confirm, FailBefore, ReturnWith, Publish
  <2>9. CASE DeferredClose
    BY <2>9 DEF DeferredClose
  <2>10. CASE DeferredUnsubscribe
    BY <2>10 DEF DeferredUnsubscribe
  <2>11. CASE ReceiveShutdown
    BY <2>11 DEF ReceiveShutdown
  <2>12. CASE OnError
    BY <2>12 DEF OnError, NoFinish
  <2>13. CASE OnCleanupComplete
    BY <2>13 DEF OnCleanupComplete, NoFinish
  <2>14. CASE OnAccepted
    BY <2>14 DEF OnAccepted, Publish
  <2>15. CASE OnRefused
    BY <2>15 DEF OnRefused
  <2>16. CASE OnDealCompleted
    BY <2>16 DEF OnDealCompleted, NoFinish
  <2>17. CASE OnFinishTransfer
    BY <2>17 DEF OnFinishTransfer, NoFinish
  <2>18. CASE OnProgress
    BY <2>18 DEF OnProgress, Publish
  <2>19. CASE ProgressReturns
    BY <2>19 DEF ProgressReturns
  <2>20. ASSUME NEW owed \in 1..MaxOwed, OnFundsNeeded(owed) PROVE Typed'
    <3>1. /\ payments < MaxPayments /\ payments' = payments + 1 /\ owed \in Nat
          /\ owed <= MaxOwed /\ MaxOwed \in Nat /\ MaxPayments \in Nat
          /\ (payments + 1) * MaxOwed = payments * MaxOwed + MaxOwed
          /\ UNCHANGED <<localPch, pub, progress, nonce>>
      BY <2>20, ConstantsAssumption DEF OnFundsNeeded, FundsAsked
    <3>2. cb' \in {"idle", "progress", "paying", "sending"}
      BY <2>20 DEF OnFundsNeeded
    <3>3. totalPayment' \in Nat /\ totalPayment' <= payments' * MaxOwed
      BY <2>20, <3>1 DEF OnFundsNeeded
    <3>4. /\ dtRes' \in Seq({"success", "error"}) /\ Len(dtRes') <= 1
          /\ ruling' \in {"none", "success", "error"}
      BY <2>20, FinishKept DEF OnFundsNeeded, NoFinish
    <3> QED
      BY <3>1, <3>2, <3>3, <3>4
  <2>21. CASE Cancel
    BY <2>21 DEF Cancel
  <2>22. CASE GracefulShutdown
    BY <2>22 DEF GracefulShutdown
  <2>23. CASE OnCancel
    BY <2>23 DEF OnCancel
  <2>24. CASE CreateVoucher
    BY <2>24 DEF CreateVoucher, NoFinish
  <2>25. CASE SendVoucher
    BY <2>25 DEF SendVoucher, NoFinish
  <2>26. CASE UNCHANGED vars
    BY <2>26 DEF vars
  <2> QED
    BY <2>1, <2>2, <2>3, <2>4, <2>5, <2>6, <2>7, <2>8, <2>9, <2>10, <2>11,
       <2>12, <2>13, <2>14, <2>15, <2>16, <2>17, <2>18, <2>19, <2>20, <2>21,
       <2>22, <2>23, <2>24, <2>25, <2>26
       DEF Next, Function, Callback
<1> QED
  BY <1>1, <1>2, PTL DEF Spec

\* Every variable keeps to its values, and the counters to the bounds of what a
\* provider may ask for.
THEOREM TypeCorrect == Spec => []TypeOK
<1>1. Place /\ Drawn /\ Typed /\ Truths => TypeOK
  <2> SUFFICES ASSUME Place, Drawn, Typed, Truths PROVE TypeOK
    OBVIOUS
  <2>1. nonce \in 0..MaxPayments /\ payments * MaxOwed <= MaxPayments * MaxOwed
    BY ConstantsAssumption DEF Typed
  <2>2. totalPayment \in 0..(MaxPayments * MaxOwed)
    BY <2>1, ConstantsAssumption DEF Typed
  <2>3. \A b \in {pchRequired, chanid, subscribed, allBytesReceived, dealComplete,
                 receivedFirstByte, cancelled, shutdown, readsProgress, closing, finished,
                 completed, endedEarly, overdue} : b \in BOOLEAN
    BY Zenon DEF Truths
  <2> QED
    BY <2>1, <2>2, <2>3 DEF Place, Drawn, Typed, TypeOK, Working, Opening
<1> QED
  BY <1>1, PlaceHolds, DrawnHolds, TypedHolds, TruthsHold, PTL
=============================================================================
