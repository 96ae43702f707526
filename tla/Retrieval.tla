----------------------------- MODULE Retrieval -----------------------------
(***************************************************************************)
(* One retrieval: retrieveContentFromPeerWithProgressCallback and its      *)
(* asynchronous wrapper (filclient.go).                                    *)
(*                                                                         *)
(* Two goroutines of the client work on it: the function itself and the    *)
(* callback it registers with the data transfer manager.  They share       *)
(* chanid (under a lock), dtRes (a channel that holds one ruling) and the *)
(* counters of the payment vouchers.  The data transfer manager, the       *)
(* provider behind it and the payment channel manager are not in this      *)
(* repository; the user may cancel the context, ask for a graceful         *)
(* shutdown, and reads the progress channel or does not.                   *)
(***************************************************************************)
EXTENDS Naturals, Sequences

CONSTANTS
  Undef, Paych,   \* payment channel addresses: address.Undef, and the real one
  MaxOwed,        \* bound: the amount of one payment request
  MaxPayments,    \* bound: payment requests of the provider
  MaxProgress,    \* bound: progress events
  MaxPublished    \* bound: events published when the provider accepts, again or not

ASSUME ConstantsAssumption ==
  /\ Undef # Paych
  /\ MaxOwed \in Nat \ {0} /\ MaxPayments \in Nat
  /\ MaxProgress \in Nat /\ MaxPublished \in Nat

VARIABLES
  \* the function
  pc, pchRequired, pchAddr, localPch, chanid, result,
  \* shared with the callback
  dtRes, subscribed,
  \* the callback
  cb, allBytesReceived, dealComplete, receivedFirstByte, nonce, totalPayment,
  \* user, who reads the progress channel or does not (chosen once)
  cancelled, shutdown, readsProgress,
  \* the data transfer channel: its life, what the provider still may do, and
  \* whether the client has asked to close it
  ch, closing, payments, progress, finished, completed,
  \* history: published events, vouchers sent, the first ruling, whether the channel
  \* ended before its identifier was known, and whether the provider asked for funds
  \* when it had completed the deal
  pub, vouchers, ruling, endedEarly, overdue

setup    == <<pchRequired, pchAddr, localPch>>
main     == <<pc, setup, chanid, result>>
counters == <<nonce, totalPayment, vouchers>>
flags    == <<allBytesReceived, dealComplete, receivedFirstByte>>
channel  == <<payments, progress, finished, completed, overdue>>
callback == <<cb, counters, flags>>
rulings == <<dtRes, ruling>>
user     == <<cancelled, shutdown, readsProgress>>
remote   == <<ch, closing, channel>>
vars == <<main, rulings, subscribed, callback, user, remote, pub, endedEarly>>

Init ==
  /\ pc = "start" /\ pchRequired \in BOOLEAN
  /\ pchAddr = Undef /\ localPch = Undef /\ chanid = FALSE
  /\ result = "none"
  /\ dtRes = <<>> /\ subscribed = FALSE /\ cb = "idle"
  /\ allBytesReceived = FALSE /\ dealComplete = FALSE /\ receivedFirstByte = FALSE
  /\ nonce = 0 /\ totalPayment = 0
  /\ cancelled = FALSE /\ shutdown = FALSE /\ readsProgress \in BOOLEAN
  /\ ch = "none" /\ closing = FALSE
  /\ payments = 0 /\ progress = 0 /\ finished = FALSE /\ completed = FALSE
  /\ pub = <<>> /\ vouchers = <<>> /\ ruling = "none" /\ endedEarly = FALSE
  /\ overdue = FALSE

Publish(code) == pub' = Append(pub, code)

-----------------------------------------------------------------------------
(* The function. *)

\* Return with a result; the deferred calls follow, last registered first.
ReturnWith(r, next) == result' = r /\ pc' = next

\* Deviation: an error is returned and not published.
FailSilently(next) == ReturnWith("error", next) /\ UNCHANGED pub

FailBefore(next) == ReturnWith("error", next) /\ Publish("failure")

\* getPaychWithMinFunds and AllocateLane (on localPch).  The address is assigned to a variable of
\* the if block ("pchAddr, err :="): the one the callback uses keeps its zero value.
SetUpPaych ==
  /\ pc = "start" /\ pchRequired
  /\ \/ /\ localPch' = Paych /\ pc' = "subscribe"
        /\ UNCHANGED <<result, pub>>
     \/ FailBefore("done") /\ UNCHANGED localPch
  /\ UNCHANGED <<pchRequired, pchAddr, chanid, rulings, subscribed, callback, user,
                 remote, endedEarly>>

SubscribeToEvents ==
  /\ pc = "subscribe" \/ (pc = "start" /\ ~pchRequired)
  /\ subscribed' = TRUE /\ pc' = "open"
  /\ UNCHANGED <<setup, chanid, result, rulings, callback, user, remote, pub,
                 endedEarly>>

\* OpenPullDataChannel is called: the channel exists, and has events, before the
\* call returns.
OpenCalled ==
  /\ pc = "open"
  /\ pc' = "opening" /\ ch' = "open"
  /\ UNCHANGED <<setup, chanid, result, rulings, subscribed, callback, user, closing,
                 channel, pub, endedEarly>>

\* Deviation: the callback is let in and the proposal is not announced.
OpenReturnsQuietly ==
  /\ pc = "opening"
  /\ pc' = "opened" /\ chanid' = TRUE
  /\ UNCHANGED <<setup, result, rulings, subscribed, callback, user, remote, pub,
                 endedEarly>>

OpenReturns ==
  /\ pc = "opening"
  /\ \/ pc' = "opened" /\ Publish("proposed") /\ UNCHANGED <<result, ch>>
     \/ FailBefore("unsubscribe") /\ ch' = "ended"
  /\ UNCHANGED <<setup, chanid, rulings, subscribed, callback, user, closing, channel,
                 endedEarly>>

StoreChanid ==
  /\ pc = "opened"
  /\ chanid' = TRUE /\ pc' = "wait"
  /\ UNCHANGED <<setup, result, rulings, subscribed, callback, user, remote, pub,
                 endedEarly>>

\* The select of awaitfinished.
ReceiveResult ==
  /\ pc = "wait" /\ dtRes # <<>>
  /\ dtRes' = <<>>
  /\ IF Head(dtRes) = "error"
     THEN FailBefore("close")
     ELSE pc' = "check" /\ UNCHANGED <<result, pub>>
  /\ UNCHANGED <<setup, chanid, subscribed, callback, user, remote, ruling, endedEarly>>

\* Deviation: the request is taken, the channel is not closed.
ReceiveShutdownIdly ==
  /\ pc = "wait" /\ shutdown
  /\ shutdown' = FALSE
  /\ UNCHANGED <<main, rulings, subscribed, callback, cancelled, readsProgress, remote, pub, endedEarly>>

ReceiveShutdown ==
  /\ pc = "wait" /\ shutdown
  /\ shutdown' = FALSE /\ closing' = TRUE
  /\ UNCHANGED <<main, rulings, subscribed, callback, cancelled, readsProgress, ch, channel, pub,
                 endedEarly>>

\* Deviation: a cancelled context is logged and the wait goes on.
ContextDoneWaits ==
  /\ pc = "wait" /\ cancelled
  /\ UNCHANGED vars

\* The error of the context is returned like any other, and it is not published.
ContextDone ==
  /\ pc = "wait" /\ cancelled
  /\ ReturnWith("error", "close")
  /\ UNCHANGED <<setup, chanid, rulings, subscribed, callback, user, remote, pub,
                 endedEarly>>

\* blockstore.Has(rootCid) and ChannelState: success, or a failure that names what
\* is missing.
Confirm ==
  /\ pc = "check"
  /\ \/ ReturnWith("success", "close") /\ Publish("success")
     \/ FailBefore("close")
  /\ UNCHANGED <<setup, chanid, rulings, subscribed, callback, user, remote,
                 endedEarly>>

DeferredClose ==
  /\ pc = "close"
  /\ closing' = TRUE /\ pc' = "unsubscribe"
  /\ UNCHANGED <<setup, chanid, result, rulings, subscribed, callback, user, ch,
                 channel, pub, endedEarly>>

\* unsubscribe; the wrapper then delivers the result and cancels internalCtx.
DeferredUnsubscribe ==
  /\ pc = "unsubscribe"
  /\ subscribed' = FALSE /\ pc' = "done"
  /\ UNCHANGED <<setup, chanid, result, rulings, callback, user, remote, pub,
                 endedEarly>>

-----------------------------------------------------------------------------
(* The callback.  One event at a time reaches it, and only an event of the   *)
(* channel whose identifier the function has stored goes further.            *)

Hears == subscribed /\ chanid /\ cb = "idle"

\* An event that concerns nobody: there is no subscriber, or chanid is not yet set.
Unheard == cb = "idle" /\ ~(subscribed /\ chanid)

\* Deviation: the last ruling replaces the first.
FinishLastWins(v) ==
  /\ dtRes' = <<v>>
  /\ ruling' = IF ruling = "none" THEN v ELSE ruling

\* finish: the channel keeps the first ruling until the function takes it.
Finish(v) ==
  /\ dtRes' = IF dtRes = <<>> THEN <<v>> ELSE dtRes
  /\ ruling' = IF ruling = "none" THEN v ELSE ruling

NoFinish == UNCHANGED rulings

\* Events of the channel that the provider and the transfer manager cause.
Emits == ch = "open"

OnError ==
  /\ Emits /\ (Hears \/ Unheard)
  /\ ch' = "failed"
  /\ IF Hears THEN Finish("error") ELSE NoFinish
  /\ UNCHANGED <<main, subscribed, callback, user, closing, channel, pub, endedEarly>>

\* The provider cancels the transfer: a case without a body (line 1945).
OnCancel ==
  /\ Emits /\ cb = "idle"
  /\ ch' = "cancelled"
  /\ UNCHANGED <<main, rulings, subscribed, callback, user, closing, channel, pub,
                 endedEarly>>

\* What ends a channel: a failure, either side's cancellation, or completion.
Ends ==
  \/ ch \in {"failed", "cancelled"}
  \/ ch = "open" /\ (closing \/ (finished /\ completed))

\* Deviation: the end of the channel is not a ruling.
OnCleanupCompleteIgnored ==
  /\ (Hears \/ Unheard) /\ Ends
  /\ ch' = "ended"
  /\ endedEarly' = (endedEarly \/ (subscribed /\ ~chanid))
  /\ UNCHANGED <<main, rulings, subscribed, callback, user, closing, channel, pub>>

\* The last event of a channel, however it ended.
OnCleanupComplete ==
  /\ (Hears \/ Unheard) /\ Ends
  /\ ch' = "ended"
  /\ IF Hears THEN Finish("success") ELSE NoFinish
  /\ endedEarly' = (endedEarly \/ (subscribed /\ ~chanid))
  /\ UNCHANGED <<main, subscribed, callback, user, closing, channel, pub>>

\* DealStatusAccepted, each time it is the result of a voucher.
OnAccepted ==
  /\ Emits /\ Hears /\ Len(pub) < MaxPublished
  /\ Publish("accepted")
  /\ UNCHANGED <<main, rulings, subscribed, callback, user, remote, endedEarly>>

\* A request for funds, whether or not the provider has completed the deal.
FundsAsked ==
  /\ Emits /\ Hears /\ payments < MaxPayments
  /\ payments' = payments + 1 /\ overdue' = (overdue \/ completed)
  /\ UNCHANGED <<main, subscribed, flags, nonce, vouchers, user, ch, closing, progress,
                 finished, completed, pub, endedEarly>>

\* Deviation: the voucher will be for the amount owed, not for the total.
OnFundsNeededNotCumulative(owed) ==
  /\ FundsAsked /\ pchRequired
  /\ totalPayment' = owed /\ cb' = "paying" /\ NoFinish

\* DealStatusFundsNeeded and DealStatusFundsNeededLastPayment: what is owed is counted
\* before it is paid.
OnFundsNeeded(owed) ==
  /\ FundsAsked
  /\ \/ /\ pchRequired
        /\ totalPayment' = totalPayment + owed /\ cb' = "paying" /\ NoFinish
     \/ /\ ~pchRequired
        /\ Finish("error") /\ UNCHANGED <<cb, totalPayment>>

\* Deviation: a voucher that cannot be created is logged only.
CreateVoucherCarriesOn ==
  /\ cb = "paying" /\ cb' \in {"sending", "idle"} /\ NoFinish
  /\ UNCHANGED <<main, subscribed, counters, flags, user, remote, pub, endedEarly>>

\* pchmgr.CreateVoucher, which fails or finds that funds run short.
CreateVoucher ==
  /\ cb = "paying"
  /\ \/ cb' = "sending" /\ NoFinish
     \/ cb' = "idle" /\ Finish("error")
  /\ UNCHANGED <<main, subscribed, counters, flags, user, remote, pub, endedEarly>>

\* dataTransfer.SendVoucher, and nonce++ once it has succeeded.
SendVoucher ==
  /\ cb = "sending" /\ cb' = "idle"
  /\ \/ /\ vouchers' = Append(vouchers, [ch |-> pchAddr, nonce |-> nonce,
                                         amount |-> totalPayment])
        /\ nonce' = nonce + 1 /\ NoFinish
     \/ Finish("error") /\ UNCHANGED <<vouchers, nonce>>
  /\ UNCHANGED <<main, subscribed, totalPayment, flags, user, remote, pub, endedEarly>>

\* Rejected, sealed, cancelled or errored deals.
OnRefused ==
  /\ Emits /\ Hears
  /\ Finish("error")
  /\ UNCHANGED <<main, subscribed, callback, user, remote, pub, endedEarly>>

OnDealCompleted ==
  /\ Emits /\ (Hears \/ Unheard) /\ ~completed
  /\ completed' = TRUE
  /\ IF Hears /\ allBytesReceived THEN Finish("success") ELSE NoFinish
  /\ dealComplete' = (dealComplete \/ (Hears /\ ~allBytesReceived))
  /\ UNCHANGED <<main, subscribed, cb, counters, allBytesReceived, receivedFirstByte,
                 user, ch, closing, payments, progress, finished, overdue, pub, endedEarly>>

OnFinishTransfer ==
  /\ Emits /\ (Hears \/ Unheard) /\ ~finished
  /\ finished' = TRUE
  /\ IF Hears /\ dealComplete THEN Finish("success") ELSE NoFinish
  /\ allBytesReceived' = (allBytesReceived \/ (Hears /\ ~dealComplete))
  /\ UNCHANGED <<main, subscribed, cb, counters, dealComplete, receivedFirstByte, user,
                 ch, closing, payments, progress, completed, overdue, pub, endedEarly>>

\* DataReceivedProgress: the first-byte event, then the user's progress callback,
\* which blocks on an unbuffered channel.
OnProgress ==
  /\ Emits /\ Hears /\ ~finished /\ progress < MaxProgress
  /\ progress' = progress + 1
  /\ IF receivedFirstByte THEN UNCHANGED pub ELSE Publish("first-byte")
  /\ receivedFirstByte' = TRUE
  /\ cb' = "progress"
  /\ UNCHANGED <<main, rulings, subscribed, counters, allBytesReceived, dealComplete,
                 user, ch, closing, payments, finished, completed, overdue, endedEarly>>

\* The user reads the progress, or internalCtx is cancelled.
ProgressReturns ==
  /\ cb = "progress"
  /\ readsProgress \/ cancelled \/ pc = "done"
  /\ cb' = "idle"
  /\ UNCHANGED <<main, rulings, subscribed, counters, flags, user, remote, pub,
                 endedEarly>>

-----------------------------------------------------------------------------
(* The user. *)

Cancel ==
  /\ ~cancelled /\ cancelled' = TRUE
  /\ UNCHANGED <<main, rulings, subscribed, callback, shutdown, readsProgress, remote, pub,
                 endedEarly>>

\* gracefulShutdown: a request waits in a channel of one place.
GracefulShutdown ==
  /\ ~shutdown /\ ~closing /\ shutdown' = TRUE
  /\ UNCHANGED <<main, rulings, subscribed, callback, cancelled, readsProgress, remote, pub,
                 endedEarly>>

Function == \/ SetUpPaych \/ SubscribeToEvents \/ OpenCalled \/ OpenReturns \/ StoreChanid
            \/ ReceiveResult \/ ContextDone \/ Confirm \/ DeferredClose \/ DeferredUnsubscribe

Callback == \/ OnError \/ OnCancel \/ OnCleanupComplete \/ OnAccepted \/ OnRefused
            \/ OnDealCompleted \/ OnFinishTransfer \/ OnProgress \/ ProgressReturns
            \/ \E owed \in 1..MaxOwed : OnFundsNeeded(owed)
            \/ CreateVoucher \/ SendVoucher

Next == Function \/ ReceiveShutdown \/ Callback \/ Cancel \/ GracefulShutdown

Spec == Init /\ [][Next]_vars

\* The function runs, its calls and the callback's into the transfer manager and the
\* payment channel manager return, a reading user reads, and a channel that failed, was
\* cancelled or was closed is cleaned up.
FairSpec ==
  /\ Spec
  /\ WF_vars(Function) /\ WF_vars(ReceiveShutdown) /\ WF_vars(ProgressReturns)
  /\ WF_vars(CreateVoucher) /\ WF_vars(SendVoucher)
  /\ SF_vars(OnCleanupComplete)

-----------------------------------------------------------------------------
(* Properties. *)

Published(code) == {i \in 1..Len(pub) : pub[i] = code}

\* Every variable keeps to its values.
TypeOK ==
  /\ pc \in {"start", "subscribe", "open", "opening", "opened", "wait", "check", "close",
             "unsubscribe", "done"}
  /\ result \in {"none", "success", "error"}
  /\ pchAddr \in {Undef, Paych} /\ localPch \in {Undef, Paych}
  /\ \A b \in {pchRequired, chanid, subscribed, allBytesReceived, dealComplete,
              receivedFirstByte, cancelled, shutdown, readsProgress, closing, finished, completed,
              endedEarly, overdue} : b \in BOOLEAN
  /\ dtRes \in Seq({"success", "error"}) /\ Len(dtRes) <= 1
  /\ ruling \in {"none", "success", "error"} 
  /\ cb \in {"idle", "progress", "paying", "sending"}
  /\ nonce \in 0..MaxPayments /\ totalPayment \in 0..(MaxPayments * MaxOwed)
  /\ payments \in 0..MaxPayments /\ progress \in 0..MaxProgress
  /\ ch \in {"none", "open", "failed", "cancelled", "ended"}
  /\ pub \in Seq({"proposed", "accepted", "first-byte", "success", "failure"})
  /\ vouchers \in Seq([ch : {Undef, Paych}, nonce : Nat, amount : Nat])

\* The callback's events follow the function's: although two goroutines publish,
\* nobody sees a retrieval accepted, or its first byte, before it is proposed, and
\* nobody sees two ends of it or two first bytes.  Only an acceptance may come again: the
\* callback publishes each one that it gets (line 1968).
PublishedInOrder ==
  \A i, j \in 1..Len(pub) :
    /\ pub[i] \in {"accepted", "first-byte"} => \E k \in 1..(i - 1) : pub[k] = "proposed"
    /\ pub[i] = pub[j] /\ pub[i] # "accepted" => i = j
    /\ {pub[i], pub[j]} \subseteq {"success", "failure"} => i = j

\* The caller and the subscribers are told the same: success is published exactly when it
\* is returned, and a failure only with an error.  The one error that is not published,
\* although a retrieval ends with success or failure (rep/event.go 18), is that of a user
\* who cancels (line 2123).
ResultMatchesEvents ==
  /\ result = "success" <=> Published("success") # {}
  /\ Published("failure") # {} => result = "error"
  /\ result = "error" /\ Published("failure") = {} => cancelled

\* dtRes keeps the first ruling of the callback: what comes later, the cleanup of a
\* failed channel above all, never turns an error into a success.
FirstVerdictWins == ruling = "error" => result # "success"

\* The vouchers sent in one lane count their nonces 0, 1, 2, ... and their amounts,
\* which are cumulative, grow, also across failed attempts to pay.
VouchersInSequence ==
  \A i \in 1..Len(vouchers) :
    /\ vouchers[i].nonce = i - 1
    /\ i > 1 => vouchers[i].amount > vouchers[i - 1].amount

\* A retrieval that succeeds reports the payment its last voucher promised: the
\* callback is not in the middle of a payment, nor stuck with one it could not make,
\* unless the provider asked for more when it had completed the deal.
ReportedIsPaid ==
  [][pc = "check" /\ result' = "success" /\ ~overdue =>
       totalPayment = IF vouchers = <<>> THEN 0 ELSE vouchers[Len(vouchers)].amount]_vars

\* The function waits for a channel that is gone only if the channel ended between
\* the call that opened it and the assignment of chanid (line 2098).
NoWakeupLost ==
  pc = "wait" /\ ch = "ended" /\ dtRes = <<>> => endedEarly

\* A cancelled retrieval returns, in whatever state provider and callback are.
CancelEndsRetrieval == cancelled ~> pc = "done"

\* A graceful shutdown ends the wait, through the cleanup of the closed channel, if the
\* user reads the progress that holds up the callback.
ShutdownEndsRetrieval ==
  (pc = "wait" /\ shutdown /\ readsProgress) ~> (pc = "done" \/ endedEarly)

\* "Get the payment channel and create a lane for this retrieval" (line 1886),
\* "Respond with a payment voucher when funds are requested" (line 1970): the
\* vouchers are drawn on the channel that was obtained.
VouchersOnOwnChannel ==
  \A i \in 1..Len(vouchers) : vouchers[i].ch = localPch
=============================================================================
