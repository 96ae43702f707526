-------------------------- MODULE DealCommand_proofs --------------------------
(***************************************************************************)
(* Proofs about DealCommand, for any asks and sizes and any number of      *)
(* attempts.  The manager's own invariant is used as TransferManager_proofs *)
(* proves it: every step of the deal command is a step of the manager or   *)
(* leaves the manager alone.  The last section is about the watcher that   *)
(* keeps the connection while the command waits.                           *)
(***************************************************************************)
EXTENDS DealCommand, TransferManager_proofs

\* keepConnection, with its own state.
CONSTANT MaxDrops
VARIABLES watch, up, reports, token, sleeping, reconnecting, cancelled, drops, owed

Watcher == INSTANCE ConnWatcher

\* A proposal meets the ask it was computed from, whatever the sizes and prices.
LEMMA ProposalMeets ==
  ASSUME NEW a \in [price : Nat, verifiedPrice : Nat, minSize : Nat],
         NEW verified \in BOOLEAN
  PROVE  Meets(Proposal(a, verified), a)
<1> DEFINE size == Padded(a.minSize)
<1>1. size \in Nat /\ size >= a.minSize /\ size >= PieceSize
  BY TermsAssumption DEF Padded
<1>2. PriceOf(a, verified) \in Nat
  BY DEF PriceOf
<1>3. PerEpoch(size, PriceOf(a, verified)) >= PerEpoch(size, PriceOf(a, verified))
  <2>1. size * PriceOf(a, verified) \in Nat
    BY <1>1, <1>2
  <2> QED
    BY <2>1, TermsAssumption DEF PerEpoch
<1>4. Collateral(size) >= CollateralMin(size)
  BY <1>1 DEF Collateral, CollateralMin
<1>5. /\ Proposal(a, verified).size = size
      /\ Proposal(a, verified).commitmentSize = size
      /\ Proposal(a, verified).verified = verified
      /\ Proposal(a, verified).perEpoch = PerEpoch(size, PriceOf(a, verified))
      /\ Proposal(a, verified).collateral = Collateral(size)
  BY DEF Proposal
<1> QED
  BY <1>1, <1>3, <1>4, <1>5 DEF Meets

-----------------------------------------------------------------------------
(* The way of the proposal: where the command stands tells what it has done. *)

Asked == {"make", "create", "write", "protocol", "subscribe", "prepare",
          "propose", "propose110"}
Made  == Asked \ {"make"}
Saved == Made \ {"create", "write"}

Way ==
  /\ mpc \in Asked => ask \in Asks
  /\ mpc \in Made => Meets(proposal, ask)
  /\ mpc \in Saved => file = "written"
  /\ provider # "unasked" => file = "written" /\ Meets(proposal, ask)
  /\ mpc \in (Asked \ {"propose", "propose110"}) \cup {"setup", "ask"} =>
       provider = "unasked"

\* Each place of the command says what it has done on the way there.
LEMMA WayHolds == DealSpec => []Way
<1>1. DealInit => Way
  BY DEF DealInit, Way, Asked, Made, Saved
<1>2. Way /\ [DealNext]_allvars => Way'
  <2> SUFFICES ASSUME Way, [DealNext]_allvars PROVE Way'
    OBVIOUS
  <2> USE DEF Way, Asked, Made, Saved, Goes, terms, remote
  <2>1. CASE CmdSetup
    BY <2>1 DEF CmdSetup
  <2>2. CASE CmdAsk
    BY <2>2 DEF CmdAsk
  <2>3. CASE CmdMakeDeal
    <3>1. PICK verified \in BOOLEAN : proposal' = Proposal(ask, verified)
      BY <2>3 DEF CmdMakeDeal
    <3>2. Meets(proposal, ask)'
      BY <2>3, <3>1, ProposalMeets, DealAssumption DEF CmdMakeDeal, Meets
    <3> QED
      BY <2>3, <3>2 DEF CmdMakeDeal
  <2>4. CASE CmdCreateFile
    BY <2>4 DEF CmdCreateFile
  <2>5. CASE CmdWriteFile
    BY <2>5 DEF CmdWriteFile
  <2>6. CASE CmdProtocol
    BY <2>6 DEF CmdProtocol
  <2>7. CASE CmdError
    BY <2>7 DEF CmdError, Stages
  <2>8. CASE CmdSend
    BY <2>8 DEF CmdSend
  <2>9. CASE CmdAccepted
    BY <2>9 DEF CmdAccepted
  <2>10. CASE CmdRejected110 \/ CmdOpenChannel \/ CmdPoll
    BY <2>10 DEF CmdRejected110, CmdOpenChannel, CmdPoll
  <2>11. CASE CmdSubscribe \/ CmdPrepare \/ CmdPrepareError
    BY <2>11 DEF CmdSubscribe, CmdPrepare, CmdPrepareError
  <2>12. CASE CmdRejected \/ CmdCleanup
    BY <2>12 DEF CmdRejected, CmdCleanup
  <2>13. CASE CmdReceive \/ CmdInterrupted \/ CmdUnsubscribe
    BY <2>13 DEF CmdReceive, CmdInterrupted, CmdUnsubscribe
  <2>14. CASE Interrupt
    BY <2>14 DEF Interrupt
  <2>15. CASE ProviderDecides
    BY <2>15 DEF ProviderDecides
  <2>16. CASE ChannelStep
    BY <2>16 DEF ChannelStep
  <2>17. CASE ManagerStep
    BY <2>17 DEF ManagerStep
  <2>18. CASE UNCHANGED allvars
    BY <2>18 DEF allvars
  <2> QED
    BY <2>1, <2>2, <2>3, <2>4, <2>5, <2>6, <2>7, <2>8, <2>9, <2>10, <2>11, <2>12,
       <2>13, <2>14, <2>15, <2>16, <2>17, <2>18 DEF DealNext, CommandStep
<1> QED
  BY <1>1, <1>2, PTL DEF DealSpec

\* A provider has seen only proposals that are on disk in full.
THEOREM ProposalOnDiskHolds == DealSpec => []ProposalOnDisk
<1>1. Way => ProposalOnDisk
  BY DEF Way, ProposalOnDisk
<1> QED
  BY <1>1, WayHolds, PTL

\* A provider has seen only proposals that meet its ask.
THEOREM ProposalMeetsAskHolds == DealSpec => []ProposalMeetsAsk
<1>1. Way => ProposalMeetsAsk
  BY DEF Way, ProposalMeetsAsk
<1> QED
  BY <1>1, WayHolds, PTL

-----------------------------------------------------------------------------
(* The outcome, under a server that waits and without errors.               *)

\* Every step of the deal command is a step of the manager or leaves it alone.
LEMMA DealStepsOfManager == [DealNext]_allvars => [Next]_vars
<1> SUFFICES ASSUME [DealNext]_allvars PROVE [Next]_vars
  OBVIOUS
<1> USE DealAssumption
<1>1. CASE CmdSetup
  BY <1>1 DEF CmdSetup, Next
<1>2. CASE CmdSubscribe \/ CmdUnsubscribe
  BY <1>2 DEF CmdSubscribe, CmdUnsubscribe, Next
<1>3. CASE CmdPrepare \/ CmdRejected \/ CmdCleanup
  BY <1>3 DEF CmdPrepare, CmdRejected, CmdCleanup, ClientStep, Next
<1>4. CASE ManagerStep
  BY <1>4 DEF ManagerStep, ServerStep, Next
<1>5. CASE CmdAsk \/ CmdMakeDeal \/ CmdCreateFile \/ CmdWriteFile \/ CmdProtocol \/ CmdError
  BY <1>5 DEF CmdAsk, CmdMakeDeal, CmdCreateFile, CmdWriteFile, CmdProtocol, CmdError
<1>6. CASE CmdSend \/ CmdAccepted \/ CmdRejected110 \/ CmdOpenChannel \/ CmdPoll
  BY <1>6 DEF CmdSend, CmdAccepted, CmdRejected110, CmdOpenChannel, CmdPoll
<1>7. CASE CmdPrepareError \/ CmdReceive \/ CmdInterrupted
  BY <1>7 DEF CmdPrepareError, CmdReceive, CmdInterrupted
<1>8. CASE Interrupt \/ ProviderDecides \/ ChannelStep
  BY <1>8 DEF Interrupt, ProviderDecides, ChannelStep
<1>9. CASE UNCHANGED allvars
  BY <1>9 DEF allvars
<1> QED
  BY <1>1, <1>2, <1>3, <1>4, <1>5, <1>6, <1>7, <1>8, <1>9 DEF DealNext, CommandStep

\* The deal command uses the manager only as the manager may be used: whatever holds of
\* the manager with any clients holds of it with this one.
THEOREM DealKeepsManager == DealSpec => Spec
<1>1. DealInit => Init
  BY DEF DealInit
<1> QED
  BY <1>1, DealStepsOfManager, PTL DEF DealSpec, Spec

\* Under a server that waits and without errors the deal's request is kept as
\* DataRequests promises.
THEOREM DealKeepsPromise ==
  ASSUME ServerWaits, ~Faults
  PROVE  DealSpec => Implements
<1> QED
  BY DealKeepsManager, ImplementsPromise, PTL

\* What a step of the manager's own goroutines or of the server may do to the deal.
LEMMA ManagerLeaves ==
  ASSUME TypeOK, ExpiryStep \/ HandlerStep(Deal) \/ TokenAges(Deal)
                 \/ Request(Deal) \/ ServerEvent(Deal)
  PROVE  /\ prepared' = prepared /\ auth' \subseteq auth
         /\ \A o \in Outcomes : fired'[Deal][o] >= fired[Deal][o]
         /\ Deal \notin auth /\ srv[Deal] = "idle" => srv'[Deal] = "idle"
<1> DEFINE Goal == /\ prepared' = prepared /\ auth' \subseteq auth
                   /\ \A o \in Outcomes : fired'[Deal][o] >= fired[Deal][o]
                   /\ Deal \notin auth /\ srv[Deal] = "idle" => srv'[Deal] = "idle"
<1> SUFFICES Goal
  OBVIOUS
<1> USE DealAssumption
        DEF TypeOK, Outcomes, durable, server, handler, expiry, locking, history
<1>1. CASE ExpiryStep
  <2>1. CASE ExpiryTick \/ ExpiryTickFails
    BY <2>1 DEF ExpiryTick, ExpiryTickFails
  <2>2. ASSUME NEW x \in Xfers, ExpiryGet(x) PROVE Goal
    BY <2>2 DEF ExpiryGet
  <2>3. CASE ExpiryCancel \/ ExpiryCancelled \/ ExpiryCheck
    BY <2>3 DEF ExpiryCancel, ExpiryCancelled, ExpiryCheck
  <2>4. CASE ExpirySave \/ ExpiryError \/ ExpiryNext
    BY <2>4 DEF ExpirySave, ExpiryError, ExpiryNext
  <2>5. CASE ExpiryNotify
    BY <2>5 DEF ExpiryNotify, CallListener
  <2> QED
    BY <1>1, <2>1, <2>2, <2>3, <2>4, <2>5 DEF ExpiryStep
<1>2. CASE HandlerStep(Deal)
  <2>1. CASE HandlerSave(Deal)
    BY <2>1 DEF HandlerSave
  <2>2. CASE HandlerNotify(Deal)
    BY <2>2 DEF HandlerNotify, CallListener
  <2>3. CASE HandlerReturn(Deal)
    BY <2>3 DEF HandlerReturn
  <2> QED
    BY <1>2, <2>1, <2>2, <2>3 DEF HandlerStep
<1>3. CASE TokenAges(Deal)
  BY <1>3 DEF TokenAges
<1>4. CASE Request(Deal)
  BY <1>4 DEF Request
<1>5. CASE ServerEvent(Deal)
  <2>1. CASE Register(Deal) \/ ServerProgress(Deal) \/ ServerForget(Deal)
    BY <2>1 DEF Register, ServerProgress, ServerForget
  <2>2. CASE ServerComplete(Deal) \/ ServerFail(Deal)
    BY <2>2 DEF ServerComplete, ServerFail
  <2> QED
    BY <1>5, <2>1, <2>2 DEF ServerEvent
<1> QED
  BY <1>1, <1>2, <1>3, <1>4, <1>5

\* Where the command has prepared nothing.
Unprepared == {"setup", "ask", "make", "create", "write", "protocol", "subscribe",
               "prepare", "propose110", "open", "poll"}

\* What is on its way to the command was told by the manager; an outcome stands only
\* when the command has decided; a v1.1.0 deal has no request; and once the cleanup is
\* over, or a proposal of either protocol is reported as rejected, the request is
\* closed for good.
VInv ==
  /\ sending \in Outcomes => fired[Deal][sending] > 0
  /\ outcome # "none" => mpc \in {"cleanup", "unsubscribe", "returned"}
  /\ channel \in DOMAIN ChannelSteps
  /\ channel = "none" \/ mpc \in {"poll", "returned"}
  /\ mpc \in Unprepared \/ channel # "none" => Deal \notin prepared
  /\ outcome \in ChannelEnds =>
       IF channel = "none" THEN outcome \in Outcomes /\ fired[Deal][outcome] > 0
       ELSE outcome = channel
  /\ outcome = "rejected" => Deal \notin auth
  /\ mpc = "cleanup" => Deal \notin auth
  /\ outcome = "rejected" /\ mpc \in {"unsubscribe", "returned"} => srv[Deal] = "idle"

\* What is on its way to the command was told by the manager.
LEMMA VInvHolds ==
  ASSUME ServerWaits, ~Faults
  PROVE  DealSpec => []VInv
<1>1. DealInit => VInv
  BY DealAssumption
     DEF DealInit, Init, VInv, Outcomes, ChannelEnds, ChannelSteps, Unprepared
<1>2. IInv /\ IInv' /\ VInv /\ [DealNext]_allvars => VInv'
  <2> SUFFICES ASSUME IInv, IInv', VInv, [DealNext]_allvars PROVE VInv'
    OBVIOUS
  <2> USE DealAssumption
          DEF VInv, Outcomes, ChannelEnds, Unprepared, Goes, terms, remote
  <2>1. CASE CmdSetup
    BY <2>1 DEF CmdSetup, Start, durable, server, history
  <2>2. CASE CmdAsk \/ CmdMakeDeal \/ CmdCreateFile \/ CmdWriteFile
    BY <2>2 DEF CmdAsk, CmdMakeDeal, CmdCreateFile, CmdWriteFile, vars, durable, server, history
  <2>3. CASE CmdProtocol \/ CmdSend \/ CmdAccepted
    BY <2>3 DEF CmdProtocol, CmdSend, CmdAccepted, vars, durable, server, history
  <2>4. CASE CmdError \/ CmdPrepareError
    BY <2>4 DEF CmdError, CmdPrepareError, Stages, vars, durable, server, history
  <2>5. CASE CmdRejected110
    BY <2>5 DEF CmdRejected110, IInv, TypeOK, Callbacks, vars, durable, server, history
  <2>6. CASE CmdOpenChannel
    BY <2>6 DEF CmdOpenChannel, ChannelSteps, vars, durable, server, history
  <2>7. CASE CmdPoll
    BY <2>7 DEF CmdPoll, vars, durable, server, history
  <2>8. CASE CmdSubscribe
    BY <2>8 DEF CmdSubscribe, Subscribe, durable, server, history
  <2>9. CASE CmdPrepare
    BY <2>9 DEF CmdPrepare, PrepareForDataRequest, server
  <2>10. CASE CmdRejected
    BY <2>10, ~Faults DEF CmdRejected, CleanupPreparedRequest, server, history
  <2>11. CASE CmdCleanup
    <3>1. CASE CleanupCancel(Deal) /\ UNCHANGED mpc
      BY <2>11, <3>1 DEF CmdCleanup, CleanupCancel, durable, history
    <3>2. CASE Goes("cleanup", "unsubscribe") /\ CleanupReturn(Deal)
      <4>1. srv[Deal] = "idle"
        BY <3>2, ServerWaits DEF CleanupReturn, CancelReturns, InMap, IInv, TypeOK, Callbacks
      <4> QED
        BY <2>11, <3>2, <4>1 DEF CmdCleanup, CleanupReturn, durable, server, history
    <3> QED
      BY <2>11, <3>1, <3>2 DEF CmdCleanup
  <2>12. CASE CmdReceive \/ CmdInterrupted
    BY <2>12 DEF CmdReceive, CmdInterrupted, vars, durable, server, history
  <2>13. CASE CmdUnsubscribe
    BY <2>13 DEF CmdUnsubscribe, Unsubscribe, durable, server, history
  <2>14. CASE Interrupt \/ ProviderDecides
    BY <2>14 DEF Interrupt, ProviderDecides, vars, durable, server, history
  <2>15. CASE ChannelStep
    <3>1. channel # "none" /\ channel \notin ChannelEnds
      BY <2>15 DEF ChannelStep, ChannelSteps
    <3>2. channel' # "none" /\ channel' \in DOMAIN ChannelSteps
      BY <2>15 DEF ChannelStep, ChannelSteps
    <3> QED
      BY <2>15, <3>1, <3>2 DEF ChannelStep, vars, durable, server, history
  <2>16. CASE ManagerStep
    <3>1. /\ prepared' = prepared /\ auth' \subseteq auth
          /\ \A o \in Outcomes : fired'[Deal][o] >= fired[Deal][o]
          /\ Deal \notin auth /\ srv[Deal] = "idle" => srv'[Deal] = "idle"
      BY <2>16, ManagerLeaves DEF ManagerStep, IInv
    <3>2. \A o \in Outcomes : fired[Deal][o] \in Nat /\ fired'[Deal][o] \in Nat
      BY DEF IInv, TypeOK
    <3>3. sending' \in Outcomes => fired'[Deal][sending'] > 0
      BY <2>16, <3>1, <3>2 DEF ManagerStep, Listens
    <3> QED
      BY <2>16, <3>1, <3>2, <3>3 DEF ManagerStep
  <2>17. CASE UNCHANGED allvars
    BY <2>17 DEF allvars, vars, durable, server, history
  <2> QED
    BY <2>1, <2>2, <2>3, <2>4, <2>5, <2>6, <2>7, <2>8, <2>9, <2>10, <2>11, <2>12,
       <2>13, <2>14, <2>15, <2>16, <2>17 DEF DealNext, CommandStep
<1> QED
  BY <1>1, <1>2, DealKeepsManager, InvariantHolds, PTL DEF DealSpec

\* The command reports what became of the deal, for any asks and attempts: an outcome
\* of a v1.2.0 deal is the outcome on disk, one of a v1.1.0 deal the status of its
\* channel, and after a failure or a rejection the provider gets no data.
THEOREM VerdictIsOutcomeHolds ==
  ASSUME ServerWaits, ~Faults
  PROVE  DealSpec => []VerdictIsOutcome
<1>1. IInv /\ VInv => VerdictIsOutcome
  <2> SUFFICES ASSUME IInv, VInv PROVE VerdictIsOutcome
    OBVIOUS
  <2> USE DealAssumption DEF IInv, VInv, Outcomes, ChannelEnds
  <2>1. outcome \in ChannelEnds /\ channel = "none" => store[Deal] = outcome
    BY DEF Told
  <2>2. outcome = "Failed" => Deal \notin auth
    BY <2>1 DEF FailedIsClosed, TypeOK
  <2> QED
    BY <2>1, <2>2 DEF VerdictIsOutcome
<1> QED
  BY <1>1, VInvHolds, DealKeepsManager, InvariantHolds, PTL

-----------------------------------------------------------------------------
(* The command and its listener meet.  The listener sends an outcome with     *)
(* listenerLk held, and the command takes that lock when it leaves, so an     *)
(* outcome sent to a command that does not receive blocks both for good.      *)

\* The provider has opened nothing and the listener was told nothing.
Unserved ==
  /\ srv[Deal] = "idle" /\ hpc[Deal] = "idle"
  /\ old = {} /\ work = {} /\ epc = "idle"
  /\ sending = "nothing" /\ \A o \in Outcomes : fired[Deal][o] = 0

\* Where the request does not exist, is not answered yet, or was taken back.
Unanswered == Deal \notin prepared \/ mpc \in {"propose", "cleanup"} \/ outcome = "rejected"

\* A transfer that is open has not completed before.
Once ==
  /\ srv[Deal] = "open" \/ hpc[Deal] = "save" => store[Deal] # "Completed"
  /\ hpc[Deal] = "lock" /\ hev[Deal] = "Completed" => fired[Deal]["Completed"] = 0

Meeting ==
  /\ ~interrupted
  /\ mpc = "cleanup" => outcome = "rejected"
  /\ Unanswered => Unserved /\ (mpc = "propose" \/ Deal \notin auth)
  /\ Once
  /\ ~Unanswered /\ mpc # "wait" =>
       /\ mpc \in {"unsubscribe", "returned"} /\ sending \notin Outcomes
       /\ \E o \in Outcomes : fired[Deal][o] > 0

MInv == orderly => Meeting

\* With an orderly user and provider, an outcome that the listener sends finds the
\* command at the place where it receives.
ListenerFindsCommand == orderly /\ sending \in Outcomes => mpc = "wait"

\* Before an orderly provider has accepted, and after the request was taken back, the
\* manager and the server have nothing to do.
LEMMA NothingToServe ==
  ASSUME TypeOK, orderly, Unserved, mpc = "propose" \/ Deal \notin auth
  PROVE  ~ManagerStep
<1> USE DealAssumption DEF Unserved
<1>1. ~ExpiryStep
  BY DEF ExpiryStep, ExpiryTick, ExpiryTickFails, TakeTick, ExpiryGet, ExpiryCancel,
         ExpiryCancelled, ExpiryCheck, ExpirySave, ExpiryError, ExpiryNotify, ExpiryNext
<1>2. ~HandlerStep(Deal)
  BY DEF HandlerStep, HandlerSave, HandlerNotify, HandlerReturn
<1>3. ~ServerEvent(Deal)
  BY DEF ServerEvent, Register, ServerProgress, ServerComplete, ServerFail, ServerForget
<1>4. ~(TokenAges(Deal) /\ (orderly => mpc # "propose"))
  BY DEF TokenAges
<1>5. ~(Request(Deal) /\ MayRequest)
  BY DEF Request, MayRequest
<1> QED
  BY <1>1, <1>2, <1>3, <1>4, <1>5 DEF ManagerStep

\* A second outcome is not announced: a transfer that completes was not saved as
\* completed before, and one that fails not at all.
LEMMA ToldOnce ==
  ASSUME IInv, Once, ManagerStep, \E o \in Outcomes : fired[Deal][o] > 0
  PROVE  UNCHANGED fired
<1> USE DealAssumption DEF IInv, TypeOK, Outcomes, Events, Told
<1>1. CASE ExpiryStep
  <2>1. CASE ExpiryNotify
    <3>1. cur = Deal /\ store[cur] = "Failed" /\ fired[cur]["Failed"] = 0
      BY <2>1 DEF ExpiryNotify, Deciding
    <3>2. fired[Deal]["Completed"] = 0
      BY <3>1
    <3> QED
      BY <3>1, <3>2
  <2> QED
    BY <1>1, <2>1 DEF ExpiryStep, ExpiryTick, ExpiryTickFails, ExpiryGet, ExpiryCancel,
         ExpiryCancelled, ExpiryCheck, ExpirySave, ExpiryError, ExpiryNext
<1>2. CASE HandlerStep(Deal)
  <2>1. CASE HandlerNotify(Deal)
    <3>1. CASE hev[Deal] = "Completed"
      <4>1. store[Deal] = "Completed" /\ fired[Deal]["Completed"] = 0
        BY <2>1, <3>1 DEF HandlerNotify, Callbacks, Once
      <4>2. fired[Deal]["Failed"] = 0
        BY <4>1
      <4> QED
        BY <4>1, <4>2
    <3>2. CASE hev[Deal] = "Ongoing"
      BY <2>1, <3>2 DEF HandlerNotify, CallListener
    <3> QED
      BY <3>1, <3>2
  <2> QED
    BY <1>2, <2>1 DEF HandlerStep, HandlerSave, HandlerReturn
<1>3. CASE TokenAges(Deal) \/ Request(Deal) \/ ServerEvent(Deal)
  BY <1>3 DEF TokenAges, Request, ServerEvent, Register, ServerProgress, ServerComplete,
              ServerFail, ServerForget
<1> QED
  BY <1>1, <1>2, <1>3 DEF ManagerStep

\* The manager and the server keep Once: an orderly provider does not open the transfer
\* again when it has everything.
LEMMA OnceKept ==
  ASSUME IInv, IInv', Once, orderly, ManagerStep
  PROVE  Once'
<1> USE DealAssumption DEF IInv, TypeOK, Outcomes, Events, durable, server, handler, expiry,
          locking, history
<1>1. CASE ExpiryStep
  <2>1. ASSUME UNCHANGED <<srv, hpc, hev, store, fired>> PROVE Once'
    BY <2>1 DEF Once
  <2>2. CASE ExpirySave
    BY <2>2 DEF ExpirySave, Once
  <2>3. CASE ExpiryNotify
    BY <2>3 DEF ExpiryNotify, CallListener, Once
  <2> QED
    BY <1>1, <2>1, <2>2, <2>3
       DEF ExpiryStep, ExpiryTick, ExpiryTickFails, TakeTick, ExpiryGet, ExpiryCancel,
           ExpiryCancelled, ExpiryCheck, ExpiryError, ExpiryNext
<1>2. CASE HandlerStep(Deal)
  <2>1. CASE HandlerSave(Deal)
    BY <2>1 DEF HandlerSave, Once, Callbacks, Told, InMap
  <2>2. CASE HandlerNotify(Deal)
    BY <2>2 DEF HandlerNotify, CallListener, Once
  <2>3. CASE HandlerReturn(Deal)
    BY <2>3 DEF HandlerReturn, Once
  <2> QED
    BY <1>2, <2>1, <2>2, <2>3 DEF HandlerStep
<1>3. CASE TokenAges(Deal)
  BY <1>3 DEF TokenAges, Once
<1>4. CASE Request(Deal) /\ MayRequest
  BY <1>4 DEF Request, MayRequest, Once
<1>5. CASE ServerEvent(Deal)
  <2>1. CASE Register(Deal)
    BY <2>1 DEF Register, Callbacks
  <2>2. CASE ServerProgress(Deal) \/ ServerFail(Deal) \/ ServerForget(Deal)
    BY <2>2 DEF ServerProgress, ServerFail, ServerForget, Once
  <2>3. CASE ServerComplete(Deal)
    BY <2>3 DEF ServerComplete, Once
  <2> QED
    BY <1>5, <2>1, <2>2, <2>3 DEF ServerEvent
<1> QED
  BY <1>1, <1>2, <1>3, <1>4, <1>5 DEF ManagerStep

\* What the command does before it has prepared a request leaves nothing to meet.
LEMMA UnpreparedMeets ==
  ASSUME VInv, Meeting, mpc \in Unprepared, mpc' # "cleanup",
         UNCHANGED <<prepared, auth, old, store, srv, hpc, hev, epc, work, fired, sending, interrupted>>
  PROVE  Meeting'
<1>1. Deal \notin prepared /\ Unserved /\ Deal \notin auth
  BY DEF VInv, Meeting, Unanswered, Unprepared
<1>2. Unserved' /\ Once' /\ Deal \notin prepared' /\ Deal \notin auth'
  BY <1>1 DEF Unserved, Once, Meeting
<1> QED
  BY <1>2 DEF Meeting, Unanswered

\* A step of the command, the user or the remote side that is none of the manager's.
LEMMA CommandMeets ==
  ASSUME ~Faults, IInv, VInv, Meeting, orderly,
         CommandStep \/ Interrupt \/ ProviderDecides \/ ChannelStep \/ UNCHANGED allvars
  PROVE  Meeting'
<1> USE DealAssumption DEF Goes, terms, remote, durable, server, handler, expiry, history
<1>1. CASE CmdSetup
  BY <1>1, UnpreparedMeets DEF CmdSetup, Start, Unprepared
<1>2. CASE CmdAsk \/ CmdMakeDeal \/ CmdCreateFile \/ CmdWriteFile
  BY <1>2, UnpreparedMeets
     DEF CmdAsk, CmdMakeDeal, CmdCreateFile, CmdWriteFile, Unprepared, vars
<1>3. CASE CmdProtocol \/ CmdError \/ CmdPrepareError \/ CmdRejected110
  BY <1>3, UnpreparedMeets
     DEF CmdProtocol, CmdError, CmdPrepareError, CmdRejected110, Stages, Unprepared, vars
<1>4. CASE CmdOpenChannel \/ CmdPoll
  BY <1>4, UnpreparedMeets DEF CmdOpenChannel, CmdPoll, Unprepared, vars
<1>5. CASE CmdSubscribe
  BY <1>5, UnpreparedMeets DEF CmdSubscribe, Subscribe, Unprepared
<1>6. CASE CmdAccepted
  <2>1. CASE mpc = "propose110"
    BY <1>6, <2>1, UnpreparedMeets DEF CmdAccepted, Unprepared, vars
  <2>2. CASE mpc = "propose" /\ mpc' = "wait"
    <3>1. UNCHANGED <<vars, sending, interrupted, outcome>>
      BY <1>6 DEF CmdAccepted
    <3>2. Unserved' /\ Once' /\ ~interrupted'
      BY <2>2, <3>1 DEF Meeting, Unanswered, Unserved, Once, vars
    <3>3. Unanswered' => Deal \notin auth'
      BY <2>2, <3>1 DEF Unanswered, VInv, IInv, TypeOK, vars
    <3> QED
      BY <2>2, <3>2, <3>3 DEF Meeting
  <2> QED
    BY <1>6, <2>1, <2>2 DEF CmdAccepted
<1>7. CASE CmdPrepare
  <2>1. Unserved /\ Once /\ ~interrupted
    BY <1>7 DEF CmdPrepare, VInv, Unprepared, Meeting, Unanswered
  <2>2. Unserved' /\ Once' /\ ~interrupted' /\ mpc' = "propose"
    BY <1>7, <2>1 DEF CmdPrepare, PrepareForDataRequest, Unserved, Once
  <2> QED
    BY <2>2 DEF Meeting, Unanswered
<1>8. CASE CmdRejected \/ CmdCleanup
  <2>1. Unserved /\ Once /\ ~interrupted
    BY <1>8 DEF CmdRejected, CmdCleanup, Meeting, Unanswered
  <2>2. Deal \notin auth' /\ mpc' \in {"cleanup", "unsubscribe"} /\ outcome' = "rejected"
    <3>1. CASE CmdRejected
      BY <3>1 DEF CmdRejected, CleanupPreparedRequest
    <3>2. CASE CmdCleanup
      BY <3>2 DEF CmdCleanup, CleanupCancel, CleanupReturn, VInv, Meeting
    <3> QED
      BY <1>8, <3>1, <3>2
  <2>3. UNCHANGED <<store, srv, hpc, hev, epc, work, fired, sending, interrupted>>
    BY <1>8 DEF CmdRejected, CleanupPreparedRequest, CmdCleanup, CleanupCancel, CleanupReturn
  <2>4. old' = {}
    BY <1>8, <2>1 DEF CmdRejected, CleanupPreparedRequest, CmdCleanup, CleanupCancel,
                      CleanupReturn, Unserved
  <2>5. Unserved' /\ Once' /\ ~interrupted'
    BY <2>1, <2>3, <2>4 DEF Unserved, Once
  <2> QED
    BY <2>2, <2>5 DEF Meeting, Unanswered
<1>9. CASE CmdReceive
  <2>1. fired[Deal][sending] > 0 /\ sending \in Outcomes /\ ~Unanswered
    BY <1>9 DEF VInv, CmdReceive, Meeting, Unserved, Outcomes
  <2>2. UNCHANGED <<vars, interrupted>> /\ mpc' = "unsubscribe" /\ sending' = "sent" /\ outcome' = sending
    BY <1>9 DEF CmdReceive
  <2>3. ~Unanswered'
    BY <2>1, <2>2 DEF Unanswered, Outcomes, vars
  <2>4. Once' /\ ~interrupted'
    BY <2>2 DEF Meeting, Once, vars
  <2>5. \E o \in Outcomes : fired'[Deal][o] > 0
    BY <2>1, <2>2 DEF vars
  <2> QED
    BY <2>2, <2>3, <2>4, <2>5 DEF Meeting, Outcomes
<1>10. CASE CmdInterrupted \/ Interrupt
  BY <1>10 DEF CmdInterrupted, Interrupt, Meeting
<1>11. CASE CmdSend \/ CmdUnsubscribe \/ ProviderDecides \/ ChannelStep \/ UNCHANGED allvars
  <2>1. UNCHANGED <<prepared, auth, old, store, srv, hpc, hev, epc, work, fired, sending,
                    interrupted, outcome>>
    BY <1>11 DEF CmdSend, CmdUnsubscribe, Unsubscribe, ProviderDecides, ChannelStep, allvars, vars
  <2>2. mpc' = mpc \/ (mpc = "unsubscribe" /\ mpc' = "returned")
    BY <1>11 DEF CmdSend, CmdUnsubscribe, ProviderDecides, ChannelStep, allvars
  <2>3. (Unanswered' <=> Unanswered) /\ (Unserved' <=> Unserved) /\ Once'
    BY <2>1, <2>2 DEF Unanswered, Unserved, Once, Meeting
  <2> QED
    BY <2>1, <2>2, <2>3 DEF Meeting
<1> QED
  BY <1>1, <1>2, <1>3, <1>4, <1>5, <1>6, <1>7, <1>8, <1>9, <1>10, <1>11 DEF CommandStep

\* The steps of the manager, the server and the provider.
LEMMA ManagerMeets ==
  ASSUME IInv, IInv', Meeting, orderly, ManagerStep
  PROVE  Meeting'
<1> USE DEF Meeting
<1>1. ~Unanswered
  BY NothingToServe DEF IInv
<1>2. UNCHANGED <<mpc, interrupted, outcome, prepared>>
  BY ManagerLeaves DEF ManagerStep, IInv
<1>3. ~Unanswered'
  BY <1>1, <1>2 DEF Unanswered
<1>4. Once'
  BY OnceKept
<1>5. mpc # "wait" => sending' \notin Outcomes /\ UNCHANGED fired
  <2> SUFFICES ASSUME mpc # "wait" PROVE sending' \notin Outcomes /\ UNCHANGED fired
    OBVIOUS
  <2>1. UNCHANGED fired
    BY <1>1, ToldOnce
  <2>2. sending' = "nothing" \/ sending' = sending
    BY <2>1 DEF ManagerStep, Listens
  <2> QED
    BY <1>1, <2>1, <2>2 DEF Outcomes
<1> QED
  BY <1>1, <1>2, <1>3, <1>4, <1>5

\* For any asks and any number of attempts: while user and provider are orderly the
\* listener is never left with an outcome that nobody receives.
THEOREM ListenerFindsCommandHolds ==
  ASSUME ServerWaits, ~Faults
  PROVE  DealSpec => []ListenerFindsCommand
<1>1. DealInit => MInv
  BY DealAssumption
     DEF DealInit, Init, MInv, Meeting, Unanswered, Unserved, Once, Outcomes
<1>2. IInv /\ IInv' /\ VInv /\ MInv /\ [DealNext]_allvars => MInv'
  <2>1. [DealNext]_allvars => UNCHANGED orderly
    BY DEF DealNext, CommandStep, CmdSetup, CmdAsk, CmdMakeDeal, CmdCreateFile, CmdWriteFile,
           CmdProtocol, CmdError, CmdSend, CmdAccepted, CmdRejected110, CmdOpenChannel, CmdPoll,
           CmdSubscribe, CmdPrepare, CmdPrepareError, CmdRejected, CmdCleanup, CmdReceive,
           CmdInterrupted, CmdUnsubscribe, Interrupt, ProviderDecides, ChannelStep,
           ManagerStep, allvars
  <2> QED
    BY <2>1, CommandMeets, ManagerMeets DEF MInv, DealNext
<1>3. MInv => ListenerFindsCommand
  BY DEF MInv, Meeting, Unserved, ListenerFindsCommand, Outcomes
<1> QED
  BY <1>1, <1>2, <1>3, VInvHolds, DealKeepsManager, InvariantHolds, PTL DEF DealSpec

-----------------------------------------------------------------------------
(* The watcher, for any number of broken connections.                        *)

\* A report that is owed a reconnect is in the channel, and a goroutine that sleeps is
\* going to find it there, however many reports come and reconnects are under way.
ReportIsPending == owed => token /\ sleeping > 0

CInv ==
  /\ sleeping \in Nat /\ reconnecting \in Nat
  /\ owed => token
  /\ token => sleeping > 0

\* The safety half of EveryReportAnswered: no interleaving of the callbacks and the
\* processDisconnect goroutines leaves a token that nobody takes.
THEOREM ReportIsPendingHolds == Watcher!Spec => []ReportIsPending
<1>1. Watcher!Init => CInv
  BY DEF Watcher!Init, CInv
<1>2. CInv /\ [Watcher!Next]_(Watcher!vars) => CInv'
  <2> SUFFICES ASSUME CInv, [Watcher!Next]_(Watcher!vars) PROVE CInv'
    OBVIOUS
  <2> USE DEF CInv
  <2>1. CASE Watcher!KeepConnect \/ Watcher!KeepNotify \/ Watcher!Drop
    <3>1. UNCHANGED <<token, owed, sleeping, reconnecting>>
      BY <2>1 DEF Watcher!KeepConnect, Watcher!KeepNotify, Watcher!Drop
    <3> QED
      BY <3>1
  <2>2. CASE Watcher!Disconnected
    BY <2>2 DEF Watcher!Disconnected
  <2>3. CASE Watcher!ProcessDisconnect
    BY <2>3 DEF Watcher!ProcessDisconnect
  <2>4. CASE Watcher!ReconnectReturns
    BY <2>4 DEF Watcher!ReconnectReturns
  <2>5. CASE Watcher!ProviderConnects \/ Watcher!Cancel
    BY <2>5 DEF Watcher!ProviderConnects, Watcher!Cancel
  <2>6. CASE UNCHANGED Watcher!vars
    BY <2>6 DEF Watcher!vars
  <2> QED
    BY <2>1, <2>2, <2>3, <2>4, <2>5, <2>6 DEF Watcher!Next
<1>3. CInv => ReportIsPending
  BY DEF CInv, ReportIsPending
<1> QED
  BY <1>1, <1>2, <1>3, PTL DEF Watcher!Spec
=============================================================================
