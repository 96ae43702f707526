----------------------------- MODULE DealCommand -----------------------------
(***************************************************************************)
(* The command that makes a deal (makeDealCmd in filc/cmds.go), from the   *)
(* ask to its outcome, composed with the transfer manager.                 *)
(*                                                                         *)
(* A provider that speaks v1.2.0 pulls the data: the command prepares a    *)
(* request, sends the proposal and learns the outcome from its listener,   *)
(* over the unbuffered channel pullComplete.  The listener runs with the   *)
(* manager's listenerLk held, and leaving the command takes that lock      *)
(* again, so the two must meet before either goes on.  To a provider that  *)
(* speaks v1.1.0 only the command pushes the data over a graphsync         *)
(* channel, whose status it polls.                                         *)
(***************************************************************************)
EXTENDS TransferManager, DealTerms

CONSTANTS
  Deal,     \* the dbid of the deal
  Command,  \* its listener
  Asks      \* the asks a provider may answer with

ASSUME DealAssumption ==
  /\ Xfers = {Deal} /\ Listeners = {Command}
  /\ Asks \subseteq [price : Nat, verifiedPrice : Nat, minSize : Nat]

VARIABLES
  mpc,         \* place of the command
  ask, proposal, \* what the provider asked, what the command proposes
  file,        \* the proposal in the deals directory
  provider,    \* the provider's view of the proposal
  channel,     \* status of the v1.1.0 push channel
  sending,     \* what the listener tries to send on pullComplete, or "nothing"
  interrupted, \* cctx.Context is done
  outcome,     \* what the command returns
  orderly      \* chosen once: the user does not interrupt; the provider answers the
               \* proposal before the transfer timeout, opens the transfer only once
               \* it has accepted the deal, and not again when it has everything

terms == <<ask, proposal, file>>
remote == <<provider, channel>>
allvars == <<vars, terms, remote, mpc, sending, interrupted, outcome, orderly>>

NotYet == [size |-> 0]

DealInit ==
  /\ Init
  /\ mpc = "setup" /\ ask = NotYet /\ proposal = NotYet /\ file = "absent"
  /\ provider = "unasked" /\ channel = "none"
  /\ sending = "nothing" /\ interrupted = FALSE /\ outcome = "none"
  /\ orderly \in BOOLEAN

-----------------------------------------------------------------------------
(* Both protocols. *)

Goes(from, to) == mpc = from /\ mpc' = to

\* setup and NewClient, which starts the manager.
CmdSetup ==
  /\ Goes("setup", "ask") /\ Start
  /\ UNCHANGED <<terms, remote, sending, interrupted, outcome, orderly>>

CmdAsk ==
  /\ Goes("ask", "make")
  /\ ask' \in Asks
  /\ UNCHANGED <<vars, proposal, file, remote, sending, interrupted, outcome, orderly>>

\* MakeDeal, for a verified deal or not.
CmdMakeDeal ==
  /\ Goes("make", "create")
  /\ \E verified \in BOOLEAN : proposal' = Proposal(ask, verified)
  /\ UNCHANGED <<vars, ask, file, remote, sending, interrupted, outcome, orderly>>

\* saveDealProposal, which creates the file and then writes it.
CmdCreateFile ==
  /\ Goes("create", "write")
  /\ file' = "empty"
  /\ UNCHANGED <<vars, ask, proposal, remote, sending, interrupted, outcome, orderly>>

CmdWriteFile ==
  /\ Goes("write", "protocol")
  /\ file' = "written"
  /\ UNCHANGED <<vars, ask, proposal, remote, sending, interrupted, outcome, orderly>>

\* DealProtocolForMiner prefers v1.2.0.
CmdProtocol ==
  /\ \/ Goes("protocol", "subscribe")
     \/ Goes("protocol", "propose110")
  /\ UNCHANGED <<vars, terms, remote, sending, interrupted, outcome, orderly>>

\* Where an error of a call ends the command and nothing is taken back.
Stages == {"setup", "ask", "make", "create", "write", "protocol", "subscribe", "open"}

\* Deviation: an error of saveDealProposal is ignored.
CmdErrorIgnored ==
  /\ \/ mpc \in Stages \ {"create", "write"} /\ mpc' = "returned" /\ outcome' = "error"
     \/ mpc \in {"create", "write"} /\ mpc' = "protocol" /\ UNCHANGED outcome
  /\ UNCHANGED <<vars, terms, remote, sending, interrupted, orderly>>

CmdError ==
  /\ mpc \in Stages
  /\ mpc' = "returned" /\ outcome' = "error"
  /\ UNCHANGED <<vars, terms, remote, sending, interrupted, orderly>>

\* SendProposalV110 and SendProposalV120 are one request and one answer.
CmdSend ==
  /\ mpc \in {"propose110", "propose"} /\ provider = "unasked"
  /\ provider' = "asked"
  /\ UNCHANGED <<vars, terms, channel, mpc, sending, interrupted, outcome, orderly>>

ProviderDecides ==
  /\ provider = "asked" /\ provider' \in {"accepted", "refused"}
  /\ UNCHANGED <<vars, terms, channel, mpc, sending, interrupted, outcome, orderly>>

\* The answer is an acceptance.
CmdAccepted ==
  /\ provider = "accepted"
  /\ Goes("propose", "wait") \/ Goes("propose110", "open")
  /\ UNCHANGED <<vars, terms, remote, sending, interrupted, outcome, orderly>>

Interrupt ==
  /\ ~orderly /\ ~interrupted /\ interrupted' = TRUE
  /\ UNCHANGED <<vars, terms, remote, mpc, sending, outcome, orderly>>

-----------------------------------------------------------------------------
(* makev110Deal. *)

\* The provider refuses, answers about another proposal, or no answer arrives,
\* whatever the provider has decided.
CmdRejected110 ==
  /\ Goes("propose110", "returned")
  /\ outcome' = "rejected"
  /\ UNCHANGED <<vars, terms, remote, sending, interrupted, orderly>>

\* StartDataTransfer.
CmdOpenChannel ==
  /\ Goes("open", "poll")
  /\ channel' = "Requested"
  /\ UNCHANGED <<vars, terms, provider, sending, interrupted, outcome, orderly>>

\* The data transfer library moves the channel on.
ChannelEnds == {"Completed", "Failed", "Cancelled"}
ChannelSteps == [none |-> {}, Requested |-> {"Ongoing", "Failing", "Cancelled"},
                 Ongoing |-> {"Completing", "Failing", "Cancelled"},
                 Completing |-> {"Completed", "Failing"}, Failing |-> {"Failed"},
                 Completed |-> {}, Failed |-> {}, Cancelled |-> {}]

ChannelStep ==
  /\ channel' \in ChannelSteps[channel]
  /\ UNCHANGED <<vars, terms, provider, mpc, sending, interrupted, outcome, orderly>>

\* A poll that sees the end of the channel; every other status is polled again.
\* The loop does not look at the context, and an error of TransferStatus ends it.
CmdPoll ==
  /\ Goes("poll", "returned")
  /\ \/ channel \in ChannelEnds /\ outcome' = channel
     \/ outcome' = "error"
  /\ UNCHANGED <<vars, terms, remote, sending, interrupted, orderly>>

-----------------------------------------------------------------------------
(* makev120Deal: its calls into the manager, each followed by its next place. *)

CmdSubscribe ==
  /\ Goes("subscribe", "prepare") /\ Subscribe(Command)
  /\ UNCHANGED <<terms, remote, sending, interrupted, outcome, orderly>>

CmdPrepare ==
  /\ Goes("prepare", "propose") /\ PrepareForDataRequest(Deal)
  /\ UNCHANGED <<terms, remote, sending, interrupted, outcome, orderly>>

\* No token is made or stored: the command leaves its listener and ends.
CmdPrepareError ==
  /\ Goes("prepare", "unsubscribe")
  /\ outcome' = "error"
  /\ UNCHANGED <<vars, terms, remote, sending, interrupted, orderly>>

\* The provider refuses, or no answer arrives, whatever it has decided: the token
\* goes.
CmdRejected ==
  /\ Goes("propose", "cleanup") /\ CleanupPreparedRequest(Deal)
  /\ outcome' = "rejected"
  /\ UNCHANGED <<terms, remote, sending, interrupted, orderly>>

CmdCleanup ==
  /\ \/ mpc = "cleanup" /\ CleanupCancel(Deal) /\ UNCHANGED mpc
     \/ Goes("cleanup", "unsubscribe") /\ CleanupReturn(Deal)
  /\ UNCHANGED <<terms, remote, sending, interrupted, outcome, orderly>>

\* Deviation: whatever arrives on pullComplete counts as success.
CmdReceiveAsSuccess ==
  /\ Goes("wait", "unsubscribe") /\ sending \in Outcomes
  /\ outcome' = "Completed" /\ sending' = "sent"
  /\ UNCHANGED <<vars, terms, remote, interrupted, orderly>>

\* The select that ends the command: pullComplete, or the context.
CmdReceive ==
  /\ Goes("wait", "unsubscribe") /\ sending \in Outcomes
  /\ outcome' = sending /\ sending' = "sent"
  /\ UNCHANGED <<vars, terms, remote, interrupted, orderly>>

CmdInterrupted ==
  /\ Goes("wait", "unsubscribe") /\ interrupted
  /\ outcome' = "interrupted"
  /\ UNCHANGED <<vars, terms, remote, sending, interrupted, orderly>>

\* The deferred call of the function that Subscribe returned.
CmdUnsubscribe ==
  /\ Goes("unsubscribe", "returned") /\ Unsubscribe(Command)
  /\ UNCHANGED <<terms, remote, sending, interrupted, outcome, orderly>>

\* Deviation: a failed transfer is logged like progress.
ListensForCompletion ==
  /\ sending \in Outcomes => callee' = callee
  /\ sending' = IF callee' = NoListener THEN "nothing"
                ELSE IF fired'[Deal]["Completed"] # fired[Deal]["Completed"]
                THEN "Completed"
                ELSE sending

\* The listener logs progress; a failure or a completion it sends to the command,
\* and until that is received it does not return to the manager.
Listens ==
  /\ sending \in Outcomes => callee' = callee
  /\ sending' = IF callee' = NoListener THEN "nothing"
                ELSE IF \E o \in Outcomes : fired'[Deal][o] # fired[Deal][o]
                THEN CHOOSE o \in Outcomes : fired'[Deal][o] # fired[Deal][o]
                ELSE sending

\* A provider learns the token from the proposal.
MayRequest ==
  /\ provider # "unasked"
  /\ orderly => provider = "accepted" /\ mpc # "propose" /\ store[Deal] # "Completed"

ManagerStep ==
  /\ \/ ExpiryStep \/ HandlerStep(Deal)
     \/ TokenAges(Deal) /\ (orderly => mpc # "propose")
     \/ Request(Deal) /\ MayRequest
     \/ ServerEvent(Deal)
  /\ Listens
  /\ UNCHANGED <<terms, remote, mpc, interrupted, outcome, orderly>>

CommandStep ==
  \/ CmdSetup \/ CmdAsk \/ CmdMakeDeal \/ CmdCreateFile \/ CmdWriteFile \/ CmdProtocol \/ CmdError
  \/ CmdSend \/ CmdAccepted
  \/ CmdRejected110 \/ CmdOpenChannel \/ CmdPoll
  \/ CmdSubscribe \/ CmdPrepare \/ CmdPrepareError \/ CmdRejected \/ CmdCleanup
  \/ CmdReceive \/ CmdInterrupted \/ CmdUnsubscribe

DealNext == CommandStep \/ Interrupt \/ ProviderDecides \/ ChannelStep \/ ManagerStep

DealSpec == DealInit /\ [][DealNext]_allvars

\* The command and the manager's goroutines run, a cancelled transfer ends, and the
\* server drops what is over.  An orderly provider decides, and its v1.1.0 transfer comes
\* to an end.
DealFairness ==
  /\ WF_allvars(CommandStep) /\ SF_allvars(CmdUnsubscribe)
  /\ WF_allvars(orderly /\ ProviderDecides) /\ WF_allvars(orderly /\ ChannelStep)
  /\ WF_allvars(TokenAges(Deal) /\ ManagerStep)
  /\ SF_allvars(ExpiryStep /\ ManagerStep)
  /\ SF_allvars(HandlerStep(Deal) /\ ManagerStep)
  /\ SF_allvars(Deal \in asked /\ ServerFail(Deal) /\ ManagerStep)
  /\ WF_allvars(ServerForget(Deal) /\ ManagerStep)

DealFairSpec == DealSpec /\ DealFairness

-----------------------------------------------------------------------------
(* Properties. *)

\* What the command reports is what became of the deal: it never claims a completed
\* deal whose outcome was not saved, nor a failed one that the provider may still
\* serve; and once a proposal it reports as rejected has been cleaned up, a provider
\* that had accepted it all the same, because the answer was lost, gets no data.
VerdictIsOutcome ==
  /\ outcome \in ChannelEnds /\ channel # "none" => outcome = channel
  /\ outcome \in ChannelEnds /\ channel = "none" => store[Deal] = outcome
  /\ outcome = "Failed" => Deal \notin auth
  /\ outcome = "rejected" /\ mpc \in {"unsubscribe", "returned"} =>
       Deal \notin auth /\ srv[Deal] = "idle"

\* Every proposal a provider has seen can be looked up on disk, in full, wherever the
\* command stops or is killed.
ProposalOnDisk == provider # "unasked" => file = "written"

\* The proposal a provider sees meets its own ask, and the provider collateral the
\* chain demands for the piece after padding.
ProposalMeetsAsk == provider # "unasked" => Meets(proposal, ask)

\* The listener and the command meet: a command that has sent its proposal returns,
\* be the deal accepted or rejected, the transfer completed or never opened, as long
\* as user and provider are orderly.
CommandReturns == (mpc \in {"propose", "propose110"} /\ orderly) ~> mpc = "returned"
=============================================================================
