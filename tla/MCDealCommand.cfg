SPECIFICATION DealFairSpec
CONSTANTS
  Deal = deal
  Command = command
  Asks <- MCAsks
  GiB = 8
  PieceSize = 2
  Xfers = {deal}
  Reused = {}
  Listeners = {command}
  NoListener = NoListener
  NoXfer = NoXfer
  Expiry = Expiry
  Nobody = Nobody
  MaxAttempts = 3
  MaxCrashes = 0
  ServerWaits = TRUE
  Faults = FALSE
INVARIANTS
  VerdictIsOutcome
  ProposalOnDisk
  ProposalMeetsAsk
PROPERTIES
  CommandReturns
CHECK_DEADLOCK FALSE
