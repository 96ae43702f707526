SPECIFICATION FairSpec
CONSTANTS
  Undef = Undef
  Paych = Paych
  MaxOwed = 1
  MaxPayments = 2
  MaxProgress = 2
  MaxPublished = 3
INVARIANTS
  PublishedInOrder
  ResultMatchesEvents
  FirstVerdictWins
  VouchersInSequence
  NoWakeupLost
PROPERTIES
  ReportedIsPaid
  CancelEndsRetrieval
  ShutdownEndsRetrieval
CHECK_DEADLOCK FALSE
