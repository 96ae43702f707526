SPECIFICATION QuerySpec
CONSTANTS
  Xfers = {x1, x2}
  x1 = x1
  x2 = x2
  Reused = {x2}
  Listeners = {l1}
  l1 = l1
  NoListener = NoListener
  NoXfer = NoXfer
  Expiry = Expiry
  Nobody = Nobody
  MaxAttempts = 2
  MaxCrashes = 1
  ServerWaits = TRUE
  Faults = FALSE
  NotFound = NotFound
INVARIANTS
  SavedBeforeTold
  FailureIsQuiet
  StatusIsCurrent
  ContentIsTrue
PROPERTIES
  Implements
CONSTRAINT OneRequest
