SPECIFICATION FairSpec
CONSTANTS
  Xfers = {x1, x2}
  x1 = x1
  x2 = x2
  Reused = {}
  Listeners = {l1}
  l1 = l1
  NoListener = NoListener
  NoXfer = NoXfer
  Expiry = Expiry
  Nobody = Nobody
  MaxAttempts = 1
  MaxCrashes = 0
  ServerWaits = TRUE
  Faults = FALSE
PROPERTIES
  EveryRequestSettles
  EveryRequestIsAnswered
