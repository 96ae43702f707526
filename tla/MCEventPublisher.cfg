SPECIFICATION FairSpec
CONSTANTS
  Publishers = {p1, p2}
  p1 = p1
  p2 = p2
  Subscriptions = {s1, s2}
  s1 = s1
  s2 = s2
  Capacity = 2
  MaxEvents = 2
INVARIANTS
  NoHoles
  AtMostOneLate
PROPERTIES
  EveryoneIsTold
  PublishReturns
CHECK_DEADLOCK FALSE
