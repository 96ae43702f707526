SPECIFICATION FairSpec
CONSTANTS
  Candidates = {c1, c2, c3}
  c1 = c1
  c2 = c2
  c3 = c3
  Nobody = Nobody
  Offers <- MCOffers
  MaxProviders = 3
INVARIANTS
  NobodyLeftOut
  OneRetrievalEach
PROPERTIES
  CommandReturns
  SearchEnds
CHECK_DEADLOCK FALSE
