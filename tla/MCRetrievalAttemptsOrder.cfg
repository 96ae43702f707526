SPECIFICATION Spec
CONSTANTS
  Candidates = {c1, c2}
  c1 = c1
  c2 = c2
  Nobody = Nobody
  Offers <- MCOffers
  MaxProviders = 3
INVARIANTS
  UnsealedFirst
CHECK_DEADLOCK FALSE
