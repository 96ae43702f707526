SPECIFICATION FairSpec
CONSTANTS
  c1 = c1
  c2 = c2
  idAddr = idAddr
  keyAddr = keyAddr
  other = other
  k1 = k1
  k2 = k2
  NoCaller = NoCaller
  NoNonce = NoNonce
  Callers <- MCCallers
  Addrs <- MCAddrs
  Keys <- MCKeys
  KeyOf <- MCKeyOf
  MaxSends = 2
INVARIANTS
  NonceSequence
  NoNonceGap
  CounterNotAhead
PROPERTIES
  ImplementsLedger
  EveryCallReturns
