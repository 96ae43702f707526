SPECIFICATION Spec
CONSTANTS
  Commands = {c1, c2, c3}
  c1 = c1
  c2 = c2
  c3 = c3
  Keys = {k1, k2, k3, k4, k5}
  k1 = k1
  k2 = k2
  k3 = k3
  k4 = k4
  k5 = k5
  Absent = Absent
  Torn = Torn
  None = None
  MaxStops = 2
SYMMETRY SetupSymmetry
INVARIANTS
  OneAddress
  WalletIsUsable
  OneIdentity
