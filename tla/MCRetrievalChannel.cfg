SPECIFICATION Spec
CONSTANTS
  Undef = Undef
  Paych = Paych
  MaxOwed = 1
  MaxPayments = 1
  MaxProgress = 1
  MaxPublished = 2
INVARIANTS
  VouchersOnOwnChannel
CHECK_DEADLOCK FALSE
