SPECIFICATION Spec
CONSTANTS
  s1 = s1
  s2 = s2
  Sale = {s1, s2}
  Order <- MCOrder
  Prepaid <- MCPrepaid
  NoSale = NoSale
  NoEntry = NoEntry
  Opening = 2
  MaxPaid = 2
  MaxCuts = 1
INVARIANT PaymentsAreTold
SYMMETRY MCSymmetry
CHECK_DEADLOCK FALSE
