SPECIFICATION Spec
CONSTANTS
  p1 = p1
  p2 = p2
  Purchase = {p1, p2}
  Manual = {j1}
  Entry = {p1, p2, j1}
  Account <- MCAccount
  Order <- MCOrder
  Prepaid <- MCPrepaid
  Drafted <- MCDrafted
  NoEntry = NoEntry
  NoPurchase = NoPurchase
  Opening = 1
  MaxCuts = 1
INVARIANTS
  PurchasesTypeOK
  EntriesAreWhole
  PostedEntriesBalance
  JournalTellsPurchases
  GoodsFollowPurchases
  OutboxTellsPurchases
SYMMETRY MCSymmetry
CHECK_DEADLOCK FALSE
