SPECIFICATION Spec
CONSTANTS
  p1 = p1
  w1 = w1
  w2 = w2
  n1 = n1
  n2 = n2
  Product = {p1}
  Warehouse = {w1, w2}
  Number = {n1, n2}
  MaxStock = 3
  MaxBatches = 3
  MaxMoved = 3
INVARIANTS
  InventoryTypeOK
  BatchesWithinStock
  MovementsExplainStock
  MovementsNeverUnderstate
PROPERTY
  OldestFirst
SYMMETRY MCSymmetry
CHECK_DEADLOCK FALSE
