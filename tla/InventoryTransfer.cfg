SPECIFICATION Spec
CONSTANTS
  p1 = p1
  w1 = w1
  w2 = w2
  n1 = n1
  n2 = n2
  Product = {p1}
  Warehouse = {w1, w2}
  Number = {n1, n2}
  MaxStock = 2
  MaxBatches = 3
  MaxMoved = 2
INVARIANT TransfersSucceed
SYMMETRY MCSymmetry
CHECK_DEADLOCK FALSE
