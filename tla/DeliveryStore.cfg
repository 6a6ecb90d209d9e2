SPECIFICATION Spec
CONSTANTS
  w1 = w1
  w2 = w2
  NULL = NULL
  owner <- SharedOwner
  Worker = {w1, w2}
  Plan <- Plans
  Receipt <- Receipts
  Now = {0, 1, 2}
  Ttl = {0, 1, 2}
  MaxLeaseSeconds = 1
  MaxFence = 3
  MaxGeneration = 4
SYMMETRY DeliverySymmetry
INVARIANTS FencesUnique 
CHECK_DEADLOCK FALSE
