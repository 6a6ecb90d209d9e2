SPECIFICATION Spec
CONSTANTS
  w1 = w1
  w2 = w2
  NULL = NULL
  owner <- SharedOwner
  Worker = {w1, w2}
  Plan <- Plans
  Receipt <- Receipts
  Now = {0, 1, 2}
  Ttl = {0, 1, 2}
  MaxTtl = 1
  MaxCounter = 3
SYMMETRY DeliverySymmetry
INVARIANTS SingleSender
PROPERTIES ImplementsProtocol
CHECK_DEADLOCK FALSE
