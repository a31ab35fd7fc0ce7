SPECIFICATION LiveSpec
CONSTANTS
  Workers = {w1, w2, w3, w4}
  MaxRecursion = 3
  Impatient = TRUE
INVARIANTS
  BarrierExclusion
  NoStragglers
  IInv
PROPERTIES
  NestedHold
  SyncReturns
  WorkersResume
CHECK_DEADLOCK FALSE
