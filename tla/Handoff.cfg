SPECIFICATION LiveSpec
CONSTANTS
  N = 3
  Topologies <- Trees
  NElts = 2
  MaxTail = 3
INVARIANT
  TicketsAccounted
PROPERTIES
  QuietWhileHeld
  BarrierReached
  SlotGranted
