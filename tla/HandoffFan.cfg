SPECIFICATION LiveSpec
CONSTANTS
  N = 4
  Topologies <- Fan
  NElts = 2
  MaxTail = 2
PROPERTY
  SlotGranted
