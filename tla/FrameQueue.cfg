SPECIFICATION LiveSpec
CONSTANTS
  Producers = {p1, p2, p3}
  NElts = 4
  Sizes = {1, 3}
  VectorThreshold = 3
  MaxTail = 6
INVARIANTS
  NeverSpinsOnValid
  ExclusiveElement
  InOrderOnce
  IInv
PROPERTY
  EveryTicketServed
CHECK_DEADLOCK FALSE
