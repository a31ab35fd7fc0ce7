SPECIFICATION LiveSpec
CONSTANTS
  p1 = p1
  p2 = p2
  c1 = c1
  c2 = c2
  d1 = d1
  Adders = {p1, p2}
  Subbers = {c1, c2}
  Drainers = {d1}
  Queues <- ApiAndSession
  MoreAdds = 2
  None = None
INVARIANTS
  NoLostWakeup
  DrainNeverBlocks
PROPERTIES
  ImplementsFifo
  ElementsTaken
  CallsEnd
CHECK_DEADLOCK FALSE
