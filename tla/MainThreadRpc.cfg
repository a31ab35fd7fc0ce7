SPECIFICATION LiveSpec
CONSTANTS
  Workers = {w1, w2}
  Clients = {c1}
  MaxSize = 2
  MaxCalls = 3
  MainProc = MainProc
  None = None
INVARIANTS
  NoMutexAtBarrier
  HandlerExclusive
  SleepersCovered
PROPERTIES
  BarrierReached
  EveryCallHandled
