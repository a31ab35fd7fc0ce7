SPECIFICATION LiveSpec
CONSTANTS
  c1 = c1
  c2 = c2
  Clients = {c1, c2}
  MainSize = 2
  QueueSize = 1
  Epochs = 2
  MaxRestarts = 1
  MaxConnects <- TwoAndOne
  Before <- TwoInAll
  MaxLost = 1
  None = None
INVARIANTS
  AnswersBelong
  HandlesHonoured
PROPERTIES
  HandlerReturns
  
  DeadReaped
CHECK_DEADLOCK FALSE
