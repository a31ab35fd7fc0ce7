SPECIFICATION LiveSpec
CONSTANTS
  Procs = {p1, p2}
  Layouts <- SmallLayouts
  GcAge = 1
  HoldLimit = 1
  None = None
INVARIANTS
  TypeOK
  SingleControl
  ControlledInUse
PROPERTY
  LeakReclaimed
