SPECIFICATION Spec
CONSTANTS
  Procs = {p1, p2}
  Layouts <- OneRing
  GcAge = 2
  HoldLimit = 4
  None = None
INVARIANT
  SingleControl
