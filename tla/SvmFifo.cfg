SPECIFICATION Spec
CONSTANTS
  NItems = 8
  Word = 65536
  MaxBytes = 5
  MaxStream = 14
  Anyhow = FALSE
INVARIANTS
  SegmentsExact
  CopiesExact
  
PROPERTY
  ImplementsStream
CHECK_DEADLOCK FALSE
