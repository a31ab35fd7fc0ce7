SPECIFICATION Spec
CONSTANTS
  NItems = 8
  Word = 65536
  MaxBytes = 3
  MaxStream = 16
  Anyhow = TRUE
INVARIANT
  TailMatchesSize
CHECK_DEADLOCK FALSE
