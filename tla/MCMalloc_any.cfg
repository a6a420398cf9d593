SPECIFICATION Spec
CONSTANTS
  OFFSET = 32
  NEW_MEM_BLK = 64000
  WORD = 16777216
  Base = 4096
  MaxBrk = 196096
  Sizes = {0, 112, 48000}
  MaxHeld = 3
  MaxCalls = 8
  Careful = FALSE
INVARIANTS MergedAll
CHECK_DEADLOCK FALSE
