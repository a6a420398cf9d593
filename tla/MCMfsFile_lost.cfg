SPECIFICATION Spec
CONSTANTS
  Files = {f1, f2}
  U = 2
  DZones = 1
  Scales <- BothScales
  Zones = 12
  FirstZone = 5
  ChunkBits = 2
  BlockBits = 6
  Positions <- SomePositions
  Lengths <- SomeLengths
  CopyFaults = FALSE
  Careful = TRUE
  MaxCalls = 3
SYMMETRY Symmetry
INVARIANTS NothingLost
CHECK_DEADLOCK FALSE
