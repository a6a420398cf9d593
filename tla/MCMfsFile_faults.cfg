SPECIFICATION Spec
CONSTANTS
  Files = {f1, f2}
  U = 2
  DZones = 1
  Scales <- BothScales
  Zones = 12
  FirstZone = 5
  ChunkBits = 2
  BlockBits = 6
  Positions <- FaultPositions
  Lengths <- SomeLengths
  CopyFaults = TRUE
  Careful = FALSE
  MaxCalls = 3
SYMMETRY Symmetry
INVARIANTS ZonesExact
PROPERTIES RemovalLosesPastEnd
CHECK_DEADLOCK FALSE
