SPECIFICATION Spec
CONSTANTS
  NrBufs = 2
  Disk = Disk
  Ram = Ram
  DiskBlocks <- TwoBlocks
  RamBlocks <- OneBlock
  NR_IOREQS = 2
  LeaveFree = 0
  MaxEvents = 4
  MaxFaults = 1
  Values <- TwoValues
  Unknown = Unknown
INVARIANTS ChainsAgree
PROPERTIES ImplementsStore SyncWritesAll
CHECK_DEADLOCK FALSE
