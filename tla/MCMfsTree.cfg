SPECIFICATION Spec
CONSTANTS
  NInodes = 6
  Slots = 5
  Names = {"a", "b"}
  Paths <- SomePaths
  Queries <- TwoQueries
  Targets <- TwoTargets
  Images <- ThreeImages
  PerBlock = 3
  Blocks = 6
  LINK_MAX = 3
  SYMLOOP_MAX = 1
  MaxHeld = 5
  Careful = TRUE
  MaxCalls = 3
VIEW View
INVARIANTS LinksExact TableExact DirectoriesAreTree ToolFindsNames
PROPERTIES ImplementsDirTree
CHECK_DEADLOCK FALSE
