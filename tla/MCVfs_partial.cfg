SPECIFICATION Spec
VIEW View
CHECK_DEADLOCK FALSE
CONSTANTS
  NR_PROCS = 3
  OPEN_MAX = 2
  NR_FILPS = 3
  NR_VNODES = 3
  NR_LOCKS = 3
  MAXSELECTS = 2
  PIPE_BUF = 2
  NPipes = 2
  KindOf <- MCKindOf
  MaxFsCount = 2
  MaxFile = 2
  Careful = FALSE
  Loads <- MCPartial
INVARIANT NoPanic
