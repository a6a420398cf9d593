SPECIFICATION Spec
CONSTANTS
    N = 3
    NoArg = NoArg
    Args <- OneCycle
INVARIANTS ForksAccounted NeighboursNeverEat LinesWhole NoDeadlock
