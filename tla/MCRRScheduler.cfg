SPECIFICATION RRSpec
CONSTANTS
    Thread = {t1, t2, t3, t4}
    NULL = NULL
INVARIANTS RingOK
PROPERTIES RemovalKeepsTurn ImplementsRoundRobin
