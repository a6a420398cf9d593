SPECIFICATION FairSpec
CONSTANTS
    Thread = {t1, t2, t3}
    NULL = NULL
    Main = Main
    MaxTid = 4
    Schedulers = {"rr", "alt"}
    Careless = {}
INVARIANTS OnlyLiveThreadsLinked RunningIsCurrent ContextsIntact
PROPERTIES TurnOrder EveryoneRuns TransferEnds
