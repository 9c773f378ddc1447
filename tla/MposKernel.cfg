SPECIFICATION FairSpec
CONSTANTS
    NPROCS = 4
    Statuses <- MCStatuses
    FnAddr <- MCFnAddr
    Usages <- AllUsages
INVARIANTS
    TypeOK
    BlockedWillBeWoken
PROPERTIES
    WaitGivesStatus
    ZombieReapedOnce
    EveryoneRuns
CHECK_DEADLOCK FALSE
