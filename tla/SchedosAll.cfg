SPECIFICATION FairSpec
CONSTANTS
    NPROCS = 4
    RUNCOUNT = 2
    Builds <- MCBuilds
    PRIORITY <- ByNumber
    SHARE <- ByNumber
    COUNTER <- FirstUsed
    USER_PRIORITY <- Equals
    USER_SHARE <- ByNumber
INVARIANTS
    TypeOK
    CharactersKept
PROPERTIES
    SchedulesByRule
    NobodyStarves
    EveryoneFinishes
CHECK_DEADLOCK FALSE
