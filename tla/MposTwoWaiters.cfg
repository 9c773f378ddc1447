SPECIFICATION Spec
CONSTANTS
    NPROCS = 4
    Statuses <- MCStatuses
    FnAddr <- MCFnAddr
    Usages <- Double
INVARIANTS
    NobodyWaitsForTheDead
CHECK_DEADLOCK FALSE
