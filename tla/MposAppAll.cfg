SPECIFICATION AppFairSpec
CONSTANTS
    NPROCS = 16
    Statuses <- MCStatuses
    FnAddr <- MCFnAddr
    Usages <- WithKill
    Apps <- AllApps
    LIMIT = 1025
    YIELDS = 20
PROPERTIES
    Finishes
CHECK_DEADLOCK FALSE
