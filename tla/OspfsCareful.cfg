SPECIFICATION Spec
CONSTANTS
    NBLOCKS = 5
    NINODES = 4
    BLKSIZE = 2
    NDIRECT = 1
    UINT = 16
    MaxCount = 2
    Names <- MCNames
    NoName = none
    hello = hello
    world = world
    none = none
    Values = {1}
    Procs <- MCProcs
    Habits <- MCCareful
SYMMETRY Interchangeable
INVARIANTS
    TypeOK
    BlocksAccounted
    EveryBlockThere
    RightBlocks
    NoSpaceNoTrace
    ListsWhatStays
PROPERTIES
    KeepsItsPromise
