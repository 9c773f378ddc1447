SPECIFICATION Spec
CONSTANTS
    f = f
    g = g
    h = h
    good = good
    breaks = breaks
    wrong = wrong
    tail = tail
    mixed = mixed
    empty = empty
    itself = itself
    down = down
    Free = Free
    Old = Old
    NoName = NoName
    TASKBUFSIZ = 2
    Children = {1, 2, 3}
    LocalNames = 2
    MAX_FILESIZE = 4
    MIN_TRANSRATE = 2
    SAMPLESIZE = 2
    MAXCONNPID = 2
    Ports = 2
    FileNames <- MCFileNames
    Content <- MCContent
    Peers <- MCPeers
    Reach <- MCReach
    Serves <- MCServes
    Conns <- MCConns
    Asks <- MCAsks
    Scenes <- MCScenes
INVARIANTS
    TypeOK
    FilesKept
    FirstPeerSuffices
    UploadsWhole
    ChildrenCounted
PROPERTIES
    EveryoneEnds
