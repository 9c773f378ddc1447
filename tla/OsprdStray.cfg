SPECIFICATION Spec
CONSTANTS
    p1 = p1
    p2 = p2
    p3 = p3
    p4 = p4
    w1 = w1
    w2 = w2
    r2 = r2
    r3 = r3
    w4 = w4
    r1 = r1
    r23 = r23
    x1 = x1
    NoProc = NoProc
    NoFile = NoFile
    Procs = {p1, p2}
    Files <- TwoWriters
    Users <- MCUsers
    Writable <- MCWritable
    OtherDisk <- MCOtherDisk
    Env <- StrayEnv
    Preemptible = FALSE
    Word = 4
    MaxTicket = 3
    MaxReads = 2
INVARIANTS
    WriteExclusion
