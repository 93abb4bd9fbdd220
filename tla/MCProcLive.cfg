CONSTANTS
    CPU = {c1, c2}
    NPROC = 3
    MaxPid = 3
    WaitPid <- AnyChild
    Calls = {"fork", "wait"}
    NoCpu = NoCpu
    NoProc = NoProc
SPECIFICATION FairSpec
PROPERTIES
    QueuedRuns
    ExitEnds
