CONSTANTS
    CPU = {c1}
    NPROC = 4
    MaxPid = 4
    WaitPid <- AnyChild
    Calls = {"fork", "wait"}
    NoCpu = NoCpu
    NoProc = NoProc
SPECIFICATION Spec
INVARIANT EveryParentWoken
