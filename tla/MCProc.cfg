CONSTANTS
    CPU = {c1, c2}
    NPROC = 3
    MaxPid = 5
    WaitPid <- SomeChild
    Calls = {"fork", "exec", "wait", "getppid"}
    NoCpu = NoCpu
    NoProc = NoProc
SPECIFICATION Spec
SYMMETRY CpuSymmetry
CHECK_DEADLOCK FALSE
INVARIANTS
    NoPanic
    InOnePlace
    StackNotReused
    ParentAlive
    ForkedChildStays
    NoLostWakeup
    NoLockCycle
