CONSTANTS
    CPU = {c1, c2}
    Lock = {l1, l2}
    NoCpu = NoCpu
SPECIFICATION FairSpec
\* Callers that take the locks in opposite orders do stop.
CHECK_DEADLOCK FALSE
INVARIANTS
    MutualExclusion
    NoPanic
    InterruptStateRestored
PROPERTY AcquireProgress
