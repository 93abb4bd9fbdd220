CONSTANTS
    CPU = {c1, c2}
    Thread = {t1, t2, t3}
    NoCpu = NoCpu
    NoThread = NoThread
SPECIFICATION Spec
SYMMETRY ThreadSymmetry
INVARIANTS
    KernelContext
    InterruptsFollowThread
    NoPanic
    OneHartPerStack
