CONSTANTS
    NCPU = 4
    BootHart = 2
    Layouts <- Images
    PHYS_MEM_SIZE = 16384
    PLIC_SIZE = 16384
    Pools <- SmallPools
    NPROC = 3
SPECIFICATION BootMapSpec
CHECK_DEADLOCK FALSE
INVARIANTS
    BootStackExclusive
    SatpIntact
    OwnCpu
    HartsMapped
    KernelTableExact
PROPERTY AllSchedule
