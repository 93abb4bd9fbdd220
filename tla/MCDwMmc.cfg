CONSTANTS
    DEPTH = 2
    BusHz = {0, 5}
    Freq = {0, 1, 2}
    FMin = 1
    Sizes = {1, 3}
    PHASES = 3
    MaxPolls = 1
    MaxCalls = 4
SPECIFICATION Spec
CHECK_DEADLOCK FALSE
INVARIANTS
    SuccessMeansComplete
    ClockAsRecorded
    FirstCommandInits
PROPERTY EveryCallReturns
