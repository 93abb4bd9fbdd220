CONSTANTS
    P = 3
    NPages = 5
    UStack = 3
    Programs <- Small
    MaxLen = 5
    IntSize = 2
    MaxCalls = 2
SPECIFICATION Spec
INVARIANTS
    LoadedExact
    CopyExact
PROPERTY PermittedAccessCompletes
CHECK_DEADLOCK FALSE
