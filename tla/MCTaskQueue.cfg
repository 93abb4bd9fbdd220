CONSTANTS
    NPROC = 4
    Item = {p1, p2, p3, p4}
    Null = Null
SPECIFICATION QueueSpec
INVARIANTS
    NoOverflow
PROPERTIES
    ImplementsFifo
