CONSTANTS
    Page = {1, 2, 3, 4, 5, 6, 7, 8, 9, 10, 11, 12, 13, 14, 15}
    Slot = {s0, s1, s2}
    InitSlot = s0
    T = 2
    TRAMPOLINE = 7
    TRAPFRAME = 6
    UStack <- Stack
    App = {sh}
    InitApp = sh
    Segments <- SmallImages
    MaxObjects = 13
    NoSlot = NoSlot
    NoPage = NoPage
    TrampolinePage = TrampolinePage
    NullPA = NullPA
    Junk = Junk
SPECIFICATION Spec
SYMMETRY SlotSymmetry
CHECK_DEADLOCK FALSE
INVARIANT AllocprocComplete
