CONSTANTS
    N = 2
    W = 4
    Text = {x}
    Reader = {p1, p2}
    Length = {2, 4}
    None = None
SPECIFICATION FairSpec
INVARIANTS
    RingBounds
    ReadCount
PROPERTIES
    ImplementsDiscipline
    ShortReadEof
    CommittedIsRead
