SPECIFICATION Spec
CONSTANTS
    m1 = m1
    m2 = m2
    m3 = m3
    r1 = r1
    r2 = r2
    Msgs <- ThreeMsgs
    Readers <- TwoReaders
    PendingMax = 2
    MaxClock = 6
    MaxRestarts = 1
INVARIANTS
    ReportsAreTrue
    OtherReadsExact
PROPERTY GroupComplete
SYMMETRY Symmetry
CHECK_DEADLOCK FALSE
