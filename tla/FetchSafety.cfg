SPECIFICATION Spec
CONSTANTS
    c1 = c1
    c2 = c2
    i1 = i1
    i2 = i2
    o1 = o1
    Conns <- TwoConns
    Items <- TwoItems
    Silent <- NoItem
    Confirms <- OneConfirm
    MaxHold = 1
    HoldTicks = 1
    MiniTicks = 1
    MaxDrops = 1
    MaxCrashes = 1
    MaxMarkers = 1
    MaxFaults = 1
INVARIANTS
    AtMostOnce
    SavedBeforeAnswer
    HoldAccounting
PROPERTY ImplementsMailbox
SYMMETRY FullSymmetry
CHECK_DEADLOCK FALSE
