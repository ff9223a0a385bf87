SPECIFICATION FairSpec
CONSTANTS
    c1 = c1
    c2 = c2
    i1 = i1
    i2 = i2
    o1 = o1
    Conns <- TwoConns
    Items <- TwoItems
    Silent <- OneItem
    Confirms <- NoConfirm
    MaxHold = 1
    HoldTicks = 1
    MiniTicks = 0
    MaxDrops = 1
    MaxCrashes = 1
    MaxMarkers = 0
    MaxFaults = 1
PROPERTIES
    ItemReachesPhone
    PollEnds
