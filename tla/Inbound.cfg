SPECIFICATION FairSpec
CONSTANTS
    a = a
    b = b
    None = None
    Ops <- TwoOps
    SyncLimit = 2
    MaxBridgeRestarts = 1
    MaxFaults = 1
INVARIANTS
    SavedMeansForwarded
    NoSelfEcho
PROPERTIES
    ImplementsRelay
    OpReachesOutbox
CHECK_DEADLOCK FALSE
