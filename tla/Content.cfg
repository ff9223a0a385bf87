SPECIFICATION Spec
CONSTANTS
    p1 = p1
    r1 = r1
    r2 = r2
    v1 = v1
    v2 = v2
    m1 = m1
    Posts <- OnePost
    Threads <- TwoThreads
    Videos <- TwoVideos
    None = None
    ListLife = 1
    CreateLife = 2
    MaxNow = 2
    MaxTries = 2
    MaxLists = 2
    MaxFaults = 1
    MaxRestarts = 1
    Budget = 1
    MaxAsks = 3
    MaxWrites = 3
    MaxLookups = 3
    Media <- OneMessage
    MaxUploads = 2
    MaxErrors = 1
    MaxDispatches = 2
    MaxVideoRestarts = 2
    MaxBridgeRestarts = 1
INVARIANTS
    LookupIsFresh
    ToldIsStored
    VideosSound
    QueuedOnce
    ExtraCopies
PROPERTIES
    NoSecondCopy
SYMMETRY Symmetry
CHECK_DEADLOCK FALSE
