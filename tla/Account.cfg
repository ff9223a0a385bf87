SPECIFICATION Spec
CONSTANTS
    x = x
    y = y
    s1 = s1
    s2 = s2
    r1 = r1
    r2 = r2
    o1 = o1
    o2 = o2
    c1 = c1
    c2 = c2
    Mids <- TwoMids
    Newcomers <- OneNewcomer
    Statuses <- TwoStatuses
    Operations <- TwoOperations
    Threads <- TwoThreads
    Calls <- TwoCalls
    OutCalls <- TwoCalls
    Rings <- OneRing
    None = None
    Life = 1
    MaxKept = 1
    MaxHistory = 2
    TicketLife = 1
    MaxAdded = 1
    Window = 1
    MaxRecent = 1
    MaxOps = 3
    MaxJobs = 1
    MaxFailures = 1
    MaxNow = 2
    MaxTries = 2
    MaxDumps = 1
    MaxAsks = 3
    MaxSyncs = 1
    MaxFaults = 1
    MaxRestarts = 1
INVARIANTS
    FileIsCurrent
    PhoneAgrees
    AnswerIsTrue
    CallListedOnce
    ReleasedWhenClosed
PROPERTY RetryNotRepeated
SYMMETRY Symmetry
CHECK_DEADLOCK FALSE
