SPECIFICATION Spec
CONSTANTS
    t1 = t1
    t2 = t2
    t3 = t3
    c1 = c1
    c2 = c2
    Tasks <- ThreeTasks
    MethodOf <- Methods
    Calls <- TwoCalls
    None = None
    MaxTries = 3
    MaxErrors = 1
    MaxTimeouts = 2
    MaxFrames = 2
    HoldTicks = 1
    MaxMillis = 1
    MaxItems = 1
    MaxFaults = 1
INVARIANTS
    AnswerIsTrue
    InterceptedIsSynthesized
PROPERTIES
    TaskGetsDone
    EveryCallAnswered
CHECK_DEADLOCK FALSE
