SPECIFICATION FairSpec
CONSTANTS
    None = None
    MaxJobs = 2
    MaxFaults = 2
INVARIANTS
    AtMostOnce
    DeliveryOrder
    AckMeansAccepted
PROPERTY JobAnswered
CHECK_DEADLOCK FALSE
