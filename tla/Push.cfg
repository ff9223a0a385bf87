SPECIFICATION FairSpec
CONSTANTS
    d1 = d1
    d2 = d2
    m1 = m1
    m2 = m2
    e1 = e1
    r1 = r1
    r2 = r2
    x1 = x1
    None = None
    Devices <- TwoDevices
    Rejected <- NoDevice
    Messages <- TwoMessages
    Receipts <- OneReceipt
    Rings <- TwoRings
    Incomplete <- OneRing
    Cancels <- OneCancel
    Fresh = FALSE
    MaxFailures = 1
    MaxRestarts = 1
INVARIANTS
    NothingSkipped
    OneLineRepeated
PROPERTY EveryDeviceNotified
CHECK_DEADLOCK FALSE
