SPECIFICATION FairSpec
CONSTANTS
    o1 = o1
    o2 = o2
    r1 = r1
    None = None
    OutCalls <- TwoCalls
    Rings <- OneRing
PROPERTIES
    InviteAnswered
    ActiveComesFree
CHECK_DEADLOCK FALSE
