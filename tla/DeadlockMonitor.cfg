SPECIFICATION FairSpec
CONSTANTS
    a1 = a1
    a2 = a2
    b1 = b1
    b2 = b2
    NoProc = NoProc
    ResPairs <- TwoPairs
    SHARED_RESOURCE_MAX = 2
INVARIANTS
    Inv
    NoFreedPairInUse
    WalkCountsEdges
    TotalBlockedExact
PROPERTIES
    DestructsExactlyTheDeadlocked
    CheckReturns
