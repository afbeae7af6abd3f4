SPECIFICATION FairSpec
CONSTANTS
    g = g
    a1 = a1
    a2 = a2
    a3 = a3
    a4 = a4
    a5 = a5
    b4 = b4
    x4 = x4
    y5 = y5
    n1 = n1
    n2 = n2
    n3 = n3
    s1 = s1
    s2 = s2
    None = None
    Genesis = g
    Block <- MCBlock
    Parent <- MCParent
    Height <- MCHeight
    Nullifiers <- MCNullifiers
    Created <- MCCreated
    Consumed <- MCConsumed
    ValueBalance <- MCValueBalance
    MaxMoney = 10
    Window = 2
    CapBps = 5000
    MinCap = 0
    AnchorDepth = 2
    Retention = 3
    MaxCrashes = 2
    ReorgFloor = 3
INVARIANTS
    LiveStateMatchesChain
    UnmarkedMeansWhole
    MarkedMeansRepairable
PROPERTIES
    VerdictsFollowChain
    PreparedTransitionNotDiscarded
    UnprunedRestarts
CHECK_DEADLOCK FALSE
