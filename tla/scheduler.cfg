SPECIFICATION FairSpec
CONSTANTS
    t1 = t1
    t2 = t2
    t3 = t3
    t4 = t4
    NoThread = NoThread
    Thread = {t1, t2, t3}
    MaxWaitersPerLane <- TwoMiningSlots
    MaxQueueWait = 2
    MinLease = 1
    AntiStarve = 1
    Requests = {1, 2}
    Capacities = {0, 1}
INVARIANTS
    HolderIsOwner
    MiningKeepsMinLease
PROPERTIES
    PreemptedByHigherPriority
    ReservedLanesNotStolen
    FifoWithinLane
    TimeoutImpliesPreempted
    AcquireReturns
