SPECIFICATION Spec
CONSTANTS
    t1 = t1
    t2 = t2
    t3 = t3
    t4 = t4
    NoThread = NoThread
    Thread = {t1, t2, t3, t4}
    MaxWaitersPerLane <- MAX_WAITERS_PER_LANE
    MaxQueueWait = 2
    MinLease = 1
    AntiStarve = 1
    Requests = {1}
    Capacities = {0}
SYMMETRY ThreadSymmetry
INVARIANTS
    StarvedMiningTakesFreeTurn
