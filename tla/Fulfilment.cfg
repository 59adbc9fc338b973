CONSTANTS
    Workers = {w1, w2}
    NumLines = 3
    Kind <- PlanAddonDomain
    Parent <- AddonOfPlan
    Price = 2
    MaxPaid = 2
    MaxQueue = 1
    MaxPages = 1
    TaskLimit = 1
    StuckAfter = 2
SPECIFICATION FairSpec
INVARIANTS
    OneWorkerAtATime
    OneServicePerLine
    OrderIsSound
PROPERTIES
    KeepsPromise
    OrderMovesOn
CHECK_DEADLOCK FALSE
