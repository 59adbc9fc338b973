CONSTANTS
    Requests = {r1, r2}
    Workers = {w1, w2}
    Paid = 2
    ClaimTimeout = 2
    WorkLimit = 1
    MaxCrashes = 1
SPECIFICATION FairSpec
INVARIANTS
    OneExecutor
    EffectsMatchStatus
PROPERTY
    DueIsAttempted
CHECK_DEADLOCK FALSE
