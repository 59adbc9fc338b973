CONSTANTS
    Requests = {r1}
    Workers = {w1}
    Paid = 2
    ClaimTimeout = 2
    WorkLimit = 1
    MaxCrashes = 1
SPECIFICATION Spec
INVARIANT
    RefundedOnceEver
CHECK_DEADLOCK FALSE
