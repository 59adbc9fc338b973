CONSTANTS
    c1 = c1
    c2 = c2
    acme = acme
    Carts = {c1, c2}
    Guest = g
    ClientOf <- MCClientOf
    Names = {n1}
    AddonPeriods = {"annual"}
    CouponRules <- MCCouponRules
    Requests = {q1, q2}
    MaxEdits = 2
    MaxOrders = 2
SPECIFICATION Spec
INVARIANTS
    OneOrderPerCart
    CouponWithinLimit
    OrderFitsTogether
SYMMETRY Symmetric
CHECK_DEADLOCK FALSE
