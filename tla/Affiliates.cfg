CONSTANTS
    k1 = k1
    Clients = {k1}
    Affiliates = {a1, a2}
    Invoices = {i1, i2}
    ClientOf <- MCClientOf
    Total = 3
    Share = 2
    MinimumPayout = 2
    Staff = {s1, s2}
    None = None
    MaxReviews = 2
SPECIFICATION AffiliatesFairSpec
INVARIANT
    RefundsFollowMoney
PROPERTIES
    PayoutsAreSound
    HoldEnds
CHECK_DEADLOCK FALSE
