CONSTANTS
    Requests = {q1, q2}
    Staff = {s1, s2}
    Nobody = Nobody
    MaxAttempts = 3
    MaxTickets = 2
    MaxCodes = 3
SPECIFICATION Spec
SYMMETRY Symmetric
INVARIANT
    RunsOnce
    ToldIsTrue
CHECK_DEADLOCK FALSE
