CONSTANTS
    Callers = {c1, c2}
    Staff = {s1, s2}
    NoOne = NoOne
    Wait = 2
    Hold = 4
    WorkLimit = 3
SPECIFICATION FairSpec
INVARIANTS
    Exclusive
    NotAskedAgain
    ActiveIsOnServer
PROPERTIES
    WaitersAreAnswered
