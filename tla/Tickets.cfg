CONSTANTS
    Requests = {q1, q2}
    KeyLife = 3
    WorkLimit = 2
    LookBack = 2
    Patience = 1
    MaxTickets = 2
    CloseAfter = 1
    ReplyWindow = 1
    KeepFiles = 2
SPECIFICATION FairSpec
INVARIANT
    CustomerIsHeard
PROPERTIES
    TwinsAreOne
    ResolvedEnds
