CONSTANTS
    MaxChanges = 2
    Term = 1
    LeadDays = 1
    GraceAfter = 1
    SuspendAfter = 2
    TerminateAfter = 3
    BackupFirst = TRUE
SPECIFICATION FairSpec
INVARIANTS
    TermsWerePaidFor
    SuspensionIsFair
PROPERTIES
    NothingIsLost
    UnpaidIsSuspended
CHECK_DEADLOCK FALSE
