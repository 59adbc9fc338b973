CONSTANTS
    Requests = {r1, r2}
    Poller = Poller
    MaxRenewals = 2
    MaxYears = 3
SPECIFICATION DomainsFairSpec
INVARIANTS
    PanelPromisesLess
    RenewalsWerePaidFor
PROPERTY
    TransferFinishes
CHECK_DEADLOCK FALSE
