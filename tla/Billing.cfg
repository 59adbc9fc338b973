CONSTANTS
    Invoices = {i1}
    Txs = {t1, t2, t3}
    Providers = {p1}
    Events = {e1, e2}
    Keys = {k1}
    NoKey = NoKey
    MaxTotal = 2
SPECIFICATION FairSpec
INVARIANTS
    InvoiceMatchesLedger
    RefundsAreSound
    CancelledHasNothingPending
    InvoicePaidSentOnce
    ManualMoneyWithinTotal
PROPERTIES
    SettledNeverReopens
    CapturedMoneyIsRecorded
CHECK_DEADLOCK FALSE
