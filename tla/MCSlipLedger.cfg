CONSTANTS
    Slip = {s1}
    Guest = {g1, g2}
    Cast = {c1, c2}
    NoCast = NoCast
    Price <- MCPrice
    Quote <- MCQuote
    Adjustment <- MCAdjustment
    Tender <- MCTender
    MaxNo = 4
    MaxIssued = 2
SPECIFICATION Spec
INVARIANTS
    TypeOK
    DocumentsFollowStatus
    StatementMatchesRows
    PaidInFull
    SalesForLiveCheckout
PROPERTIES
    RowsAgree
    WorkFrozen
    ImplementsLifecycle
