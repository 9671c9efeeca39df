CONSTANTS
    Slip = {s1}
    Guest = {g1}
    Cast = {}
    NoCast = NoCast
    Price <- MCPrice
    Quote = {0}
    Adjustment = {}
    Tender <- MCTender
    MaxNo = 3
    MaxIssued = 2
    Terminal = {t1}
    MaxOp = 1
    MaxTry = 2
    MaxRevision = 5
SPECIFICATION RpcSpec
INVARIANTS
    RpcTypeOK
    AnsweredAsApplied
PROPERTIES
    OldScreensHarmless
    ServesLedger
