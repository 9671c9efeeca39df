CONSTANTS
    Slip = {s1}
    Guest = {g1}
    Cast = {}
    NoCast = NoCast
    Price <- MCPrice
    Quote = {0}
    Adjustment = {}
    Tender = {0}
    MaxNo = 2
    MaxIssued = 1
    Terminal = {t1, t2}
    MaxOp = 2
    MaxTry = 1
    MaxRevision = 3
SYMMETRY MCTerminals
SPECIFICATION RpcSpec
INVARIANTS
    RevisionDecides
