SPECIFICATION TillSpec
CONSTANTS
    t1 = t1
    t2 = t2
    s1 = s1
    s2 = s2
    Thread = {t1, t2}
    MaxCall = 3
    MaxMaster = 1
    Slip = {s1, s2}
    Typed = {1}
    MaxCheckout = 1
    MaxRev = 2
    MaxOp = 2
    MaxSent = 2
    MaxReload = 1
    MaxKept = 1
    MaxIssue = 2
    MaxOpen = 3
    MaxJob = 4
    MaxTillReload = 1
SYMMETRY Alike
INVARIANTS TillTypeOK OneFetch CacheFollowsClears PrintedAsKept CastSalesTold
CHECK_DEADLOCK FALSE
