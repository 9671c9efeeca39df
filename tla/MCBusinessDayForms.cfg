CONSTANTS
    Cast = {c1}
    HomeCast = {c1}
    Staff = {w1}
    Slip = {s1}
    Amount = {0}
    NotEntered = NotEntered
    Page = {p1}
    MaxDate = 3
    MaxDay = 2
    MaxOp = 2
    MaxRevision = 3
SPECIFICATION DaySpec
INVARIANTS
    DayTypeOK
    AnsweredTruly
CHECK_DEADLOCK FALSE
