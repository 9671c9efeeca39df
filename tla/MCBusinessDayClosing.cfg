CONSTANTS
    Cast = {c1}
    HomeCast = {c1}
    Staff = {}
    Slip = {s1}
    Amount = {0}
    NotEntered = NotEntered
    Page = {p1}
    MaxDate = 3
    MaxDay = 2
    MaxOp = 2
    MaxRevision = 3
SPECIFICATION DaySpec
INVARIANT
    ClosingEndsDay
CHECK_DEADLOCK FALSE
