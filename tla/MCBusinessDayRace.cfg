CONSTANTS
    Cast = {c1}
    HomeCast = {c1}
    Staff = {}
    Slip = {s1}
    Amount = {0}
    NotEntered = NotEntered
    Page = {p1, p2}
    MaxDate = 3
    MaxDay = 3
    MaxOp = 2
    MaxRevision = 3
SYMMETRY MCPages
SPECIFICATION DaySpec
INVARIANTS
    OneOpenDay
    ClosedDayFixed
    SavesMeetTheScreen
    RevisionTellsBook
CHECK_DEADLOCK FALSE
