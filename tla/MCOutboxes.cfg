SPECIFICATION BoxSpec
CONSTANTS
    s1 = s1
    s2 = s2
    i1 = i1
    none = none
    Slip = {s1, s2}
    NoSlip = none
    Item = {i1}
    DayPassed = TRUE
    MaxDay = 1
    MaxRev = 2
    MaxPiece = 2
    MaxOp = 2
    MaxCall = 1
    MaxDoc = 2
    MaxCommand = 2
    MaxVersion = 0
    MaxFault = 2
    Window = 3
    BadWrites = FALSE
    Forgets = FALSE
SYMMETRY Alike
INVARIANTS BoxTypeOK OrderedOnce
PROPERTIES ReceiptsOnce
CHECK_DEADLOCK FALSE
