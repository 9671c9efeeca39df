SPECIFICATION PageSpec
CONSTANTS
    s1 = s1
    c1 = c1
    c2 = c2
    beer = beer
    drink = drink
    nobody = nobody
    Slip = {s1}
    Cast = {c1}
    NoCast = nobody
    MaxRow = 0
    MaxCommand = 3
    MaxRev = 3
    MaxFlight = 3
    Denials = FALSE
    MaxOp = 2
    MaxQuantity = 1
    MaxTyped = 1
    MaxRevision = 1
    MaxDay = 2
    Fault = {"timeout", "loss", "reload"}
    MaxFault = 2
    Staff = {"edit", "quantity", "close", "open"}
INVARIANTS PageTypeOK
PROPERTIES TypedIsSafe ScreenForward ImplementsEditList EditorForetells SlipOpenedOnce
CHECK_DEADLOCK FALSE
