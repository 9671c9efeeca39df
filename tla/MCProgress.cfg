SPECIFICATION ProgressSpec
CONSTANTS
    s1 = s1  a1 = a1  v1 = v1  v2 = v2  t1 = t1  t2 = t2
    Slip = {s1}
    MaxOp = 2
    MaxQuantity = 1
    MaxTyped = 0
    MaxRevision = 2
    MaxDay = 1
    Fault = {"reload"}
    MaxFault = 1
    Staff = {"edit", "close", "reopen"}
PROPERTIES PageSettles WaitingEnds
CHECK_DEADLOCK FALSE
