SPECIFICATION PrintSpec
CONSTANTS
    MaxKept = 1
    MaxIssue = 1
    MaxOpen = 1
    MaxJob = 4
    MaxTillReload = 0
INVARIANTS ReprintMarked
CHECK_DEADLOCK FALSE
