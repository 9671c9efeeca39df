SPECIFICATION OfficeSpec
CONSTANTS
    a1 = a1  a2 = a2  v1 = v1  v2 = v2  c1 = c1  c2 = c2  r1 = r1  r2 = r2
    Area = {a1, a2}
    Value = {v1, v2}
    Admin = FALSE
    MaxOp = 2
    MaxForeign = 2
    MaxFault = 2
    Cast = {}
    Rest = {r1}
    Filters = {{1, 2, 3, 4, 5}, {1, 2, 3, 4}, {2, 3, 4, 5}}
    MaxDay = 5
    PageSize = 2
    SearchPages = 2
    Editable = 1
    MaxOpen = 0
    MaxVersion = 1
    MaxLoad = 3
    MaxSave = 1
SYMMETRY Alike
INVARIANTS OfficeTypeOK AppliedOnce ToldAsApplied ListMatches
PROPERTIES CorrectionsHold
CHECK_DEADLOCK FALSE
