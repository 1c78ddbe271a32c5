CONSTANTS
    a = a
    b = b
    a1 = a1
    a2 = a2
    b1 = b1
    u = u
    Sources <- OneSource
    Lines <- TwoLines
    Asked <- BothOrLast
    MaxRequests = 2
    Scripts = {a1, a2}
    Urls = {u}
    ScriptSource <- Sourced
    Place <- Places
    Spot <- Folded
    Overlaid = {a2}
    MaxFilters = 0
    MaxClears = 1
SPECIFICATION Spec
CHECK_DEADLOCK FALSE
INVARIANTS
    TypeOK
    NoOrphan
    CurrentSet
