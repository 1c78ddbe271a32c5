CONSTANTS
    a = a
    b = b
    a1 = a1
    a2 = a2
    b1 = b1
    u = u
    Sources <- TwoSources
    Lines <- OneLine
    Asked <- OneOrNone
    MaxRequests = 3
    Scripts = {b1}
    Urls = {}
    ScriptSource <- Sourced
    Place <- Places
    Spot <- Elsewhere
    Overlaid = {b1}
    MaxFilters = 2
    MaxClears = 0
SPECIFICATION LiveSpec
CHECK_DEADLOCK FALSE
INVARIANTS
    HandlerMatches
    Silenced
PROPERTIES
    Answered
