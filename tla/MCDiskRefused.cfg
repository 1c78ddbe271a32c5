CONSTANTS
    a = a
    b = b
    v1 = v1
    v2 = v2
    Procs <- TwoProcs
    Versions <- MCVersions
    Target <- SamePath
    Options = {{}}
    Uninstalling = FALSE
    MaxCrashes = 0
    Nobody = Nobody
    NoLink = NoLink
SPECIFICATION Spec
PROPERTIES
    RefusedKeepsLock
