CONSTANTS
    a = a
    b = b
    v1 = v1
    v2 = v2
    Procs <- TwoProcs
    Versions <- MCVersions
    Target <- SamePath
    Options = {{}, {"force"}, {"debug"}}
    Uninstalling = TRUE
    MaxCrashes = 1
    Nobody = Nobody
    NoLink = NoLink
SYMMETRY Symmetry
CONSTRAINT Kept
SPECIFICATION Spec
INVARIANTS
    TypeOK
    LockSuffices
    ReceiptVouches
    RenameSucceeds
    AllOrNothing
    ForceRecovers
CHECK_DEADLOCK FALSE
