CONSTANTS
    p1 = p1
    p2 = p2
    r1 = r1
    r2 = r2
    r3 = r3
    Packages <- MCPackages
    Runners <- MCRunners
    MaxConcurrent = 2
    MaxTerminated = 1
    DebugOptions = {FALSE}
    Global = Global
    NoPackage = NoPackage
SYMMETRY Symmetry
SPECIFICATION Spec
INVARIANTS
    TypeOK
    LimitRespected
    OneAtWorkPerPackage
    PermitsConserved
    NoOpenProcess
    NoSlotLost
PROPERTIES
    GlobalSemaphoreRefined
    CancelledStaysCancelled
    PackageSemaphoreRefined
CHECK_DEADLOCK FALSE
