CONSTANTS
    p1 = p1
    r1 = r1
    r2 = r2
    Packages <- MCPackages
    Runners <- MCRunners
    MaxConcurrent = 1
    MaxTerminated = 2
    DebugOptions = {TRUE, FALSE}
    Global = Global
    NoPackage = NoPackage
SPECIFICATION Spec
INVARIANTS
    PromotionNeverBlocked
CHECK_DEADLOCK FALSE
