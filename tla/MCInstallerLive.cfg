CONSTANTS
    p1 = p1
    r1 = r1
    r2 = r2
    Packages <- MCPackages
    Runners <- MCRunners
    MaxConcurrent = 1
    MaxTerminated = 2
    DebugOptions = {TRUE, FALSE}
    Global = Global
    NoPackage = NoPackage
SPECIFICATION FairSpec
PROPERTIES
    AnsweredExactly
    InstallAnswered
    UninstallAnswered
    ExitReturns
CHECK_DEADLOCK FALSE
