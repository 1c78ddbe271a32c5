CONSTANTS
    main = main
    worker = worker
    child = child
    Targets <- TwoTargets
    Workers <- OneWorker
    Openers <- Pair
    Root = root
    ShortLived = TRUE
    MaxAsked = 1
SPECIFICATION LiveSpec
CHECK_DEADLOCK FALSE
PROPERTIES
    TerminateResolves
