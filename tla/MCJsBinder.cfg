CONSTANTS
    main = main
    worker = worker
    child = child
    Targets <- ThreeTargets
    Workers <- OneWorker
    Openers <- Family
    Root = root
    ShortLived = FALSE
    MaxAsked = 1
SPECIFICATION LiveSpec
CHECK_DEADLOCK FALSE
INVARIANTS
    TypeOK
    DisconnectInOrder
    EventBeforeClose
    RootTerminatedLast
PROPERTIES
    SessionsRefined
    ShutDownCompletes
