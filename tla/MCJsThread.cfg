\* The debuggee may stop pausing and the client may stop asking.
SPECIFICATION LiveSpec
CONSTANTS
    MaxPauses = 3
    MaxAsked = 2
INVARIANTS
    TypeOK
    Truthful
PROPERTIES
    ShownIsKept
    PausesSettle
CHECK_DEADLOCK FALSE
