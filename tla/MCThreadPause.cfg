\* The debuggee may stop pausing and the client may stop asking.
SPECIFICATION Spec
CONSTANTS
    MaxPauses = 3
    MaxAsked = 2
PROPERTY PauseHonoured
CHECK_DEADLOCK FALSE
