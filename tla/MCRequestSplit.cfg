SPECIFICATION Spec
CONSTANTS
    Messages <- Gets
    MaxMessages = 1
    Split = TRUE
INVARIANTS
    HandledIsSent
CHECK_DEADLOCK FALSE
