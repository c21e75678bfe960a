SPECIFICATION FairSpec
CONSTANTS
    Messages <- AllMessages
    MaxMessages = 2
    Split = FALSE
INVARIANTS
    HandledIsSent
    Aligned
    RejectsOnlyMalformed
PROPERTIES
    AllHandled
CHECK_DEADLOCK FALSE
