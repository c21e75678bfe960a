SPECIFICATION FairMasterSpec
CONSTANTS
    ProcessSize = 4
INVARIANTS
    LeavesNoWorker
    TableIsTrue
PROPERTIES
    InterruptEnds
CHECK_DEADLOCK FALSE
