SPECIFICATION FairSpec
CONSTANTS
    Threads = {t1, t2}
    NoThread = NoThread
    Sockets = {"listen", "session"}
    Ops <- MCOps
    NoOp = NoOp
    Target <- MCTarget
    Follow <- MCFollow
    First = {"accept1"}
INVARIANTS
    HandlersMatch
    ExecutedOnce
    NoStrandedOp
PROPERTIES
    OpsExecuted
CHECK_DEADLOCK FALSE
