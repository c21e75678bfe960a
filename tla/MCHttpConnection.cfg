SPECIFICATION Spec
CONSTANTS
    Fds = {f1, f2}
    NoFd = NoFd
    Clients = {c1, c2}
    NoClient = NoClient
    Conns = {k1, k2}
    NoConn = NoConn
    Wake = Wake
    Kinds = {"keep", "close", "part"}
    MaxSend = 2
    MaxErrors = 1
SYMMETRY Symmetry
INVARIANTS
    RepliesInOrder
    DispatchSafe
    EventsCoverKernel
    UnsentIsArmed
    UnwatchedIsStale
CHECK_DEADLOCK FALSE
