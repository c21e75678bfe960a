SPECIFICATION FairSpec
CONSTANTS
    Fds = {f1}
    NoFd = NoFd
    Clients = {c1}
    NoClient = NoClient
    Conns = {k1}
    NoConn = NoConn
    Wake = Wake
    Kinds = {"keep"}
    MaxSend = 1
    MaxErrors = 0
PROPERTIES
    HalfClosedFinishes
CHECK_DEADLOCK FALSE
