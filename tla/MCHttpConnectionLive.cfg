SPECIFICATION FairSpec
CONSTANTS
    Fds = {f1}
    NoFd = NoFd
    Clients = {c1, c2}
    NoClient = NoClient
    Conns = {k1}
    NoConn = NoConn
    Wake = Wake
    Kinds = {"keep", "close", "blank", "bad"}
    MaxSend = 2
    MaxErrors = 0
PROPERTIES
    RepliesDelivered
    ClosingFinishes
CHECK_DEADLOCK FALSE
