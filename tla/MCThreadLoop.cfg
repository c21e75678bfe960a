SPECIFICATION FairSpec
CONSTANTS
    Size = 2
    Fds = {f1, f2}
    NoFd = NoFd
    Types = {"rd", "wr"}
    MaxCount = 2
    MaxClients = 3
INVARIANTS
    NoForgottenClient
    InOnePlace
    UnwatchedIsReused
PROPERTIES
    ClientsTaken
CHECK_DEADLOCK FALSE
