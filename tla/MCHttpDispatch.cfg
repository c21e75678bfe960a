\* Two workers, three descriptors, eventfds that hold two messages
SPECIFICATION FairSpec
CONSTANTS
    Fds = {f1, f2, f3}
    NoFd = NoFd
    Size = 2
    MaxCount = 2
INVARIANTS
    TypeOK
    NoForgottenClient
    SingleOwner
    OpenIsHeld
PROPERTY
    ImplementsHandoff
CHECK_DEADLOCK FALSE
