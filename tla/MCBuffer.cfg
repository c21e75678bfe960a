SPECIFICATION Spec
CONSTANTS
    Bytes = {a, CR, LF, NUL}
    CR = CR
    LF = LF
    NUL = NUL
    Junk = Junk
    DefaultSize = 1
    MinSize = 2
    MaxRead = 2
    MaxTotal = 4
    MaxData = 2
INVARIANTS
    ContentFits
    NoWildWrite
PROPERTIES
    ImplementsByteFifo
CHECK_DEADLOCK FALSE
