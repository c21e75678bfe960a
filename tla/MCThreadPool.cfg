\* Two threads, resized twice, with both kinds of stop
SPECIFICATION FairSpec
CONSTANTS
    Tasks = {t1, t2}
    Workers = {w1, w2, w3}
    NoTask = NoTask
    Nobody = Nobody
    InitSize = 2
    Sizes = {1, 2}
    MaxResizes = 2
    Stops = {TRUE, FALSE}
    Garbage = {TRUE, FALSE}
INVARIANTS
    TaskConserved
    NoStrandedTask
PROPERTIES
    TasksFinish
    StopReturns
CHECK_DEADLOCK FALSE
