SPECIFICATION FairSpec
CONSTANTS
    Muxes = {"select", "poll"}
    Fds = {1, 200, 2000}
    Hangups <- MCHangups
    Events <- MCEvents
    Timers = {t1, t2}
    NoTimer = NoTimer
    Delays = {0, 1}
    MaxTime = 1
    MaxCalls = 2
INVARIANTS
    HandlersMatch
    DispatchHasChannel
    SetsCover
PROPERTIES
    FiresInOrder
    TimersFire
    ReadyIsServed
CHECK_DEADLOCK FALSE
