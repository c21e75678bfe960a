------------------------------- MODULE Reactor -------------------------------
(***************************************************************************)
(* reactor<select> and reactor<poll> with their timers (wxg::time): the    *)
(* loop that waits, runs the callbacks of timers that are due, calls the   *)
(* handlers of descriptors that are ready, and then drops the channels     *)
(* that lost their handlers.                                               *)
(*                                                                         *)
(* Callbacks are user code: while one runs it may set timers, set and      *)
(* remove handlers of any descriptor and stop the loop.  A channel that    *)
(* has lost its handlers is dropped at the end of the turn, with what has  *)
(* been set again since, while its descriptor stays registered.            *)
(* Timers are in a set ordered by their timeout, which has no two timers   *)
(* with the same timeout: inserting the second has no effect.              *)
(* Variables that stand for locals are reset when they go out of scope.    *)
(***************************************************************************)
EXTENDS Integers, FiniteSets

CONSTANTS Muxes,     \* the classes to use: "select", "poll"
          Fds,       \* descriptors, numbers
          Events,    \* class: pairs of a descriptor and "rd" or "wr", what may be watched
          Hangups,   \* pairs of a descriptor and "hup": whose peers may go
          Timers,    \* timer objects
          NoTimer,   \* timers.end()
          Delays,    \* arguments of set_timer
          MaxTime,   \* the last instant
          MaxCalls   \* calls of the reactor by callbacks, and failures of listen

ASSUME MuxesAssumption == Muxes \subseteq {"select", "poll"}
ASSUME FdsAssumption == Fds \subseteq Nat /\ Events \in [Muxes -> SUBSET (Fds \X {"rd", "wr"})]
                        /\ Hangups \subseteq Fds \X {"hup"}
ASSUME TimersAssumption == NoTimer \notin Timers /\ Delays \subseteq Nat
ASSUME BoundsAssumption == MaxTime \in Nat /\ MaxCalls \in Nat

VARIABLES
    mux,         \* IoMultiplex
    now,         \* gettimeofday
    timer,       \* timer: state, tv, timeout, persistent
    pnow,        \* the local now of process
    it,          \* the local i of process: the next timer, or NoTimer
    caller,      \* who called process: "shortest_time" or "loop"
    channels,    \* descriptors with a channel
    cb,          \* descriptor: its callbacks, "rd" and "wr"
    needclean,   \* descriptors whose channels are to be dropped
    in,          \* descriptor: readset_in and writeset_in, or pollfdMap
    highest,     \* highest_fd of select
    size,        \* bytes of the sets of select
    revived,     \* history: descriptors whose handler was set while in needclean
    out,         \* descriptor: readset_out and writeset_out, or result
    fresh,       \* whether the last call of listen has set out
    todo,        \* active descriptors the loop has not come to
    ready,       \* descriptor: what the kernel would report
    terminated,
    pc,          \* where the loop is, "setup" before it, or why it has crashed
    cur,         \* the timer or descriptor whose callback is running
    bounded,     \* whether listen has a timeout
    calls        \* calls of the reactor and failures of listen so far

timeVars == <<timer, pnow, it, caller>>
regVars == <<channels, cb, needclean, in, highest, size, revived>>
chanVars == <<mux, regVars>>
loopVars == <<out, fresh, todo, pc, cur, bounded>>
vars == <<mux, now, timeVars, chanVars, loopVars, ready, terminated, calls>>

-----------------------------------------------------------------------------
(* The ordered set.                                                        *)

Pending == {t \in Timers : timer[t].state = "set"}

\* The first of the timers in S, or end().
First(S) ==
    IF S = {} THEN NoTimer
    ELSE CHOOSE t \in S : \A u \in S : timer[t].timeout <= timer[u].timeout

\* timers.insert(t); a timer with an equal timeout keeps it out for good.
Insert(t, tv, timeout, persistent) ==
    timer' = [timer EXCEPT ![t] =
        [state |-> IF \E u \in Pending \ {t} : timer[u].timeout = timeout THEN "lost" ELSE "set",
         tv |-> tv, timeout |-> timeout, persistent |-> persistent]]

Init ==
    /\ mux \in Muxes
    /\ now = 0
    /\ timer = [t \in Timers |-> [state |-> "unset", tv |-> 0, timeout |-> 0, persistent |-> FALSE]]
    /\ pnow = 0 /\ it = NoTimer /\ caller = "loop"
    /\ channels = {} /\ cb = [fd \in Fds |-> {}] /\ needclean = {}
    /\ in = [fd \in Fds |-> {}] /\ highest = 0 /\ size = 192
    /\ revived = {}
    /\ out = [fd \in Fds |-> {}] /\ fresh = TRUE
    /\ todo = {}
    /\ ready = [fd \in Fds |-> {}]
    /\ terminated = FALSE
    /\ pc = "setup" /\ cur = NoTimer /\ bounded = FALSE
    /\ calls = 0

-----------------------------------------------------------------------------
(* select::add, select::remove and poll::remove, beyond what they do to    *)
(* the sets.                                                               *)

MaxSelectFd == 1024

\* select::add fails, and the reactor does not look at what it returns.
Refused(fd) == mux = "select" /\ fd > MaxSelectFd

\* Mutant of Highest: the last descriptor added.
HighestLast(fd) == fd

Highest(fd) == IF highest < fd THEN fd ELSE highest

\* A descriptor is compared with the number of bytes; more are taken by doubling
\* what its bits need.
Sized(fd) ==
    LET need == {((fd + 64) \div 64) * 8 * 2^k : k \in 0 .. 5}
    IN  IF fd <= size - 1 THEN size
        ELSE CHOOSE n \in need : n >= size /\ \A m \in need : m >= size => n <= m

\* resize clears memory behind the blocks, size times sizeof(fd_set) bytes from
\* their start: the program goes on or crashes.
AfterAdd(fd) == IF Sized(fd) = size THEN {pc} ELSE {pc, "wild write"}

\* pollfdMap.at(fd) throws for a descriptor that has no entry any more; select
\* clears a bit behind the block for one that it has refused.
AfterRemove(fd) ==
    IF mux = "poll" /\ in[fd] = {} THEN {"no entry"}
    ELSE IF mux = "select" /\ fd >= 8 * size THEN {pc, "wild write"}
    ELSE {pc}

-----------------------------------------------------------------------------
(* Calls of the reactor, before the loop is started and from callbacks.    *)

UserCode ==
    /\ pc \in {"setup", "timer", "rd", "wr"}
    /\ UNCHANGED <<mux, now, pnow, it, caller, out, fresh, todo, cur, bounded, ready>>

Counted == calls < MaxCalls /\ calls' = calls + 1

SetTimer(t, sec, persistent) ==
    /\ UserCode /\ Counted
    /\ timer[t].state = "unset"
    /\ Insert(t, sec, now + sec, persistent)
    /\ UNCHANGED <<regVars, terminated, pc>>

\* io->add.
Registered(fd, type) == in[fd] \cup {type}

\* set_read_handler, set_write_handler; init_channel.
SetHandler(fd, type) ==
    /\ UserCode
    /\ IF pc = "setup" THEN UNCHANGED calls ELSE Counted
    /\ channels' = channels \cup {fd}
    /\ cb' = [cb EXCEPT ![fd] = @ \cup {type}]
    /\ in' = IF Refused(fd) THEN in ELSE [in EXCEPT ![fd] = Registered(fd, type)]
    /\ IF mux = "select" /\ ~Refused(fd)
       THEN highest' = Highest(fd) /\ size' = Sized(fd) /\ pc' \in AfterAdd(fd)
       ELSE UNCHANGED <<highest, size, pc>>
    /\ revived' = IF fd \in needclean THEN revived \cup {fd} ELSE revived
    /\ UNCHANGED <<timer, needclean, terminated>>

\* Mutant of Unregistered: the descriptor stays registered.
UnregisteredNot(fd, type) == in[fd]

\* io->remove.
Unregistered(fd, type) == in[fd] \ {type}

\* Mutant of Channels: the channel is dropped at once.
ChannelsErased(fd, type) == IF cb[fd] \subseteq {type} THEN channels \ {fd} ELSE channels

\* The channels after a handler was removed: erase waits for the end of the turn.
Channels(fd, type) == channels

\* remove_read_handler, remove_write_handler.
RemoveHandler(fd, type) ==
    /\ UserCode /\ Counted
    /\ fd \in channels
    /\ cb' = [cb EXCEPT ![fd] = @ \ {type}]
    /\ needclean' = IF cb'[fd] = {} THEN needclean \cup {fd} ELSE needclean
    /\ channels' = Channels(fd, type)
    /\ in' = [in EXCEPT ![fd] = Unregistered(fd, type)]
    /\ pc' \in AfterRemove(fd)
    /\ UNCHANGED <<timer, highest, size, revived, terminated>>

SetTerminated ==
    /\ UserCode /\ Counted
    /\ terminated' = TRUE
    /\ UNCHANGED <<timer, regVars, pc>>

Call ==
    \/ \E t \in Timers, sec \in Delays, persistent \in BOOLEAN : SetTimer(t, sec, persistent)
    \/ \E e \in Events[mux] : SetHandler(e[1], e[2]) \/ RemoveHandler(e[1], e[2])
    \/ SetTerminated

-----------------------------------------------------------------------------
(* The loop.                                                               *)

Start ==
    /\ pc = "setup"
    /\ pc' = "top"
    /\ UNCHANGED <<now, timeVars, chanVars, out, fresh, todo, cur, bounded, ready, terminated, calls>>

\* Mutant of HasTimers: the wait is not limited by the timers.
HasTimersNever == FALSE

HasTimers == Pending # {}

\* The loop goes on while there is a channel or a timer; shortest_time calls
\* process before it computes the timeout.
Turn ==
    /\ pc = "top"
    /\ channels # {} \/ Pending # {}
    /\ \/ /\ ~HasTimers
          /\ bounded' = FALSE
          /\ pc' = "listen"
          /\ UNCHANGED timeVars
       \/ /\ HasTimers
          /\ caller' = "shortest_time"
          /\ pnow' = now
          /\ it' = First(Pending)
          /\ pc' = "process"
          /\ UNCHANGED <<timer, bounded>>
    /\ UNCHANGED <<now, chanVars, out, fresh, todo, cur, ready, terminated, calls>>

Finish ==
    /\ pc = "top"
    /\ channels = {} /\ Pending = {}
    /\ pc' = "end"
    /\ UNCHANGED <<now, timeVars, chanVars, out, fresh, todo, cur, bounded, ready, terminated, calls>>

\* Mutant of Due: the timeout is not compared with the clock.
DueAlways(t) == TRUE

Due(t) == timer[t].timeout <= pnow

\* process: the next timer is due; it leaves the set and is called.
Fire ==
    /\ pc = "process"
    /\ it # NoTimer /\ Due(it)
    /\ timer' = [timer EXCEPT ![it].state = "called"]
    /\ it' = First({u \in Pending : timer[u].timeout > timer[it].timeout})
    /\ pc' = "timer" /\ cur' = it
    /\ UNCHANGED <<now, pnow, caller, chanVars, out, fresh, todo, bounded, ready, terminated, calls>>

\* The callback returns: the timer is deleted, or set again.
Fired ==
    /\ pc = "timer"
    /\ pc' = "process" /\ cur' = NoTimer
    /\ \/ /\ timer[cur].persistent
          /\ Insert(cur, timer[cur].tv, pnow + timer[cur].tv, TRUE)
       \/ /\ ~timer[cur].persistent
          /\ timer' = [timer EXCEPT ![cur].state = "deleted"]
    /\ UNCHANGED <<now, pnow, it, caller, chanVars, out, fresh, todo, bounded, ready, terminated, calls>>

\* process returns, to shortest_time or to the loop.
Processed ==
    /\ pc = "process"
    /\ it # NoTimer => ~Due(it)
    /\ \/ /\ caller = "shortest_time"
          /\ bounded' = (Pending # {})
          /\ pc' = "listen"
       \/ /\ caller = "loop"
          /\ pc' = "dispatch"
          /\ UNCHANGED bounded
    /\ pnow' = 0 /\ it' = NoTimer /\ caller' = "loop"
    /\ UNCHANGED <<now, timer, chanVars, out, fresh, todo, cur, ready, terminated, calls>>

\* listen returns with these results, and process is called.
Listened(sets, new) ==
    /\ pc = "listen"
    /\ out' = sets /\ fresh' = new
    /\ todo' = {fd \in Fds : sets[fd] # {}}
    /\ caller' = "loop"
    /\ pnow' = now
    /\ it' = First(Pending)
    /\ bounded' = FALSE
    /\ pc' = "process"
    /\ UNCHANGED <<now, timer, chanVars, cur, ready, terminated>>

\* select looks at descriptors up to the highest.
FoundBySelect(fd) == IF fd <= highest THEN in[fd] \cap ready[fd] ELSE {}

\* For poll a hang-up is reported whatever was asked for, and is both events.
FoundByPoll(fd) ==
    IF in[fd] # {} /\ "hup" \in ready[fd] THEN {"rd", "wr"} ELSE in[fd] \cap ready[fd]

Found == [fd \in Fds |-> IF mux = "select" THEN FoundBySelect(fd) ELSE FoundByPoll(fd)]

Listen ==
    /\ \E fd \in Fds : Found[fd] # {}
    /\ Listened(Found, TRUE)
    /\ UNCHANGED calls

\* The time is over: the sets of select are empty, poll keeps its last result.
ListenTimeout ==
    /\ bounded /\ \A fd \in Fds : Found[fd] = {}
    /\ \/ mux = "select" /\ Listened(Found, TRUE)
       \/ mux = "poll" /\ Listened(out, FALSE)
    /\ UNCHANGED calls

\* A failing select leaves the sets as they were, poll keeps its last result.
ListenError ==
    /\ Counted
    /\ \/ mux = "select" /\ Listened(in, TRUE)
       \/ mux = "poll" /\ Listened(out, FALSE)

\* The first callback of fd among these that was reported.
Callback(fd, types) ==
    LET t == types \cap out[fd] \cap cb[fd]
    IN  IF "rd" \in t THEN "rd" ELSE IF "wr" \in t THEN "wr" ELSE "dispatch"

\* The next active descriptor; without a channel a null pointer is dereferenced.
Take ==
    \E fd \in todo :
        /\ pc = "dispatch"
        /\ \A other \in todo : fd <= other
        /\ todo' = todo \ {fd}
        /\ pc' = IF fd \in channels THEN Callback(fd, {"rd", "wr"}) ELSE "no channel"
        /\ cur' = IF pc' = "dispatch" THEN NoTimer ELSE fd
        /\ UNCHANGED <<now, timeVars, chanVars, out, fresh, bounded, ready, terminated, calls>>

\* The callback returns and has read or written all, or some, there was.
Handled(type) ==
    /\ pc = type
    /\ pc' = IF type = "rd" THEN Callback(cur, {"wr"}) ELSE "dispatch"
    /\ cur' = IF pc' = "wr" THEN cur ELSE NoTimer
    /\ \/ UNCHANGED ready
       \/ "hup" \notin ready[cur] /\ ready' = [ready EXCEPT ![cur] = @ \ {type}]
    /\ UNCHANGED <<now, timeVars, chanVars, out, fresh, todo, bounded, terminated, calls>>

\* The channels in needclean are dropped, with the callbacks they have.
EndTurn ==
    /\ pc = "dispatch" /\ todo = {}
    /\ channels' = channels \ needclean
    /\ cb' = [fd \in Fds |-> IF fd \in needclean THEN {} ELSE cb[fd]]
    /\ needclean' = {}
    /\ out' = IF mux = "poll" THEN out ELSE [fd \in Fds |-> {}]
    /\ fresh' = TRUE
    /\ pc' = IF terminated THEN "end" ELSE "top"
    /\ UNCHANGED <<mux, now, timeVars, in, highest, size, revived, todo, cur, bounded, ready, terminated, calls>>

Loop ==
    \/ Start \/ Turn \/ Finish
    \/ Fire \/ Fired \/ Processed
    \/ Listen \/ ListenTimeout \/ Take \/ EndTurn
    \/ \E type \in {"rd", "wr"} : Handled(type)

-----------------------------------------------------------------------------
(* The environment.                                                        *)

Tick ==
    /\ now < MaxTime
    /\ now' = now + 1
    /\ UNCHANGED <<timeVars, chanVars, loopVars, ready, terminated, calls>>

\* Only listen looks, at what is registered: that something became ready earlier
\* makes no difference.  Once the peer is gone everything stays ready.
BecomeReady(fd, type) ==
    /\ pc = "listen"
    /\ IF type = "hup" THEN mux = "poll" /\ in[fd] # {} ELSE type \in in[fd]
    /\ type \notin ready[fd]
    /\ ready' = [ready EXCEPT ![fd] = IF type = "hup" THEN {"rd", "wr", "hup"} ELSE @ \cup {type}]
    /\ UNCHANGED <<now, timeVars, chanVars, loopVars, terminated, calls>>

Next ==
    \/ Loop
    \/ Call
    \/ ListenError
    \/ Tick
    \/ \E e \in Events[mux] \cup Hangups : BecomeReady(e[1], e[2])

Spec == Init /\ [][Next]_vars

\* The thread runs, callbacks return, and time passes.
FairSpec == Spec /\ WF_vars(Loop) /\ WF_vars(Tick)

-----------------------------------------------------------------------------
(* Properties.                                                             *)

\* The variables have their types, and only channels there are are dropped.
TypeOK ==
    /\ mux \in Muxes
    /\ now \in 0 .. MaxTime /\ pnow \in 0 .. now
    /\ it \in Timers \cup {NoTimer}
    /\ timer \in [Timers -> [state : {"unset", "set", "called", "lost", "deleted"},
                            tv : Nat, timeout : Nat, persistent : BOOLEAN]]
    /\ needclean \subseteq channels /\ channels \subseteq Fds /\ todo \subseteq Fds
    /\ revived \subseteq Fds
    /\ cb \in [Fds -> SUBSET {"rd", "wr"}]
    /\ in \in [Fds -> SUBSET {"rd", "wr"}] /\ out \in [Fds -> SUBSET {"rd", "wr"}]
    /\ highest \in 0 .. MaxSelectFd /\ size \in Nat

\* What the kernel is asked for is what has a callback, and only descriptors
\* with a channel have either: no event is waited for in vain or dropped.  With
\* two exceptions: a descriptor that select has refused has callbacks and is not
\* registered, and one that lost its handlers and was given one in the same turn
\* may stay registered without it.  And the variables have their types.
HandlersMatch ==
    /\ TypeOK
    /\ \A fd \in Fds : /\ cb[fd] # {} => fd \in channels
                       /\ ~Refused(fd) => cb[fd] \subseteq in[fd]
                       /\ fd \notin revived => in[fd] \subseteq cb[fd]

\* The loop never looks up a channel that does not exist, although callbacks of
\* timers and of other descriptors remove handlers after listen has returned;
\* with two exceptions: poll has kept a result of an earlier turn, or the
\* descriptor lost its handlers and was given one in the same turn.
DispatchHasChannel ==
    /\ fresh => todo \subseteq channels \cup revived
    /\ pc = "no channel" => (mux = "poll" /\ ~fresh) \/ cur \in revived
    /\ pc \in {"rd", "wr"} => cur \in channels

\* select looks at every registered descriptor, and its bit is in the block, in
\* whatever order descriptors were added; and the block has not been resized,
\* with its stray memset, as long as all of them were below its size in bytes.
SetsCover ==
    mux = "select" =>
        /\ \A fd \in Fds : in[fd] # {} => fd <= highest /\ fd < 8 * size
        /\ highest < 192 => size = 192

\* A timer is called when it is due and not before, and never before one that
\* is due earlier, whatever callbacks have added to the set in between.
FiresInOrder ==
    [][\A t \in Timers :
          timer[t].state = "set" /\ timer'[t].state = "called" =>
              /\ timer[t].timeout <= now
              /\ \A u \in Pending : timer[t].timeout <= timer[u].timeout]_vars

Stopped == terminated \/ pc \in {"no channel", "no entry", "wild write"}

\* A timer in the set is called in the end, unless the loop is stopped: the loop
\* never waits without limit while there is one.
TimersFire ==
    \A t \in Timers :
        timer[t].state = "set" /\ timer[t].timeout <= MaxTime
            ~> timer[t].state # "set" \/ Stopped

\* A descriptor that is registered and ready has its handler called, or loses
\* it, in the end, however busy the others are.
ReadyIsServed ==
    \A e \in UNION {Events[m] : m \in Muxes} :
        e[2] \in ready[e[1]] \cap in[e[1]] \cap cb[e[1]]
            ~> e[2] \notin cb[e[1]] \/ Stopped \/ (pc = e[2] /\ cur = e[1])

=============================================================================
