---------------------------- MODULE ReactorProofs ----------------------------
(***************************************************************************)
(* Proofs about Reactor for every set of descriptors, watched events and   *)
(* timers, every delay and any number of calls from callbacks.             *)
(***************************************************************************)
EXTENDS Reactor, FiniteSetTheorems, WellFoundedInduction, TLAPS

-----------------------------------------------------------------------------
(* The invariant.                                                          *)

\* What is registered is what has a callback, as HandlersMatch says, and channels
\* that wait to be dropped have none left unless one was set again.
Registers ==
    /\ \A fd \in Fds : /\ cb[fd] # {} => fd \in channels
                       /\ ~Refused(fd) => cb[fd] \subseteq in[fd]
                       /\ fd \notin revived => in[fd] \subseteq cb[fd]
    /\ \A fd \in needclean : cb[fd] # {} => fd \in revived

\* Only poll keeps a result of an earlier turn.
Dispatches ==
    /\ DispatchHasChannel
    /\ fresh \in BOOLEAN
    /\ ~fresh => mux = "poll"

\* No two timers in the set have the same timeout.
TimeoutsDiffer ==
    \A t, u \in Pending : timer[t].timeout = timer[u].timeout => t = u

\* Timers in the set before the one process comes to next were added since it
\* has read the clock.
NextInOrder ==
    it # NoTimer =>
        /\ it \in Pending
        /\ \A u \in Pending : timer[u].timeout < timer[it].timeout => timer[u].timeout >= pnow

\* The timer whose callback runs is out of the set.
CalledIsOut == pc = "timer" => cur \in Timers /\ timer[cur].state = "called"

InTime == TimeoutsDiffer /\ NextInOrder /\ CalledIsOut

IInv == TypeOK /\ Registers /\ SetsCover /\ Dispatches /\ InTime

-----------------------------------------------------------------------------
(* What the definitions of Reactor compute.                                *)

\* A nonempty set of numbers has a least element: the numbers below each of its
\* elements are finite sets, and inclusion of finite sets is well-founded.
LEMMA LeastNumber ==
    ASSUME NEW T \in SUBSET Nat, T # {}
    PROVE  \E m \in T : \A n \in T : m <= n
  <1> DEFINE R == StrictSubsetOrdering(Nat)
             S == FiniteSubsetsOf(Nat)
             below == {0 .. n - 1 : n \in T}
  <1>1. IsWellFoundedOn(R, S)
    BY FS_StrictSubsetOrderingWellFounded
  <1>2. below \subseteq S /\ below # {}
    <2>1. ASSUME NEW n \in T
          PROVE  0 .. n - 1 \in S
      BY FS_Interval DEF FiniteSubsetsOf
    <2> QED BY <2>1
  <1>3. \E x \in below : \A y \in below : ~(<<y, x>> \in R)
    <2> HIDE DEF R, S, below
    <2> QED BY <1>1, <1>2, WFMin
  <1>4. PICK m \in T : \A n \in T : ~(<<0 .. n - 1, 0 .. m - 1>> \in R)
    BY <1>3
  <1>5. ASSUME NEW n \in T, ~(m <= n)
        PROVE  FALSE
    <2>1. /\ 0 .. n - 1 \in SUBSET Nat /\ 0 .. m - 1 \in SUBSET Nat
          /\ 0 .. n - 1 \subseteq 0 .. m - 1 /\ n \in 0 .. m - 1 /\ n \notin 0 .. n - 1
      BY <1>5
    <2> QED BY <1>4, <2>1 DEF StrictSubsetOrdering
  <1> QED BY <1>5

\* begin() of the ordered set is a timer no other is due before.
LEMMA FirstProperties ==
    ASSUME TypeOK, NEW S \in SUBSET Timers
    PROVE  /\ First(S) \in S \cup {NoTimer}
           /\ First(S) = NoTimer <=> S = {}
           /\ \A u \in S : timer[First(S)].timeout <= timer[u].timeout
  <1>1. CASE S = {}
    BY <1>1, TimersAssumption DEF First
  <1>2. CASE S # {}
    <2> DEFINE timeouts == {timer[t].timeout : t \in S}
    <2>1. timeouts \in SUBSET Nat /\ timeouts # {}
      BY <1>2 DEF TypeOK
    <2>2. \E m \in timeouts : \A n \in timeouts : m <= n
      <3> HIDE DEF timeouts
      <3> QED BY <2>1, LeastNumber
    <2>3. \E t \in S : \A u \in S : timer[t].timeout <= timer[u].timeout
      BY <2>2
    <2>4. First(S) \in S /\ \A u \in S : timer[First(S)].timeout <= timer[u].timeout
      BY <1>2, <2>3 DEF First
    <2> QED BY <1>2, <2>4, TimersAssumption
  <1> QED BY <1>1, <1>2

\* After select::add the block holds the descriptor's bit, and it has not been
\* touched if the descriptor is below its size in bytes.
LEMMA SizedProperties ==
    ASSUME NEW fd \in Fds, size \in Nat
    PROVE  /\ Sized(fd) \in Nat /\ size <= Sized(fd) /\ fd < 8 * Sized(fd)
           /\ fd < size => Sized(fd) = size
  <1> DEFINE block == ((fd + 64) \div 64) * 8
             need == {block * 2^k : k \in 0 .. 5}
  <1>1. CASE fd <= size - 1
    BY <1>1, FdsAssumption DEF Sized
  <1>2. CASE ~(fd <= size - 1)
    <2>1. block \in Nat /\ 8 * block > fd /\ block * 32 >= size
      BY <1>2, FdsAssumption
    <2>2. need = {block * k : k \in {1, 2, 4, 8, 16, 32}}
      <3>1. 2^0 = 1 /\ 2^1 = 2 /\ 2^2 = 4 /\ 2^3 = 8 /\ 2^4 = 16 /\ 2^5 = 32
        OBVIOUS
      <3>2. 0 .. 5 = {0, 1, 2, 3, 4, 5}
        OBVIOUS
      <3> HIDE DEF block
      <3> QED BY <3>1, <3>2
    <2> HIDE DEF block
    <2>3. \E n \in need : n >= size /\ \A m \in need : m >= size => n <= m
      <3> DEFINE times == {block * k : k \in {1, 2, 4, 8, 16, 32}}
      <3>1. \E n \in times : n >= size /\ \A m \in times : m >= size => n <= m
        BY <2>1
      <3> QED BY <2>2, <3>1
    <2>4. Sized(fd) = CHOOSE n \in need : n >= size /\ \A m \in need : m >= size => n <= m
      BY <1>2 DEF Sized, block
    <2>5. Sized(fd) \in need /\ Sized(fd) >= size
      BY <2>3, <2>4
    <2>6. PICK k \in {1, 2, 4, 8, 16, 32} : Sized(fd) = block * k
      BY <2>2, <2>5
    <2>7. Sized(fd) \in Nat /\ Sized(fd) >= block
      BY <2>1, <2>6
    <2> QED BY <1>2, <2>1, <2>5, <2>7, FdsAssumption
  <1> QED BY <1>1, <1>2

\* A larger block holds what a smaller one does.
LEMMA MoreBits ==
    ASSUME NEW a \in Nat, NEW b \in Nat, a <= b, NEW bit \in Nat, bit < 8 * a
    PROVE  bit < 8 * b
  <1>1. 8 * a \in Nat /\ 8 * b \in Nat /\ 8 * a <= 8 * b
    BY a \in Nat, b \in Nat, a <= b
  <1> QED BY <1>1

-----------------------------------------------------------------------------
(* Steps that leave a part of the state alone.                             *)

\* No handler and no registration has changed.
LEMMA SameRegisters ==
    ASSUME Registers, SetsCover, UNCHANGED chanVars
    PROVE  Registers' /\ SetsCover'
  BY DEF Registers, Refused, SetsCover, chanVars, regVars

\* Nothing to dispatch has changed.
LEMMA SameDispatch ==
    ASSUME Dispatches, UNCHANGED <<mux, channels, revived, todo, fresh>>,
           pc' \notin {"no channel", "rd", "wr"} \/ UNCHANGED <<pc, cur>>
    PROVE  Dispatches'
  BY DEF Dispatches, DispatchHasChannel

\* No timer and no iterator has changed.
LEMMA SameTimers ==
    ASSUME InTime, UNCHANGED <<timer, it, pnow>>,
           pc' = "timer" => pc = "timer" /\ cur' = cur
    PROVE  InTime'
  BY DEF InTime, TimeoutsDiffer, NextInOrder, CalledIsOut, Pending

-----------------------------------------------------------------------------
(* The invariant holds initially, and every action preserves it.           *)

\* There are no handlers and no timers at the start.
LEMMA InitIInv == Init => IInv
  <1> SUFFICES ASSUME Init
               PROVE  IInv
    OBVIOUS
  <1>1. TypeOK
    BY BoundsAssumption DEF Init, TypeOK, MaxSelectFd
  <1>2. Registers /\ SetsCover
    BY FdsAssumption DEF Init, Registers, SetsCover
  <1>3. Dispatches
    BY DEF Init, Dispatches, DispatchHasChannel
  <1>4. InTime
    BY DEF Init, InTime, TimeoutsDiffer, NextInOrder, CalledIsOut, Pending
  <1> QED BY <1>1, <1>2, <1>3, <1>4 DEF IInv

\* A timer put into the set, by set_timer or again by process, is not due before
\* the one process comes to next unless it is due after the clock process read.
LEMMA InsertStep ==
    ASSUME TypeOK, TimeoutsDiffer, NextInOrder,
           NEW t \in Timers, timer[t].state # "set",
           NEW tv \in Nat, NEW timeout \in Nat, pnow <= timeout, NEW persistent \in BOOLEAN,
           Insert(t, tv, timeout, persistent), UNCHANGED <<it, pnow>>
    PROVE  /\ timer' \in [Timers -> [state : {"unset", "set", "called", "lost", "deleted"},
                                     tv : Nat, timeout : Nat, persistent : BOOLEAN]]
           /\ \A u \in Timers \ {t} : timer'[u] = timer[u]
           /\ TimeoutsDiffer' /\ NextInOrder'
  <1> DEFINE st == IF \E u \in Pending \ {t} : timer[u].timeout = timeout THEN "lost" ELSE "set"
             new == [state |-> st, tv |-> tv, timeout |-> timeout, persistent |-> persistent]
  <1>1. timer' = [timer EXCEPT ![t] = new]
    BY DEF Insert
  <1>2. st \in {"lost", "set"} /\ (st = "set" => \A u \in Pending \ {t} : timer[u].timeout # timeout)
    OBVIOUS
  <1> HIDE DEF st
  <1>3. /\ timer' \in [Timers -> [state : {"unset", "set", "called", "lost", "deleted"},
                                  tv : Nat, timeout : Nat, persistent : BOOLEAN]]
        /\ timer'[t].state = st /\ timer'[t].timeout = timeout
        /\ \A u \in Timers \ {t} : timer'[u] = timer[u]
    BY <1>1, <1>2 DEF TypeOK
  <1> HIDE DEF new
  <1>4. Pending' = IF st = "set" THEN Pending \cup {t} ELSE Pending
    BY <1>3 DEF Pending
  <1>5. Pending \subseteq Timers \ {t}
    BY DEF Pending
  <1>6. TimeoutsDiffer'
    BY <1>2, <1>3, <1>4, <1>5 DEF TimeoutsDiffer
  <1>7. NextInOrder'
    BY <1>3, <1>4, <1>5 DEF NextInOrder
  <1> QED BY <1>3, <1>6, <1>7

\* set_timer, also behind or before the iterator of process.
LEMMA SetTimerStep ==
    ASSUME IInv, NEW t \in Timers, NEW sec \in Delays, NEW persistent \in BOOLEAN,
           SetTimer(t, sec, persistent)
    PROVE  IInv'
  <1>1. /\ TypeOK /\ InTime /\ timer[t].state = "unset"
        /\ Insert(t, sec, now + sec, persistent)
        /\ UNCHANGED <<mux, now, pnow, it, out, fresh, todo, cur, regVars, pc>>
    BY DEF IInv, SetTimer, UserCode
  <1>2. sec \in Nat /\ now + sec \in Nat /\ pnow <= now + sec
    BY <1>1, TimersAssumption, BoundsAssumption DEF TypeOK
  <1>3. /\ timer' \in [Timers -> [state : {"unset", "set", "called", "lost", "deleted"},
                                  tv : Nat, timeout : Nat, persistent : BOOLEAN]]
        /\ \A u \in Timers \ {t} : timer'[u] = timer[u]
        /\ TimeoutsDiffer' /\ NextInOrder'
    BY <1>1, <1>2, InsertStep DEF InTime
  <1>4. TypeOK'
    BY <1>1, <1>3 DEF TypeOK, regVars
  <1>5. CalledIsOut'
    BY <1>1, <1>3 DEF InTime, CalledIsOut
  <1>6. Registers' /\ SetsCover' /\ Dispatches'
    BY <1>1, SameRegisters, SameDispatch DEF IInv, chanVars, regVars
  <1> QED BY <1>3, <1>4, <1>5, <1>6 DEF IInv, InTime

\* set_read_handler and set_write_handler.
LEMMA SetHandlerStep ==
    ASSUME IInv, NEW fd \in Fds, NEW type \in {"rd", "wr"}, SetHandler(fd, type)
    PROVE  IInv'
  <1>1. /\ TypeOK /\ UNCHANGED <<mux, now, pnow, it, timer, needclean, out, fresh, todo, cur>>
        /\ channels' = channels \cup {fd}
        /\ cb' = [cb EXCEPT ![fd] = @ \cup {type}]
        /\ revived' = IF fd \in needclean THEN revived \cup {fd} ELSE revived
        /\ pc \in {"setup", "timer", "rd", "wr"} /\ pc' \in {pc, "wild write"}
    BY DEF IInv, SetHandler, UserCode, AfterAdd
  <1>2. /\ in' = IF Refused(fd) THEN in ELSE [in EXCEPT ![fd] = @ \cup {type}]
        /\ IF mux = "select" /\ ~Refused(fd) THEN highest' = Highest(fd) /\ size' = Sized(fd)
           ELSE UNCHANGED <<highest, size>>
    BY DEF SetHandler, Registered
  <1>3. /\ Sized(fd) \in Nat /\ size <= Sized(fd) /\ fd < 8 * Sized(fd)
        /\ fd < size => Sized(fd) = size
    BY <1>1, SizedProperties DEF TypeOK
  <1>4. fd \in Nat /\ highest \in 0 .. 1024 /\ size \in Nat /\ highest' \in 0 .. 1024 /\ size' \in Nat
    <2>1. fd \in Nat /\ highest \in 0 .. 1024 /\ size \in Nat
      BY <1>1, FdsAssumption DEF TypeOK, MaxSelectFd
    <2>2. CASE mux = "select" /\ ~Refused(fd)
      <3>1. fd \in 0 .. 1024
        BY <2>1, <2>2 DEF Refused, MaxSelectFd
      <3>2. Highest(fd) \in 0 .. 1024
        BY <2>1, <3>1 DEF Highest
      <3> QED BY <1>2, <1>3, <2>1, <2>2, <3>2
    <2>3. CASE ~(mux = "select" /\ ~Refused(fd))
      BY <1>2, <2>1, <2>3
    <2> QED BY <2>2, <2>3
  <1>5. /\ cb' \in [Fds -> SUBSET {"rd", "wr"}] /\ in' \in [Fds -> SUBSET {"rd", "wr"}]
        /\ \A other \in Fds \ {fd} : in'[other] = in[other] /\ cb'[other] = cb[other]
        /\ in'[fd] = (IF Refused(fd) THEN in[fd] ELSE in[fd] \cup {type})
        /\ cb'[fd] = cb[fd] \cup {type}
    <2>1. in \in [Fds -> SUBSET {"rd", "wr"}] /\ cb \in [Fds -> SUBSET {"rd", "wr"}]
      BY <1>1 DEF TypeOK
    <2>2. in[fd] \cup {type} \in SUBSET {"rd", "wr"} /\ cb[fd] \cup {type} \in SUBSET {"rd", "wr"}
      BY <2>1
    <2> QED BY <1>1, <1>2, <2>1, <2>2
  <1>6. TypeOK'
    <2>1. needclean' \subseteq channels' /\ channels' \subseteq Fds /\ revived' \subseteq Fds
      BY <1>1 DEF TypeOK
    <2>2. UNCHANGED <<mux, now, pnow, it, timer, out, todo>> /\ TypeOK
      BY <1>1
    <2>3. highest' \in 0 .. MaxSelectFd /\ size' \in Nat
      BY <1>4 DEF MaxSelectFd
    <2>4. cb' \in [Fds -> SUBSET {"rd", "wr"}] /\ in' \in [Fds -> SUBSET {"rd", "wr"}]
      BY <1>5
    <2> QED BY ONLY <2>1, <2>2, <2>3, <2>4 DEF TypeOK
  <1>7. Registers'
    <2>1. revived \subseteq revived' /\ \A other : Refused(other)' <=> Refused(other)
      BY <1>1 DEF Refused
    <2>2. ASSUME NEW other \in Fds
          PROVE  /\ cb'[other] # {} => other \in channels'
                 /\ ~Refused(other)' => cb'[other] \subseteq in'[other]
                 /\ other \notin revived' => in'[other] \subseteq cb'[other]
      <3>1. /\ cb[other] # {} => other \in channels
            /\ ~Refused(other) => cb[other] \subseteq in[other]
            /\ other \notin revived => in[other] \subseteq cb[other]
        BY DEF IInv, Registers
      <3>2. channels' = channels \cup {fd}
        BY <1>1
      <3>3. CASE other = fd
        BY ONLY <1>5, <2>1, <3>1, <3>2, <3>3
      <3>4. CASE other # fd
        <4>1. in'[other] = in[other] /\ cb'[other] = cb[other]
          BY <1>5, <3>4
        <4> QED BY ONLY <2>1, <3>1, <3>2, <4>1
      <3> QED BY <3>3, <3>4
    <2>3. ASSUME NEW other \in needclean', cb'[other] # {}
          PROVE  other \in revived'
      <3>1. other \in needclean /\ other \in Fds
        BY <1>1, <2>3 DEF TypeOK
      <3>2. CASE other = fd
        BY <1>1, <3>1, <3>2
      <3>3. CASE other # fd
        BY <1>5, <2>1, <2>3, <3>1, <3>3 DEF IInv, Registers
      <3> QED BY <3>2, <3>3
    <2> QED BY <2>2, <2>3 DEF Registers
  <1>8. SetsCover'
    <2> SUFFICES ASSUME mux = "select"
                 PROVE  /\ \A other \in Fds : in'[other] # {} => other <= highest' /\ other < 8 * size'
                        /\ highest' < 192 => size' = 192
      BY <1>1 DEF SetsCover
    <2>1. /\ \A other \in Fds : in[other] # {} => other <= highest /\ other < 8 * size
          /\ highest < 192 => size = 192
      BY DEF IInv, SetsCover
    <2>2. CASE Refused(fd)
      BY <1>2, <2>1, <2>2
    <2>3. CASE ~Refused(fd)
      <3>1. highest <= highest' /\ fd <= highest' /\ size <= size' /\ fd < 8 * size' /\ (fd < size => size' = size)
        <4>1. highest' = (IF highest < fd THEN fd ELSE highest) /\ size' = Sized(fd)
          BY <1>2, <2>3 DEF Highest
        <4>2. highest <= highest' /\ fd <= highest'
          BY <1>4, <4>1
        <4> QED BY <1>3, <4>1, <4>2
      <3>2. ASSUME NEW other \in Fds, in'[other] # {}
            PROVE  other <= highest' /\ other < 8 * size'
        <4>1. CASE other = fd
          BY <3>1, <4>1
        <4>2. CASE other # fd
          <5>1. other <= highest /\ other < 8 * size /\ other \in Nat
            BY <1>5, <2>1, <3>2, <4>2, FdsAssumption
          <5>2. highest \in Nat /\ highest' \in Nat
            BY ONLY <1>4
          <5>3. other <= highest'
            BY ONLY <3>1, <5>1, <5>2
          <5>4. other < 8 * size'
            BY ONLY <1>4, <3>1, <5>1, MoreBits
          <5> QED BY <5>3, <5>4
        <4> QED BY <4>1, <4>2
      <3>3. highest' < 192 => size' = 192
        BY <1>4, <2>1, <3>1
      <3> QED BY <3>2, <3>3
    <2> QED BY <2>2, <2>3
  <1>9. Dispatches'
    BY <1>1 DEF IInv, Dispatches, DispatchHasChannel
  <1>10. InTime'
    BY <1>1, SameTimers DEF IInv
  <1> QED BY <1>6, <1>7, <1>8, <1>9, <1>10 DEF IInv

\* A handler is removed, maybe while its descriptor is to be dispatched.
LEMMA RemoveHandlerStep ==
    ASSUME IInv, NEW fd \in Fds, NEW type \in {"rd", "wr"}, RemoveHandler(fd, type)
    PROVE  IInv'
  <1>1. /\ TypeOK /\ fd \in channels
        /\ cb' = [cb EXCEPT ![fd] = @ \ {type}]
        /\ needclean' = IF cb'[fd] = {} THEN needclean \cup {fd} ELSE needclean
        /\ in' = [in EXCEPT ![fd] = @ \ {type}]
        /\ pc' \in {pc, "no entry", "wild write"}
        /\ UNCHANGED <<mux, now, pnow, it, timer, channels, highest, size, revived, out, fresh, todo, cur>>
    BY DEF IInv, RemoveHandler, UserCode, Channels, Unregistered, AfterRemove
  <1>2. /\ cb' \in [Fds -> SUBSET {"rd", "wr"}] /\ in' \in [Fds -> SUBSET {"rd", "wr"}]
        /\ \A other \in Fds \ {fd} : in'[other] = in[other] /\ cb'[other] = cb[other]
        /\ in'[fd] = in[fd] \ {type} /\ cb'[fd] = cb[fd] \ {type}
    <2>1. cb \in [Fds -> SUBSET {"rd", "wr"}] /\ in \in [Fds -> SUBSET {"rd", "wr"}]
      BY <1>1 DEF TypeOK
    <2>2. cb' = [cb EXCEPT ![fd] = @ \ {type}] /\ in' = [in EXCEPT ![fd] = @ \ {type}]
      BY <1>1
    <2> QED BY ONLY fd \in Fds, <2>1, <2>2
  <1>3. TypeOK'
    <2>1. needclean' \subseteq channels
      BY <1>1 DEF TypeOK
    <2>2. UNCHANGED <<mux, now, pnow, it, timer, channels, highest, size, revived, out, todo>>
      BY <1>1
    <2>3. cb' \in [Fds -> SUBSET {"rd", "wr"}] /\ in' \in [Fds -> SUBSET {"rd", "wr"}] /\ TypeOK
      BY <1>1, <1>2
    <2> QED BY ONLY <2>1, <2>2, <2>3 DEF TypeOK
  <1>4. Registers'
    <2>1. \A other : Refused(other)' <=> Refused(other)
      BY <1>1 DEF Refused
    <2>2. ASSUME NEW other \in Fds
          PROVE  /\ cb'[other] # {} => other \in channels'
                 /\ ~Refused(other)' => cb'[other] \subseteq in'[other]
                 /\ other \notin revived' => in'[other] \subseteq cb'[other]
      BY <1>1, <1>2, <2>1 DEF IInv, Registers
    <2>3. \A other \in needclean' : cb'[other] # {} => other \in revived'
      <3>1. SUFFICES ASSUME NEW other \in needclean', cb'[other] # {}
                     PROVE  other \in revived'
        OBVIOUS
      <3>2. other \in Fds /\ needclean \subseteq Fds /\ other \in needclean
        BY <1>1, <3>1 DEF TypeOK
      <3>3. cb[other] # {}
        BY <1>2, <3>1, <3>2
      <3>4. \A c \in needclean : cb[c] # {} => c \in revived
        BY DEF IInv, Registers
      <3> QED BY <1>1, <3>2, <3>3, <3>4
    <2> QED BY <2>2, <2>3 DEF Registers
  <1>5. SetsCover'
    <2>1. \A other \in Fds : in'[other] # {} => in[other] # {}
      BY <1>2
    <2>2. UNCHANGED <<mux, highest, size>>
      BY <1>1
    <2> QED BY <2>1, <2>2 DEF IInv, SetsCover
  <1>6. Dispatches'
    BY <1>1 DEF IInv, Dispatches, DispatchHasChannel
  <1>7. InTime'
    BY <1>1, SameTimers DEF IInv
  <1> QED BY <1>3, <1>4, <1>5, <1>6, <1>7 DEF IInv

\* The loop is told to end.
LEMMA SetTerminatedStep ==
    ASSUME IInv, SetTerminated
    PROVE  IInv'
  <1>1. UNCHANGED <<mux, now, pnow, it, timer, regVars, out, fresh, todo, cur, pc>>
    BY DEF SetTerminated, UserCode
  <1>2. TypeOK'
    BY <1>1 DEF IInv, TypeOK, regVars
  <1>3. Registers' /\ SetsCover' /\ Dispatches' /\ InTime'
    BY <1>1, SameRegisters, SameDispatch, SameTimers DEF IInv, chanVars, regVars
  <1> QED BY <1>2, <1>3 DEF IInv

\* The local i of process at the beginning of the set: no timer is before it.
LEMMA FirstInOrder ==
    ASSUME IInv, it' = First(Pending), UNCHANGED timer
    PROVE  it' \in Timers \cup {NoTimer} /\ TimeoutsDiffer' /\ NextInOrder'
  <1>1. TypeOK /\ Pending \in SUBSET Timers /\ Pending' = Pending
    BY DEF IInv, Pending
  <1>2. /\ it' \in Pending \cup {NoTimer}
        /\ \A u \in Pending : timer[it'].timeout <= timer[u].timeout
    BY <1>1, FirstProperties
  <1>3. TimeoutsDiffer'
    BY <1>1 DEF IInv, InTime, TimeoutsDiffer
  <1>4. NextInOrder'
    <2> SUFFICES ASSUME it' # NoTimer, NEW u \in Pending, timer[u].timeout < timer[it'].timeout
                 PROVE  FALSE
      BY <1>1, <1>2 DEF NextInOrder
    <2>1. timer[it'].timeout \in Nat /\ timer[u].timeout \in Nat
      BY <1>1, <1>2 DEF TypeOK
    <2> QED BY <1>2, <2>1
  <1> QED BY <1>1, <1>2, <1>3, <1>4

\* The loop starts, begins a turn or ends.
LEMMA TurnStep ==
    ASSUME IInv, Start \/ Turn \/ Finish
    PROVE  IInv'
  <1>1. CASE Start \/ Finish
    <2>1. UNCHANGED <<now, pnow, it, timer, chanVars, out, fresh, todo, cur>> /\ pc' \in {"top", "end"}
      BY <1>1 DEF Start, Finish, timeVars
    <2>2. TypeOK'
      BY <2>1 DEF IInv, TypeOK, chanVars, regVars
    <2>3. Registers' /\ SetsCover' /\ Dispatches' /\ InTime'
      BY <2>1, SameRegisters, SameDispatch, SameTimers DEF IInv, chanVars, regVars
    <2> QED BY <2>2, <2>3 DEF IInv
  <1>2. CASE Turn
    <2>1. UNCHANGED <<now, chanVars, timer, out, fresh, todo, cur>> /\ pc' \in {"listen", "process"}
      BY <1>2 DEF Turn, timeVars
    <2>2. Registers' /\ SetsCover' /\ Dispatches'
      BY <2>1, SameRegisters, SameDispatch DEF IInv, chanVars, regVars
    <2>3. CASE UNCHANGED <<it, pnow>>
      <3>1. TypeOK'
        BY <2>1, <2>3 DEF IInv, TypeOK, chanVars, regVars
      <3>2. InTime'
        BY <2>1, <2>3, SameTimers DEF IInv
      <3> QED BY <2>2, <3>1, <3>2 DEF IInv
    <2>4. CASE it' = First(Pending) /\ pnow' = now
      <3>1. it' \in Timers \cup {NoTimer} /\ TimeoutsDiffer' /\ NextInOrder'
        BY <2>1, <2>4, FirstInOrder
      <3>2. TypeOK'
        BY <2>1, <2>4, <3>1 DEF IInv, TypeOK, chanVars, regVars
      <3>3. CalledIsOut'
        BY <2>1 DEF CalledIsOut
      <3> QED BY <2>2, <3>1, <3>2, <3>3 DEF IInv, InTime
    <2> QED BY <1>2, <2>3, <2>4 DEF Turn, timeVars
  <1> QED BY <1>1, <1>2

\* The timer that is called has the least timeout in the set, so that the next
\* one found is again the first of those that are left.
LEMMA FireStep ==
    ASSUME IInv, Fire
    PROVE  IInv'
  <1>1. /\ TypeOK /\ InTime /\ it # NoTimer /\ Due(it)
        /\ timer' = [timer EXCEPT ![it].state = "called"]
        /\ it' = First({u \in Pending : timer[u].timeout > timer[it].timeout})
        /\ pc' = "timer" /\ cur' = it
        /\ UNCHANGED <<now, pnow, chanVars, out, fresh, todo>>
    BY DEF IInv, Fire
  <1>2. it \in Timers /\ it \in Pending /\ pnow \in Nat
    BY <1>1, BoundsAssumption DEF TypeOK, InTime, NextInOrder
  <1>3. /\ timer' \in [Timers -> [state : {"unset", "set", "called", "lost", "deleted"},
                                  tv : Nat, timeout : Nat, persistent : BOOLEAN]]
        /\ timer'[it].state = "called"
        /\ \A u \in Timers \ {it} : timer'[u] = timer[u]
    BY <1>1, <1>2 DEF TypeOK
  <1>4. Pending' = Pending \ {it}
    BY <1>2, <1>3 DEF Pending
  <1>5. \A u \in Timers : timer[u].timeout \in Nat
    BY <1>1 DEF TypeOK
  <1>6. \A u \in Pending : timer[it].timeout <= timer[u].timeout
    <2> SUFFICES ASSUME NEW u \in Pending, timer[u].timeout < timer[it].timeout
                 PROVE  FALSE
      BY <1>2, <1>5 DEF Pending
    <2>1. u \in Timers /\ timer[u].timeout >= pnow /\ timer[it].timeout <= pnow
      BY <1>1 DEF InTime, NextInOrder, Due, Pending
    <2> QED BY <1>2, <1>5, <2>1
  <1> DEFINE later == {u \in Pending : timer[u].timeout > timer[it].timeout}
  <1>7. /\ it' \in later \cup {NoTimer}
        /\ \A u \in later : timer[it'].timeout <= timer[u].timeout
    <2>1. later \in SUBSET Timers /\ it' = First(later)
      BY <1>1 DEF Pending
    <2>2. TypeOK
      BY <1>1
    <2> HIDE DEF later
    <2>3. /\ First(later) \in later \cup {NoTimer}
          /\ \A u \in later : timer[First(later)].timeout <= timer[u].timeout
      BY ONLY <2>1, <2>2, FirstProperties
    <2> QED BY <2>1, <2>3
  <1>8. \A u \in Pending \ {it} : u \in later
    <2> TAKE u \in Pending \ {it}
    <2>1. u \in Timers /\ timer[u].timeout # timer[it].timeout
      BY <1>1, <1>2 DEF InTime, TimeoutsDiffer, Pending
    <2> QED BY <1>2, <1>5, <1>6, <2>1
  <1>9. NextInOrder'
    <2> SUFFICES ASSUME it' # NoTimer
                 PROVE  /\ it' \in Pending'
                        /\ \A u \in Pending' : timer'[u].timeout < timer'[it'].timeout => timer'[u].timeout >= pnow'
      BY DEF NextInOrder
    <2>1. it' \in Pending \ {it} /\ it' \in Timers /\ timer'[it'] = timer[it']
      BY <1>3, <1>5, <1>7 DEF Pending
    <2>2. ASSUME NEW u \in Pending'
          PROVE  ~(timer'[u].timeout < timer'[it'].timeout)
      <3>1. u \in later /\ u \in Timers /\ timer'[u] = timer[u]
        BY <1>3, <1>4, <1>8 DEF Pending
      <3>2. timer[it'].timeout <= timer[u].timeout
        BY <1>7, <3>1
      <3> QED BY <1>5, <2>1, <3>1, <3>2
    <2>3. it' \in Pending'
      BY <1>4, <2>1
    <2> QED BY <2>2, <2>3
  <1> HIDE DEF later
  <1>10. TimeoutsDiffer'
    BY <1>1, <1>3, <1>4 DEF InTime, TimeoutsDiffer, Pending
  <1>11. CalledIsOut'
    BY <1>1, <1>2, <1>3 DEF CalledIsOut
  <1>12. TypeOK'
    <2>1. it' \in Timers \cup {NoTimer}
      BY <1>7 DEF later, Pending
    <2> QED BY <1>1, <1>3, <2>1 DEF TypeOK, chanVars, regVars
  <1>13. Registers' /\ SetsCover' /\ Dispatches'
    BY <1>1, SameRegisters, SameDispatch DEF IInv, chanVars, regVars
  <1> QED BY <1>9, <1>10, <1>11, <1>12, <1>13 DEF IInv, InTime

\* The callback of a timer returns.
LEMMA FiredStep ==
    ASSUME IInv, Fired
    PROVE  IInv'
  <1>1. /\ TypeOK /\ InTime /\ pc = "timer" /\ pc' = "process"
        /\ UNCHANGED <<now, pnow, it, chanVars, out, fresh, todo>>
    BY DEF IInv, Fired
  <1>2. cur \in Timers /\ timer[cur].state = "called"
    BY <1>1 DEF InTime, CalledIsOut
  <1>3. /\ timer' \in [Timers -> [state : {"unset", "set", "called", "lost", "deleted"},
                                  tv : Nat, timeout : Nat, persistent : BOOLEAN]]
        /\ TimeoutsDiffer' /\ NextInOrder'
    <2>1. CASE Insert(cur, timer[cur].tv, pnow + timer[cur].tv, TRUE)
      <3>1. timer[cur].tv \in Nat /\ pnow + timer[cur].tv \in Nat /\ pnow <= pnow + timer[cur].tv
        BY <1>1, <1>2, BoundsAssumption DEF TypeOK
      <3>2. timer[cur].state # "set"
        BY <1>2
      <3> QED BY <1>1, <1>2, <2>1, <3>1, <3>2, InsertStep DEF InTime
    <2>2. CASE timer' = [timer EXCEPT ![cur].state = "deleted"]
      <3>1. /\ timer' \in [Timers -> [state : {"unset", "set", "called", "lost", "deleted"},
                                      tv : Nat, timeout : Nat, persistent : BOOLEAN]]
            /\ timer'[cur].state = "deleted"
            /\ \A u \in Timers \ {cur} : timer'[u] = timer[u]
        BY <1>1, <1>2, <2>2 DEF TypeOK
      <3>2. Pending' = Pending /\ \A u \in Pending : timer'[u] = timer[u]
        BY <1>2, <3>1 DEF Pending
      <3> QED BY <1>1, <3>1, <3>2 DEF InTime, TimeoutsDiffer, NextInOrder
    <2> QED BY <2>1, <2>2 DEF Fired
  <1>4. TypeOK' /\ CalledIsOut'
    BY <1>1, <1>3 DEF TypeOK, CalledIsOut, chanVars, regVars
  <1>5. Registers' /\ SetsCover' /\ Dispatches'
    BY <1>1, SameRegisters, SameDispatch DEF IInv, chanVars, regVars
  <1> QED BY <1>3, <1>4, <1>5 DEF IInv, InTime

\* process has come to the end of what is due.
LEMMA ProcessedStep ==
    ASSUME IInv, Processed
    PROVE  IInv'
  <1>1. /\ pc' \in {"listen", "dispatch"} /\ pnow' = 0 /\ it' = NoTimer
        /\ UNCHANGED <<now, timer, chanVars, out, fresh, todo, cur>>
    BY DEF Processed
  <1>2. TypeOK'
    BY <1>1, BoundsAssumption DEF IInv, TypeOK, chanVars, regVars
  <1>3. Registers' /\ SetsCover' /\ Dispatches'
    BY <1>1, SameRegisters, SameDispatch DEF IInv, chanVars, regVars
  <1>4. InTime'
    BY <1>1 DEF IInv, InTime, TimeoutsDiffer, NextInOrder, CalledIsOut, Pending
  <1> QED BY <1>2, <1>3, <1>4 DEF IInv

\* listen returns.  A result of this turn has registered descriptors only.
LEMMA ListenedStep ==
    ASSUME IInv, NEW sets \in [Fds -> SUBSET {"rd", "wr"}], NEW new \in BOOLEAN,
           new => \A fd \in Fds : sets[fd] # {} => in[fd] # {},
           ~new => mux = "poll",
           Listened(sets, new)
    PROVE  IInv'
  <1>1. /\ out' = sets /\ fresh' = new /\ pc' = "process"
        /\ todo' = {fd \in Fds : sets[fd] # {}}
        /\ pnow' = now /\ it' = First(Pending)
        /\ UNCHANGED <<now, timer, chanVars, cur>>
    BY DEF Listened
  <1>2. it' \in Timers \cup {NoTimer} /\ TimeoutsDiffer' /\ NextInOrder'
    BY <1>1, FirstInOrder
  <1>3. TypeOK'
    BY <1>1, <1>2 DEF IInv, TypeOK, chanVars, regVars
  <1>4. CalledIsOut'
    BY <1>1 DEF CalledIsOut
  <1>5. Dispatches'
    BY <1>1 DEF IInv, Registers, Dispatches, DispatchHasChannel, chanVars, regVars
  <1>6. Registers' /\ SetsCover'
    BY <1>1, SameRegisters DEF IInv
  <1> QED BY <1>2, <1>3, <1>4, <1>5, <1>6 DEF IInv, InTime

\* select or poll returns, fails or times out.
LEMMA ListenStep ==
    ASSUME IInv, Listen \/ ListenTimeout \/ ListenError
    PROVE  IInv'
  <1>1. TypeOK /\ mux \in {"select", "poll"}
    BY MuxesAssumption DEF IInv, TypeOK
  <1>2. /\ Found \in [Fds -> SUBSET {"rd", "wr"}]
        /\ \A fd \in Fds : Found[fd] # {} => in[fd] # {}
    <2>1. ASSUME NEW fd \in Fds
          PROVE  /\ FoundBySelect(fd) \in SUBSET {"rd", "wr"} /\ (FoundBySelect(fd) # {} => in[fd] # {})
                 /\ FoundByPoll(fd) \in SUBSET {"rd", "wr"} /\ (FoundByPoll(fd) # {} => in[fd] # {})
      BY <1>1 DEF FoundBySelect, FoundByPoll, TypeOK
    <2> QED BY <2>1 DEF Found
  <1>3. in \in [Fds -> SUBSET {"rd", "wr"}] /\ out \in [Fds -> SUBSET {"rd", "wr"}]
    BY <1>1 DEF TypeOK
  <1>4. CASE Listened(Found, TRUE)
    BY <1>2, <1>4, ListenedStep
  <1>5. CASE mux = "poll" /\ Listened(out, FALSE)
    BY <1>3, <1>5, ListenedStep
  <1>6. CASE Listened(in, TRUE)
    BY <1>3, <1>6, ListenedStep
  <1> QED BY <1>4, <1>5, <1>6 DEF Listen, ListenTimeout, ListenError

\* The loop takes a descriptor up.
LEMMA TakeStep ==
    ASSUME IInv, Take
    PROVE  IInv'
  <1>1. PICK fd \in todo :
            /\ todo' = todo \ {fd}
            /\ pc' = IF fd \in channels THEN Callback(fd, {"rd", "wr"}) ELSE "no channel"
            /\ cur' = IF pc' = "dispatch" THEN NoTimer ELSE fd
            /\ UNCHANGED <<now, pnow, it, timer, chanVars, out, fresh>>
    BY DEF Take, timeVars
  <1>2. Callback(fd, {"rd", "wr"}) \in {"rd", "wr", "dispatch"}
    BY DEF Callback
  <1>3. TypeOK'
    BY <1>1 DEF IInv, TypeOK, chanVars, regVars
  <1>4. Registers' /\ SetsCover'
    BY <1>1, SameRegisters DEF IInv
  <1>5. Dispatches'
    BY <1>1, <1>2 DEF IInv, Dispatches, DispatchHasChannel, chanVars, regVars
  <1>6. InTime'
    BY <1>1, <1>2, SameTimers DEF IInv
  <1> QED BY <1>3, <1>4, <1>5, <1>6 DEF IInv

\* A handler returns.
LEMMA HandledStep ==
    ASSUME IInv, NEW type \in {"rd", "wr"}, Handled(type)
    PROVE  IInv'
  <1>1. /\ pc \in {"rd", "wr"} /\ pc' \in {Callback(cur, {"wr"}), "dispatch"}
        /\ cur' = IF pc' = "wr" THEN cur ELSE NoTimer
        /\ UNCHANGED <<now, pnow, it, timer, chanVars, out, fresh, todo>>
    BY DEF Handled, timeVars
  <1>2. Callback(cur, {"wr"}) \in {"wr", "dispatch"}
    BY DEF Callback
  <1>3. TypeOK'
    BY <1>1 DEF IInv, TypeOK, chanVars, regVars
  <1>4. Registers' /\ SetsCover'
    BY <1>1, SameRegisters DEF IInv
  <1>5. Dispatches'
    BY <1>1, <1>2 DEF IInv, Dispatches, DispatchHasChannel, chanVars, regVars
  <1>6. InTime'
    BY <1>1, <1>2, SameTimers DEF IInv
  <1> QED BY <1>3, <1>4, <1>5, <1>6 DEF IInv

\* Channels without handlers are dropped at the end of the turn.
LEMMA EndTurnStep ==
    ASSUME IInv, EndTurn
    PROVE  IInv'
  <1>1. /\ TypeOK /\ todo = {}
        /\ channels' = channels \ needclean
        /\ cb' = [fd \in Fds |-> IF fd \in needclean THEN {} ELSE cb[fd]]
        /\ needclean' = {} /\ fresh' = TRUE
        /\ out' = (IF mux = "poll" THEN out ELSE [fd \in Fds |-> {}])
        /\ pc' \in {"end", "top"}
        /\ UNCHANGED <<mux, now, pnow, it, timer, in, highest, size, revived, todo, cur>>
    BY DEF IInv, EndTurn, timeVars
  <1>2. cb' \in [Fds -> SUBSET {"rd", "wr"}] /\ \A fd \in Fds : cb'[fd] \in {cb[fd], {}}
    BY <1>1 DEF TypeOK
  <1>3. TypeOK'
    <2>1. out' \in [Fds -> SUBSET {"rd", "wr"}]
      BY <1>1 DEF TypeOK
    <2>2. UNCHANGED <<mux, now, pnow, it, timer, in, highest, size, revived, todo>>
      BY <1>1
    <2>3. channels' \subseteq channels /\ needclean' = {}
      BY <1>1
    <2> QED BY <1>1, <1>2, <2>1, <2>2, <2>3 DEF TypeOK
  <1>4. Registers'
    <2>1. \A fd : Refused(fd)' <=> Refused(fd)
      BY <1>1 DEF Refused
    <2>2. ASSUME NEW fd \in Fds
          PROVE  /\ cb'[fd] # {} => fd \in channels'
                 /\ ~Refused(fd)' => cb'[fd] \subseteq in'[fd]
                 /\ fd \notin revived' => in'[fd] \subseteq cb'[fd]
      BY <1>1, <2>1 DEF IInv, Registers
    <2> QED BY <1>1, <2>2 DEF Registers
  <1>5. SetsCover'
    <2>1. UNCHANGED <<mux, in, highest, size>>
      BY <1>1
    <2> QED BY <2>1 DEF IInv, SetsCover
  <1>6. Dispatches'
    BY <1>1 DEF Dispatches, DispatchHasChannel
  <1>7. InTime'
    BY <1>1, SameTimers DEF IInv
  <1> QED BY <1>3, <1>4, <1>5, <1>6, <1>7 DEF IInv

\* Time passes, descriptors become ready, or nothing happens.
LEMMA EnvironmentStep ==
    ASSUME IInv, Tick \/ (\E e \in Events[mux] \cup Hangups : BecomeReady(e[1], e[2])) \/ UNCHANGED vars
    PROVE  IInv'
  <1>1. /\ UNCHANGED <<pnow, it, timer, chanVars, out, fresh, todo, pc, cur>>
        /\ now' = now \/ (now' = now + 1 /\ now < MaxTime)
    <2>1. CASE Tick
      BY <2>1 DEF Tick, timeVars, loopVars
    <2>2. CASE \E e \in Events[mux] \cup Hangups : BecomeReady(e[1], e[2])
      BY <2>2 DEF BecomeReady, timeVars, loopVars, chanVars, regVars
    <2>3. CASE UNCHANGED vars
      BY <2>3 DEF vars, timeVars, loopVars, chanVars, regVars
    <2> QED BY <2>1, <2>2, <2>3
  <1>2. TypeOK'
    <2>1. now' \in 0 .. MaxTime /\ pnow \in 0 .. now'
      BY <1>1, BoundsAssumption DEF IInv, TypeOK
    <2> QED BY <1>1, <2>1 DEF IInv, TypeOK, chanVars, regVars
  <1>3. Registers' /\ SetsCover' /\ Dispatches' /\ InTime'
    BY <1>1, SameRegisters, SameDispatch, SameTimers DEF IInv, chanVars, regVars
  <1> QED BY <1>2, <1>3 DEF IInv

\* IInv is inductive.
LEMMA NextIInv == IInv /\ [Next]_vars => IInv'
  <1> SUFFICES ASSUME IInv, [Next]_vars
               PROVE  IInv'
    OBVIOUS
  <1>1. CASE Loop
    BY <1>1, TurnStep, FireStep, FiredStep, ProcessedStep, ListenStep, TakeStep, EndTurnStep, HandledStep
       DEF Loop
  <1>2. ASSUME NEW t \in Timers, NEW sec \in Delays, NEW persistent \in BOOLEAN,
               SetTimer(t, sec, persistent)
        PROVE  IInv'
    BY <1>2, SetTimerStep
  <1>3. ASSUME NEW e \in Events[mux], SetHandler(e[1], e[2]) \/ RemoveHandler(e[1], e[2])
        PROVE  IInv'
    <2>1. e[1] \in Fds /\ e[2] \in {"rd", "wr"}
      BY FdsAssumption DEF IInv, TypeOK
    <2> QED BY <1>3, <2>1, SetHandlerStep, RemoveHandlerStep
  <1>4. CASE SetTerminated
    BY <1>4, SetTerminatedStep
  <1>5. CASE ListenError
    BY <1>5, ListenStep
  <1>6. CASE Tick \/ (\E e \in Events[mux] \cup Hangups : BecomeReady(e[1], e[2])) \/ UNCHANGED vars
    BY <1>6, EnvironmentStep
  <1> QED BY <1>1, <1>2, <1>3, <1>4, <1>5, <1>6 DEF Next, Call

\* IInv holds in every state of the loop.
LEMMA Invariance == Spec => []IInv
  BY InitIInv, NextIInv, PTL DEF Spec

-----------------------------------------------------------------------------
(* The theorems.                                                           *)

\* What select or poll is asked for is what has a callback, after any sequence
\* of set and remove calls from callbacks, but for descriptors that select has
\* refused and those given a handler while they waited to be dropped.
THEOREM HandlersAlwaysMatch == Spec => []HandlersMatch
  <1>1. IInv => HandlersMatch
    BY DEF IInv, Registers, HandlersMatch
  <1> QED BY <1>1, Invariance, PTL

\* The loop looks up a missing channel only for a result poll has kept, or for a
\* descriptor that was given a handler while it waited to be dropped.
THEOREM DispatchFindsChannel == Spec => []DispatchHasChannel
  <1>1. IInv => DispatchHasChannel
    BY DEF IInv, Dispatches
  <1> QED BY <1>1, Invariance, PTL

\* select's highest_fd and block cover whatever is registered.
THEOREM SetsAlwaysCover == Spec => []SetsCover
  <1>1. IInv => SetsCover
    BY DEF IInv
  <1> QED BY <1>1, Invariance, PTL

\* Only process makes a timer of the set a called one.
LEMMA OnlyFireCalls ==
    ASSUME IInv, [Next]_vars, NEW t \in Timers,
           timer[t].state = "set", timer'[t].state = "called"
    PROVE  Fire /\ t = it
  <1>1. TypeOK /\ InTime
    BY DEF IInv
  <1>2. ASSUME NEW u \in Timers, NEW tv, NEW timeout, NEW persistent, Insert(u, tv, timeout, persistent)
        PROVE  FALSE
    <2>1. timer'[u].state \in {"lost", "set"} /\ \A v \in Timers \ {u} : timer'[v] = timer[v]
      BY <1>1, <1>2 DEF Insert, TypeOK
    <2> QED BY <2>1
  <1>3. CASE Fire
    <2>1. it \in Timers /\ timer' = [timer EXCEPT ![it].state = "called"]
      BY <1>1, <1>3 DEF Fire, TypeOK
    <2>2. \A u \in Timers \ {it} : timer'[u] = timer[u]
      BY <1>1, <2>1 DEF TypeOK
    <2> QED BY <1>3, <2>2
  <1>4. CASE Fired
    <2>1. cur \in Timers
      BY <1>1, <1>4 DEF InTime, CalledIsOut, Fired
    <2>2. timer' = [timer EXCEPT ![cur].state = "deleted"]
      BY <1>2, <1>4, <2>1 DEF Fired
    <2>3. timer'[cur].state = "deleted" /\ \A u \in Timers \ {cur} : timer'[u] = timer[u]
      BY <1>1, <2>1, <2>2 DEF TypeOK
    <2> QED BY <2>3
  <1>5. timer' # timer
    OBVIOUS
  <1>6. ~(Start \/ Turn \/ Finish \/ Processed \/ Take \/ EndTurn)
    BY <1>5 DEF Start, Turn, Finish, Processed, Take, EndTurn, timeVars
  <1>7. ~(Listen \/ ListenTimeout \/ ListenError)
    BY <1>5 DEF Listen, ListenTimeout, ListenError, Listened
  <1>8. ~(\E type \in {"rd", "wr"} : Handled(type))
    BY <1>5 DEF Handled, timeVars
  <1>9. ~(Tick \/ (\E e \in Events[mux] \cup Hangups : BecomeReady(e[1], e[2])) \/ UNCHANGED vars)
    BY <1>5 DEF Tick, BecomeReady, vars, timeVars
  <1>10. ~(SetTerminated \/ \E e \in Events[mux] : SetHandler(e[1], e[2]) \/ RemoveHandler(e[1], e[2]))
    BY <1>5 DEF SetTerminated, SetHandler, RemoveHandler
  <1>11. ~(\E u \in Timers, sec \in Delays, persistent \in BOOLEAN : SetTimer(u, sec, persistent))
    BY <1>2 DEF SetTimer
  <1> QED BY <1>3, <1>4, <1>6, <1>7, <1>8, <1>9, <1>10, <1>11 DEF Next, Loop, Call

\* process calls timers when they are due, in the order of their timeouts,
\* whatever callbacks add to the set while it walks it.
THEOREM TimersFireInOrder == Spec => FiresInOrder
  <1> DEFINE InOrder ==
          \A t \in Timers :
              timer[t].state = "set" /\ timer'[t].state = "called" =>
                  /\ timer[t].timeout <= now
                  /\ \A u \in Pending : timer[t].timeout <= timer[u].timeout
  <1>1. IInv /\ [Next]_vars => InOrder
    <2> SUFFICES ASSUME IInv, [Next]_vars, NEW t \in Timers,
                        timer[t].state = "set", timer'[t].state = "called"
                 PROVE  /\ timer[t].timeout <= now
                        /\ \A u \in Pending : timer[t].timeout <= timer[u].timeout
      OBVIOUS
    <2>1. Fire /\ t = it
      BY OnlyFireCalls
    <2>2. TypeOK /\ NextInOrder /\ it # NoTimer /\ timer[it].timeout <= pnow
      BY <2>1 DEF IInv, InTime, Fire, Due
    <2>3. pnow \in Nat /\ now \in Nat /\ pnow <= now /\ \A u \in Timers : timer[u].timeout \in Nat
      BY <2>2, BoundsAssumption DEF TypeOK
    <2>4. ASSUME NEW u \in Pending
          PROVE  timer[t].timeout <= timer[u].timeout
      <3>1. u \in Timers /\ (timer[u].timeout < timer[it].timeout => timer[u].timeout >= pnow)
        BY <2>2 DEF NextInOrder, Pending
      <3> QED BY <2>1, <2>2, <2>3, <3>1
    <2>5. timer[t].timeout <= now
      BY <2>1, <2>2, <2>3
    <2> QED BY <2>4, <2>5
  <1> QED BY <1>1, Invariance, PTL DEF Spec, FiresInOrder

=============================================================================
