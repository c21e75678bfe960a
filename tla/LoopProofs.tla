----------------------------- MODULE LoopProofs ------------------------------
(***************************************************************************)
(* Proofs about the two loops a server of src/model may run its workers    *)
(* in: thread_loop (ThreadLoop) for every number of workers and clients,   *)
(* every set of descriptors and every eventfd capacity, and process_loop   *)
(* (ProcessLoop) for every number of worker processes.                     *)
(***************************************************************************)
EXTENDS ThreadLoop, ProcessLoop, SequenceTheorems, TLAPS

-----------------------------------------------------------------------------
(* process_loop, for every number of workers.                              *)

\* A worker of which waitpid has nothing more to return.
Gone(w) == worker[w] \in {"unborn", "reaped"}

\* Where the master is: it has come to every worker when it has left init, and
\* everything after that presupposes it.
Progress ==
    /\ pc = "fork" => forked < ProcessSize
    /\ pc \notin {"fork", "killed"} => forked = ProcessSize
    /\ delay \/ ~live => forked = ProcessSize
    /\ delay => terminate
    /\ terminate => "INT" \in installed
    /\ "ALRM" \in pending => delay

\* What the flags say of the workers: the master has seen that none is left, or
\* has sent SIGKILL to all of them, and no worker is started later.
Flags ==
    /\ \A w \in Processes : w > forked => worker[w] = "unborn" /\ ~exited[w]
    /\ ~live => \A w \in Processes : Gone(w)
    /\ delay => \A w \in Processes : worker[w] # "running"

MasterIInv == TableIsTrue /\ Progress /\ Flags /\ LeavesNoWorker

-----------------------------------------------------------------------------

\* process_loop::start begins with an empty table and no worker.
LEMMA MasterInitIInv == MasterInit => MasterIInv
  <1> SUFFICES ASSUME MasterInit PROVE MasterIInv
    OBVIOUS
  <1> USE DEF MasterInit, Processes, NoPid
  <1>1. MasterTypeOK
    <2>1. /\ reap \in BOOLEAN /\ terminate \in BOOLEAN /\ live \in BOOLEAN
          /\ delay \in BOOLEAN /\ blocked \in BOOLEAN /\ armed \in BOOLEAN
          /\ exited \in [Processes -> BOOLEAN]
          /\ armed => delay /\ terminate
      BY Zenon
    <2> QED BY <2>1, ProcessSizeAssumption DEF MasterTypeOK, Signals
  <1>2. TableIsTrue
    BY <1>1 DEF TableIsTrue
  <1>3. Progress
    BY ProcessSizeAssumption DEF Progress
  <1>4. Flags
    BY DEF Flags
  <1>5. LeavesNoWorker
    BY DEF LeavesNoWorker
  <1> QED BY <1>2, <1>3, <1>4, <1>5 DEF MasterIInv

\* fork returns a pid or -1.
LEMMA ForkStep == MasterIInv /\ Fork => MasterIInv'
  <1> SUFFICES ASSUME MasterIInv, Fork PROVE MasterIInv'
    OBVIOUS
  <1> USE ProcessSizeAssumption DEF Fork, Processes, NoPid, flagVars, signalVars
  <1>1. MasterTypeOK /\ TableIsTrue /\ Progress /\ Flags
    BY DEF MasterIInv, TableIsTrue
  <1>2. forked' \in Processes /\ forked' = forked + 1 /\ ~delay /\ live
    BY <1>1 DEF MasterTypeOK, Progress
  <1>3. MasterTypeOK'
    <2>1. /\ (exited \in [Processes -> BOOLEAN])'
          /\ (reap \in BOOLEAN /\ terminate \in BOOLEAN /\ live \in BOOLEAN)'
          /\ (delay \in BOOLEAN /\ blocked \in BOOLEAN /\ armed \in BOOLEAN)'
          /\ (armed => delay /\ terminate)'
      BY <1>1, Zenon DEF MasterTypeOK
    <2>2. /\ (pid \in [Processes -> {NoPid} \cup Processes])'
          /\ (worker \in [Processes -> {"unborn", "running", "doomed", "zombie", "reaped"}])'
      <3>1. /\ pid \in [Processes -> {NoPid} \cup Processes]
            /\ worker \in [Processes -> {"unborn", "running", "doomed", "zombie", "reaped"}]
        BY <1>1 DEF MasterTypeOK
      <3>2. CASE UNCHANGED <<pid, worker>>
        BY <3>1, <3>2
      <3>3. CASE /\ pid' = [pid EXCEPT ![forked'] = forked']
                 /\ worker' = [worker EXCEPT ![forked'] = "running"]
        <4> HIDE DEF Processes, NoPid
        <4> QED BY <1>2, <3>1, <3>3
      <3> QED BY <3>2, <3>3
    <2>3. (\A w \in Processes : pid[w] = NoPid \/ (pid[w] = w /\ w <= forked))'
      BY <1>1, <1>2 DEF MasterTypeOK
    <2> QED BY <1>1, <1>2, <2>1, <2>2, <2>3 DEF MasterTypeOK
  <1>4. TableIsTrue'
    BY <1>1, <1>2, <1>3 DEF TableIsTrue, MasterTypeOK, Flags
  <1>5. Progress'
    BY <1>1, <1>2 DEF Progress, MasterTypeOK
  <1>6. Flags'
    BY <1>1, <1>2 DEF Flags, Gone, MasterTypeOK
  <1>7. LeavesNoWorker'
    BY <1>2 DEF LeavesNoWorker
  <1> QED BY <1>4, <1>5, <1>6, <1>7 DEF MasterIInv

\* The steps between init and sigsuspend change no worker and nothing in the
\* table, and install handlers or start the timer.
LEMMA MasterStartStep == MasterIInv /\ (SetHandlers \/ Block \/ Suspend) => MasterIInv'
  <1> SUFFICES ASSUME MasterIInv, SetHandlers \/ Block \/ Suspend
               PROVE  MasterIInv'
    OBVIOUS
  <1> USE DEF MasterIInv, TableIsTrue, MasterTypeOK, Progress, Flags, LeavesNoWorker, Gone, tableVars, flagVars
  <1>1. CASE SetHandlers
    <2>1. /\ UNCHANGED <<forked, pid, exited, reap, terminate, live, delay, blocked, pending, armed, worker>>
          /\ pc \in {"int", "chld"} /\ pc' \in {"chld", "block"}
      BY <1>1 DEF SetHandlers, SetHandler
    <2>2. \E sig \in Signals : callback' = callback \cup {sig} /\ installed' = installed \cup {sig}
      BY <1>1 DEF SetHandlers, SetHandler, Signals
    <2> QED BY <2>1, <2>2
  <1>2. CASE Block
    BY <1>2 DEF Block
  <1>3. CASE Suspend
    <2>1. armed' \in BOOLEAN /\ (armed' => delay)
      BY <1>3 DEF Suspend, Armed
    <2> QED BY <1>3, <2>1 DEF Suspend
  <1> QED BY <1>1, <1>2, <1>3

\* The entries that the callback of SIGCHLD marks are those of the workers it has
\* collected: no entry holds the pid of another worker.
LEMMA MarkedAreCollected ==
    ASSUME MasterTypeOK, NEW children \in SUBSET Processes
    PROVE  Marked(children) \subseteq children
  BY DEF Marked, MasterTypeOK, NoPid, Processes

\* Delivering signals, with or without callbacks: the master is killed only by
\* SIGALRM once it handles SIGINT, and then has signalled its workers.
LEMMA DeliverStep ==
    ASSUME MasterIInv, NEW S \in SUBSET pending, NEW next, Deliver(S, next),
           next = pc \/ (pc = "suspend" /\ next = "woken"),
           Alive
    PROVE  MasterIInv'
  <1> USE DEF MasterIInv, TableIsTrue
  <1>1. /\ UNCHANGED <<forked, pid, live, delay, installed, blocked, armed>>
        /\ pending' = pending \ S
    BY DEF Deliver
  <1>2. CASE Deadly(S) /\ pc' = "killed" /\ UNCHANGED <<terminate, reap, exited, worker, callback>>
    <2>1. MasterTypeOK'
      BY <1>1, <1>2 DEF MasterTypeOK
    <2>2. "INT" \in installed => "ALRM" \in pending
      BY <1>2 DEF Deadly
    <2>3. LeavesNoWorker'
      BY <1>1, <1>2, <2>2 DEF LeavesNoWorker, Progress, Flags
    <2>4. Progress' /\ Flags'
      BY <1>1, <1>2 DEF Progress, Flags, Gone
    <2> QED BY <1>1, <1>2, <2>1, <2>3, <2>4
  <1>3. CASE ~Deadly(S) /\ pc' = next /\ Handle(S)
    <2> DEFINE children == IF "CHLD" \in S \cap callback THEN Collected ELSE {}
    <2>1. /\ terminate' = (terminate \/ "INT" \in S \cap callback)
          /\ reap' = (reap \/ "CHLD" \in S \cap callback)
          /\ exited' = [w \in Processes |-> exited[w] \/ w \in Marked(children)]
          /\ worker' = [w \in Processes |-> IF w \in children THEN "reaped" ELSE worker[w]]
          /\ callback' = callback \ (S \cap callback)
      BY <1>3 DEF Handle
    <2>2. children \subseteq {w \in Processes : worker[w] = "zombie"}
      BY DEF Collected
    <2>3. Marked(children) \subseteq children
      BY <2>2, MarkedAreCollected
    <2> HIDE DEF children
    <2>4. MasterTypeOK'
      BY <1>1, <1>3, <2>1, <2>2 DEF MasterTypeOK
    <2>5. TableIsTrue'
      BY <1>1, <2>1, <2>2, <2>3, <2>4 DEF MasterTypeOK
    <2>6. Progress'
      BY <1>1, <1>3, <2>1 DEF Progress, MasterTypeOK, Alive
    <2>7. Flags'
      BY <1>1, <2>1, <2>2, <2>3 DEF Flags, Gone, MasterTypeOK
    <2>8. LeavesNoWorker'
      BY <1>3 DEF LeavesNoWorker, Alive
    <2> QED BY <2>5, <2>6, <2>7, <2>8
  <1> QED BY <1>2, <1>3 DEF Deliver

\* reap_children: an entry is cleared when its worker was reaped, and live is
\* cleared when all of them were.
LEMMA ReapStep ==
    ASSUME MasterIInv, pc = "woken", Reap
    PROVE  /\ reap' \in BOOLEAN /\ live' \in BOOLEAN
           /\ pid' \in [Processes -> {NoPid} \cup Processes]
           /\ \A w \in Processes : pid'[w] = NoPid \/ (pid'[w] = w /\ w <= forked)
           /\ \A w \in Processes : pid'[w] = NoPid => Gone(w)
           /\ ~live' => \A w \in Processes : Gone(w)
  <1> USE DEF MasterIInv, TableIsTrue, MasterTypeOK, Progress, Flags, Gone, Reap
  <1>1. forked = ProcessSize
    OBVIOUS
  <1>2. \A w \in Processes : w <= forked
    BY <1>1 DEF Processes
  <1>3. CASE reap
    BY <1>2, <1>3 DEF Remaining
  <1>4. CASE ~reap
    BY <1>2, <1>4
  <1> QED BY <1>3, <1>4

\* What the loop of the master does when sigsuspend has returned: SIGKILL goes
\* to every worker, because an entry with pid -1 stands for all processes.
LEMMA ManageStep == MasterIInv /\ Manage => MasterIInv'
  <1> SUFFICES ASSUME MasterIInv, Manage
               PROVE  MasterIInv'
    OBVIOUS
  <1>1. /\ pc = "woken" /\ Reap
        /\ UNCHANGED <<forked, exited, terminate, callback, installed, blocked, pending, armed>>
    BY DEF Manage, signalVars
  <1>2. /\ reap' \in BOOLEAN /\ live' \in BOOLEAN
        /\ pid' \in [Processes -> {NoPid} \cup Processes]
        /\ \A w \in Processes : pid'[w] = NoPid \/ (pid'[w] = w /\ w <= forked)
        /\ \A w \in Processes : pid'[w] = NoPid => Gone(w)
        /\ ~live' => \A w \in Processes : Gone(w)
    BY <1>1, ReapStep
  <1>3. forked = ProcessSize
    BY <1>1 DEF MasterIInv, Progress
  <1>4. CASE ~live' /\ terminate /\ pc' = "exited" /\ UNCHANGED <<delay, worker>>
    <2>1. TableIsTrue'
      BY <1>1, <1>2, <1>4 DEF MasterIInv, TableIsTrue, MasterTypeOK, Gone
    <2>2. Progress' /\ Flags' /\ LeavesNoWorker'
      BY <1>1, <1>2, <1>3, <1>4 DEF MasterIInv, Progress, Flags, LeavesNoWorker, Gone
    <2> QED BY <2>1, <2>2 DEF MasterIInv
  <1>5. CASE /\ pc' = "top"
             /\ delay' = (delay \/ terminate)
             /\ worker' = [w \in Processes |->
                              IF terminate /\ w \in Signalled /\ worker[w] = "running"
                              THEN "doomed" ELSE worker[w]]
    <2>1. Signalled = Processes
      BY DEF Signalled
    <2>2. MasterTypeOK'
      BY <1>1, <1>2, <1>5 DEF MasterIInv, TableIsTrue, MasterTypeOK
    <2>3. \A w \in Processes : Gone(w) => Gone(w)'
      BY <1>5 DEF Gone
    <2>4. TableIsTrue'
      BY <1>1, <1>2, <2>2, <2>3 DEF MasterIInv, TableIsTrue, Gone
    <2>5. Progress' /\ LeavesNoWorker'
      BY <1>1, <1>2, <1>3, <1>5 DEF MasterIInv, TableIsTrue, MasterTypeOK, Progress, LeavesNoWorker
    <2>6. Flags'
      BY <1>1, <1>2, <1>3, <1>5, <2>1, <2>3 DEF MasterIInv, TableIsTrue, MasterTypeOK, Flags, Processes
    <2> QED BY <2>4, <2>5, <2>6 DEF MasterIInv
  <1> QED BY <1>4, <1>5 DEF Manage

\* Workers end, interrupts arrive and the timer expires at any time.
LEMMA WorldStep ==
    MasterIInv /\ ((\E w \in Processes : End(w)) \/ Interrupt \/ Expire) => MasterIInv'
  <1> SUFFICES ASSUME MasterIInv, (\E w \in Processes : End(w)) \/ Interrupt \/ Expire
               PROVE  MasterIInv'
    OBVIOUS
  <1> USE DEF MasterIInv, TableIsTrue, MasterTypeOK, Progress, Flags, LeavesNoWorker, Gone, tableVars, flagVars,
              Signals
  <1>1. ASSUME NEW w \in Processes, End(w)
        PROVE  MasterIInv'
    BY <1>1 DEF End
  <1>2. CASE Interrupt
    BY <1>2 DEF Interrupt
  <1>3. CASE Expire
    BY <1>3 DEF Expire
  <1> QED BY <1>1, <1>2, <1>3

\* MasterIInv is inductive.
LEMMA MasterNextIInv == MasterIInv /\ [MasterNext]_masterVars => MasterIInv'
  <1> SUFFICES ASSUME MasterIInv, [MasterNext]_masterVars
               PROVE  MasterIInv'
    OBVIOUS
  <1>1. CASE Fork
    BY <1>1, ForkStep
  <1>2. CASE SetHandlers \/ Block \/ Suspend
    BY <1>2, MasterStartStep
  <1>3. CASE Manage
    BY <1>3, ManageStep
  <1>4. CASE Woken
    BY <1>4, DeliverStep DEF Woken, Alive
  <1>5. ASSUME NEW sig \in Signals, Interrupted(sig)
        PROVE  MasterIInv'
    <2>1. Alive /\ {sig} \in SUBSET pending /\ Deliver({sig}, pc)
      BY <1>5 DEF Interrupted
    <2> QED BY <2>1, DeliverStep
  <1>6. CASE (\E w \in Processes : End(w)) \/ Interrupt \/ Expire
    BY <1>6, WorldStep
  <1>7. CASE UNCHANGED masterVars
    BY <1>7 DEF masterVars, tableVars, flagVars, signalVars, MasterIInv, TableIsTrue, MasterTypeOK, Progress, Flags,
                LeavesNoWorker, Gone
  <1> QED BY <1>1, <1>2, <1>3, <1>4, <1>5, <1>6, <1>7 DEF MasterNext, Master

\* MasterIInv holds in every state the master and its workers can be in.
LEMMA MasterInvariance == MasterSpec => []MasterIInv
  BY MasterInitIInv, MasterNextIInv, PTL DEF MasterSpec

\* The table of processes is right about the workers whatever signals come when:
\* an entry is marked or cleared only when waitpid has returned its worker.
THEOREM TableStaysTrue == MasterSpec => []TableIsTrue
  BY MasterInvariance, PTL DEF MasterIInv

\* A master that exits, or is killed by any signal once set_handler(SIGINT) has
\* returned, leaves no worker running, for any number of workers.
THEOREM NoWorkerLeft == MasterSpec => []LeavesNoWorker
  BY MasterInvariance, PTL DEF MasterIInv

-----------------------------------------------------------------------------
(* thread_loop, for every number of workers and clients.                   *)

USE SizeAssumption, FdsAssumption

-----------------------------------------------------------------------------
(* What push and pop do to a queue without duplicates.                     *)

Distinct(s) == \A i, j \in DOMAIN s : i # j => s[i] # s[j]

\* A client is in the queue or not.
LEMMA ContainsIsBoolean == \A s, x : Contains(s, x) \in BOOLEAN
  BY DEF Contains

\* lock_queue::push.
LEMMA AppendContains ==
    ASSUME NEW S, NEW s \in Seq(S), NEW e \in S
    PROVE  /\ Append(s, e) \in Seq(S)
           /\ \A x : Contains(Append(s, e), x) <=> Contains(s, x) \/ x = e
           /\ Distinct(s) /\ ~Contains(s, e) => Distinct(Append(s, e))
  <1>1. /\ Append(s, e) \in Seq(S)
        /\ Len(Append(s, e)) = Len(s) + 1
        /\ \A i \in 1 .. Len(s) : Append(s, e)[i] = s[i]
        /\ Append(s, e)[Len(s) + 1] = e
    BY AppendProperties
  <1>2. /\ DOMAIN s = 1 .. Len(s) /\ Len(s) \in Nat
        /\ DOMAIN Append(s, e) = 1 .. Len(s) + 1
    BY <1>1, LenProperties
  <1>3. \A x : Contains(Append(s, e), x) <=> Contains(s, x) \/ x = e
    BY <1>1, <1>2 DEF Contains
  <1>4. Distinct(s) /\ ~Contains(s, e) => Distinct(Append(s, e))
    BY <1>1, <1>2 DEF Contains, Distinct
  <1> QED BY <1>1, <1>3, <1>4

\* lock_queue::pop.
LEMMA TailContains ==
    ASSUME NEW S, NEW s \in Seq(S), s # <<>>, Distinct(s)
    PROVE  /\ Head(s) \in S /\ Contains(s, Head(s))
           /\ Tail(s) \in Seq(S) /\ Distinct(Tail(s))
           /\ \A x : Contains(Tail(s), x) <=> Contains(s, x) /\ x # Head(s)
  <1>1. /\ Head(s) \in S
        /\ Tail(s) \in Seq(S)
        /\ Len(Tail(s)) = Len(s) - 1
        /\ \A i \in 1 .. Len(Tail(s)) : Tail(s)[i] = s[i + 1]
    BY HeadTailProperties
  <1>2. /\ DOMAIN s = 1 .. Len(s)
        /\ Len(s) \in Nat \ {0}
        /\ DOMAIN Tail(s) = 1 .. Len(s) - 1
    BY <1>1, LenProperties, EmptySeq
  <1>3. Head(s) = s[1] /\ Contains(s, Head(s))
    BY <1>2 DEF Contains
  <1>4. Distinct(Tail(s))
    BY <1>1, <1>2 DEF Distinct
  <1>5. ASSUME NEW x, Contains(Tail(s), x)
        PROVE  Contains(s, x) /\ x # Head(s)
    <2>1. PICK i \in 1 .. Len(s) - 1 : Tail(s)[i] = x
      BY <1>1, <1>5 DEF Contains
    <2>2. i + 1 \in 1 .. Len(s) /\ s[i + 1] = x /\ i + 1 # 1
      BY <1>1, <1>2, <2>1
    <2> QED BY <1>2, <1>3, <2>2 DEF Contains, Distinct
  <1>6. ASSUME NEW x, Contains(s, x), x # Head(s)
        PROVE  Contains(Tail(s), x)
    <2>1. PICK i \in 1 .. Len(s) : s[i] = x
      BY <1>6 DEF Contains
    <2>2. i - 1 \in 1 .. Len(s) - 1 /\ (i - 1) + 1 = i
      BY <1>2, <1>3, <1>6, <2>1
    <2>3. Tail(s)[i - 1] = x
      BY <1>1, <2>1, <2>2
    <2> QED BY <1>1, <2>2, <2>3 DEF Contains
  <1> QED BY <1>1, <1>3, <1>4, <1>5, <1>6

-----------------------------------------------------------------------------
(* What epoll::add does.                                                   *)

EpollState == [ev : [Fds -> SUBSET RDWR], ker : [Fds -> SUBSET RDWR]]

\* events is right about f, or the kernel has dropped the registration.
Covers(e) == \A f \in Fds : e.ker[f] \in {{}, e.ev[f]}

\* epoll::add concerns one descriptor, and where events is right it succeeds.
LEMMA AddEventProperties ==
    ASSUME NEW e \in EpollState, NEW f \in Fds, NEW type \in RDWR
    PROVE  LET new == AddEvent(e, f, type)
           IN  /\ new \in EpollState
               /\ \A g \in Fds \ {f} : new.ev[g] = e.ev[g] /\ new.ker[g] = e.ker[g]
               /\ Covers(e) => Covers(new)
               /\ e.ev[f] = e.ker[f] /\ type \notin e.ev[f] =>
                      new.ev[f] = e.ev[f] \cup {type} /\ new.ker[f] = e.ev[f] \cup {type}
  <1> DEFINE event == e.ev[f] \cup {type}
             new == AddEvent(e, f, type)
  <1>1. CASE new = e
    <2>1. ASSUME e.ev[f] = e.ker[f], type \notin e.ev[f]
          PROVE  FALSE
      <3>1. e.ev[f] # RDWR /\ e.ev[f] # {type}
        BY <2>1
      <3>2. new.ev = [e.ev EXCEPT ![f] = event]
        BY <2>1, <3>1 DEF AddEvent
      <3>3. new.ev[f] = event
        BY <3>2 DEF EpollState
      <3> QED BY <1>1, <2>1, <3>3
    <2> QED BY <1>1, <2>1
  <1>2. CASE new = [ev |-> [e.ev EXCEPT ![f] = event], ker |-> [e.ker EXCEPT ![f] = event]]
    <2>1. event \in SUBSET RDWR
      BY DEF EpollState
    <2>2. new \in EpollState
      BY <1>2, <2>1 DEF EpollState
    <2> QED BY <1>2, <2>2 DEF Covers, EpollState
  <1>3. new = e \/ new = [ev |-> [e.ev EXCEPT ![f] = event], ker |-> [e.ker EXCEPT ![f] = event]]
    BY DEF AddEvent
  <1> QED BY <1>1, <1>2, <1>3

\* Setting the handlers of a client concerns its descriptor, and has it watched
\* if this epoll has not had the number before.
LEMMA RegisteredProperties ==
    ASSUME NEW e \in EpollState, NEW f \in Fds
    PROVE  LET new == Registered(e, f)
           IN  /\ new \in EpollState
               /\ \A g \in Fds \ {f} : new.ev[g] = e.ev[g] /\ new.ker[g] = e.ker[g]
               /\ Covers(e) => Covers(new)
               /\ f \in open /\ e.ev[f] = {} /\ e.ker[f] = {} => new.ker[f] = Types
  <1> DEFINE rd == IF "rd" \in Types THEN AddEvent(e, f, "rd") ELSE e
             wr == IF "wr" \in Types THEN AddEvent(rd, f, "wr") ELSE rd
  <1>1. "rd" \in RDWR /\ "wr" \in RDWR /\ "rd" # "wr"
    BY DEF RDWR
  <1>2. /\ rd \in EpollState
        /\ \A g \in Fds \ {f} : rd.ev[g] = e.ev[g] /\ rd.ker[g] = e.ker[g]
        /\ Covers(e) => Covers(rd)
        /\ e.ev[f] = {} /\ e.ker[f] = {} => rd.ev[f] = Types \cap {"rd"} /\ rd.ker[f] = Types \cap {"rd"}
    <2>1. CASE "rd" \in Types
      <3>1. {} \cup {"rd"} = Types \cap {"rd"}
        BY <2>1
      <3>2. rd = AddEvent(e, f, "rd")
        BY <2>1
      <3>3. /\ rd \in EpollState
            /\ \A g \in Fds \ {f} : rd.ev[g] = e.ev[g] /\ rd.ker[g] = e.ker[g]
            /\ Covers(e) => Covers(rd)
            /\ e.ev[f] = e.ker[f] /\ "rd" \notin e.ev[f] =>
                   rd.ev[f] = e.ev[f] \cup {"rd"} /\ rd.ker[f] = e.ev[f] \cup {"rd"}
        BY ONLY <1>1, <3>2, AddEventProperties, e \in EpollState, f \in Fds
      <3> QED BY <3>1, <3>3
    <2>2. CASE "rd" \notin Types
      BY <2>2
    <2> QED BY <2>1, <2>2
  <1> HIDE DEF rd
  <1>3. /\ wr \in EpollState
        /\ \A g \in Fds \ {f} : wr.ev[g] = rd.ev[g] /\ wr.ker[g] = rd.ker[g]
        /\ Covers(rd) => Covers(wr)
        /\ rd.ev[f] = Types \cap {"rd"} /\ rd.ker[f] = Types \cap {"rd"} => wr.ker[f] = Types
    <2>1. CASE "wr" \in Types
      <3>1. (Types \cap {"rd"}) \cup {"wr"} = Types /\ "wr" \notin Types \cap {"rd"}
        BY <1>1, <2>1 DEF RDWR
      <3>2. wr = AddEvent(rd, f, "wr")
        BY <2>1
      <3>3. /\ wr \in EpollState
            /\ \A g \in Fds \ {f} : wr.ev[g] = rd.ev[g] /\ wr.ker[g] = rd.ker[g]
            /\ Covers(rd) => Covers(wr)
            /\ rd.ev[f] = rd.ker[f] /\ "wr" \notin rd.ev[f] =>
                   wr.ev[f] = rd.ev[f] \cup {"wr"} /\ wr.ker[f] = rd.ev[f] \cup {"wr"}
        BY ONLY <1>1, <1>2, <3>2, AddEventProperties, f \in Fds
      <3> QED BY <3>1, <3>3
    <2>2. CASE "wr" \notin Types
      <3>1. Types \cap {"rd"} = Types /\ wr = rd
        BY <2>2 DEF RDWR
      <3> QED BY <1>2, <3>1
    <2> QED BY <2>1, <2>2
  <1>4. Registered(e, f) = IF f \in open THEN wr ELSE e
    BY DEF Registered, rd
  <1> HIDE DEF wr
  <1> QED BY <1>2, <1>3, <1>4

-----------------------------------------------------------------------------
(* The invariant.                                                          *)

\* Where the main thread is: it has grown the vector before it pushes a task,
\* has a client of its own when it pushes one, and a wakeup to write.
MainOK ==
    /\ mpc \in {"grow", "run"} => threads >= 1
    /\ mpc = "push" => accepted >= 1 /\ taken[accepted] = 0 /\ ~Contains(queue, accepted)
    /\ mpc = "wakeup" => left >= 1

\* A client has a descriptor from accept on, and events has entries only for the
\* descriptors of clients that its worker has taken.
RegistersTaken ==
    /\ \A c \in Clients : fd[c] # NoFd <=> c <= accepted
    /\ \A w \in Workers :
          /\ Covers(io[w])
          /\ \A f \in Fds : io[w].ev[f] # {} => \E c \in Clients : fd[c] = f /\ taken[c] = w

IInv == InOnePlace /\ MainOK /\ NoForgottenClient /\ RegistersTaken /\ UnwatchedIsReused

\* thread_loop::start begins without threads, clients and descriptors.
LEMMA InitIInv == Init => IInv
  <1> SUFFICES ASSUME Init PROVE IInv
    OBVIOUS
  <1> USE DEF Init, Workers, Clients
  <1>1. TypeOK
    BY EmptySeq DEF TypeOK
  <1>2. \A c \in Clients : ~Contains(queue, c)
    BY EmptySeq DEF Contains
  <1>3. InOnePlace
    BY <1>1, <1>2, EmptySeq DEF InOnePlace
  <1>4. RegistersTaken
    BY DEF RegistersTaken, Covers
  <1>5. MainOK /\ NoForgottenClient /\ UnwatchedIsReused
    BY DEF MainOK, NoForgottenClient, UnwatchedIsReused
  <1> QED BY <1>3, <1>4, <1>5 DEF IInv

\* A step that leaves clients, descriptors and the queue alone keeps what is said
\* about them.
LEMMA SameClients ==
    ASSUME IInv, TypeOK', UNCHANGED <<accepted, fd, open, unnamed, queue, taken, io>>,
           mpc' = "push" <=> mpc = "push"
    PROVE  InOnePlace' /\ RegistersTaken' /\ UnwatchedIsReused'
  <1>1. InOnePlace'
    BY DEF IInv, InOnePlace
  <1>2. RegistersTaken'
    BY DEF IInv, RegistersTaken, Covers
  <1>3. UnwatchedIsReused'
    BY DEF IInv, UnwatchedIsReused, Newest
  <1> QED BY <1>1, <1>2, <1>3

\* start and init.
LEMMA StartStep ==
    ASSUME IInv, AddThread \/ Grown \/ PushTask \/ \E w \in Workers : StartLoop(w)
    PROVE  IInv'
  <1> USE DEF mainVars
  <1>1. TypeOK /\ MainOK /\ NoForgottenClient
    BY DEF IInv, InOnePlace
  <1>2. CASE AddThread \/ Grown \/ PushTask
    <2>1. /\ UNCHANGED <<accepted, left, fd, open, unnamed, queue, taken, count, wpc, io>>
          /\ mpc \in {"init", "grow", "run"} /\ mpc' \in {"init", "grow", "run", "listen"}
      BY <1>2 DEF AddThread, Grown, PushTask
    <2>2. threads' \in 0 .. Size /\ started' \subseteq 1 .. threads'
          /\ (mpc' \in {"grow", "run"} => threads' >= 1)
      <3>1. CASE AddThread
        BY <1>1, <3>1 DEF AddThread, TypeOK
      <3>2. CASE Grown
        BY <1>1, <3>2 DEF Grown, TypeOK, MainOK
      <3>3. CASE PushTask
        BY <1>1, <3>3 DEF PushTask, TypeOK, MainOK
      <3> QED BY <1>2, <3>1, <3>2, <3>3
    <2>3. TypeOK' /\ MainOK'
      BY <1>1, <2>1, <2>2 DEF TypeOK, MainOK
    <2>4. NoForgottenClient'
      BY <1>1, <2>1 DEF NoForgottenClient
    <2> QED BY <2>1, <2>3, <2>4, SameClients DEF IInv
  <1>3. ASSUME NEW w \in Workers, StartLoop(w)
        PROVE  IInv'
    <2>1. /\ UNCHANGED <<threads, started, accepted, left, fd, open, unnamed, queue, taken, count, io>>
          /\ wpc' = [wpc EXCEPT ![w] = "listen"] /\ wpc[w] = "off"
          /\ mpc' = mpc \/ (mpc = "grow" /\ mpc' = "crashed")
      BY <1>3 DEF StartLoop
    <2>2. wpc' \in [Workers -> {"off", "listen", "drain"}]
      BY <1>1, <2>1 DEF TypeOK
    <2>3. TypeOK'
      BY <1>1, <2>1, <2>2 DEF TypeOK
    <2>4. MainOK'
      BY <1>1, <2>1 DEF MainOK
    <2>5. NoForgottenClient'
      BY <1>1, <2>1 DEF NoForgottenClient, TypeOK
    <2> QED BY <2>1, <2>3, <2>4, <2>5, SameClients DEF IInv
  <1> QED BY <1>2, <1>3

\* Writing and reading an eventfd, and finding the queue empty: a message is
\* there until a worker that has read it drains, also when a write fails.
LEMMA WakeupStep ==
    ASSUME IInv, NEW w \in Workers, Wakeup(w) \/ ReadEventfd(w) \/ Drained(w)
    PROVE  IInv'
  <1> USE DEF mainVars
  <1>1. TypeOK /\ MainOK /\ NoForgottenClient
    BY DEF IInv, InOnePlace
  <1>2. CASE Wakeup(w)
    <2>1. Written(count[w]) \in 1 .. MaxCount
      BY <1>1 DEF Written, TypeOK
    <2>2. TypeOK' /\ MainOK'
      BY <1>1, <1>2, <2>1 DEF Wakeup, TypeOK, MainOK
    <2>3. NoForgottenClient'
      <3>1. count'[w] > 0
        BY <1>1, <1>2, <2>1 DEF Wakeup, TypeOK
      <3> QED BY <3>1 DEF NoForgottenClient
    <2>4. UNCHANGED <<accepted, fd, open, unnamed, queue, taken, io>> /\ mpc # "push" /\ mpc' # "push"
      BY <1>2 DEF Wakeup
    <2> QED BY <2>2, <2>3, <2>4, SameClients DEF IInv
  <1>3. CASE ReadEventfd(w)
    <2>1. TypeOK' /\ MainOK'
      BY <1>1, <1>3 DEF ReadEventfd, TypeOK, MainOK
    <2>2. NoForgottenClient'
      BY <1>1, <1>3 DEF ReadEventfd, NoForgottenClient, TypeOK
    <2> QED BY <1>3, <2>1, <2>2, SameClients DEF IInv, ReadEventfd
  <1>4. CASE Drained(w)
    <2>1. TypeOK' /\ MainOK'
      BY <1>1, <1>4 DEF Drained, TypeOK, MainOK
    <2>2. NoForgottenClient'
      BY <1>4 DEF Drained, NoForgottenClient
    <2> QED BY <1>4, <2>1, <2>2, SameClients DEF IInv, Drained
  <1> QED BY <1>2, <1>3, <1>4

\* The accept handler has a new client, on a number that is not open.
LEMMA AcceptStep ==
    ASSUME IInv, NEW f \in Fds, Accept(f)
    PROVE  IInv'
  <1> DEFINE n == accepted + 1
  <1>1. /\ TypeOK /\ MainOK /\ NoForgottenClient
        /\ mpc = "listen" /\ mpc' = "push" /\ f \notin open
        /\ accepted' = n /\ n \in Clients
        /\ open' = open \cup {f} /\ fd' = [fd EXCEPT ![n] = f]
        /\ UNCHANGED <<threads, started, left, unnamed, queue, taken, count, wpc, io>>
    BY DEF Accept, IInv, InOnePlace, TypeOK, Clients
  <1>2. TypeOK'
    BY <1>1 DEF TypeOK, Clients
  <1>3. taken[n] = 0 /\ ~Contains(queue, n)
    BY <1>1 DEF IInv, InOnePlace, TypeOK, Clients
  <1>4. InOnePlace'
    BY <1>1, <1>2, <1>3 DEF IInv, InOnePlace, TypeOK, Clients
  <1>5. MainOK' /\ NoForgottenClient'
    BY <1>1, <1>3 DEF MainOK, NoForgottenClient, TypeOK
  <1>6. \A c \in Clients : taken[c] # 0 => c # n
    BY <1>3
  <1>7. RegistersTaken'
    <2>1. \A c \in Clients : fd'[c] # NoFd <=> c <= n
      BY <1>1 DEF IInv, RegistersTaken, TypeOK, Clients
    <2>2. \A w \in Workers : Covers(io[w])'
      BY <1>1 DEF IInv, RegistersTaken, Covers
    <2>3. ASSUME NEW w \in Workers, NEW g \in Fds, io'[w].ev[g] # {}
          PROVE  \E c \in Clients : fd'[c] = g /\ taken'[c] = w
      <3>1. PICK c \in Clients : fd[c] = g /\ taken[c] = w
        BY <1>1, <2>3 DEF IInv, RegistersTaken
      <3>2. c # n
        BY <1>3, <3>1, 0 \notin Workers DEF Workers
      <3> QED BY <1>1, <3>1, <3>2 DEF TypeOK
    <2> QED BY <1>1, <2>1, <2>2, <2>3 DEF RegistersTaken
  <1>8. UnwatchedIsReused'
    <2> SUFFICES ASSUME NEW c \in Clients, taken[c] # 0, fd'[c] \in open' \ unnamed, Newest(c)',
                        io[taken[c]].ker[fd'[c]] # Types
                 PROVE  \E d \in Clients \ {c} : fd'[d] = fd'[c] /\ taken[d] = taken[c]
      BY <1>1 DEF UnwatchedIsReused
    <2>1. c # n /\ fd'[c] = fd[c] /\ c <= accepted /\ fd[c] # NoFd
      BY <1>1, <1>3 DEF IInv, InOnePlace, RegistersTaken, TypeOK, Clients
    <2>2. fd[c] # f
      BY <1>1, <2>1 DEF Newest, TypeOK, Clients
    <2>3. Newest(c)
      <3> SUFFICES ASSUME NEW d \in Clients, fd[d] = fd[c] PROVE d <= c
        BY DEF Newest
      <3>1. d # n
        BY <1>1, <2>1 DEF IInv, RegistersTaken, TypeOK, Clients
      <3> QED BY <1>1, <2>1, <3>1 DEF Newest, TypeOK
    <2>4. fd[c] \in open \ unnamed
      BY <1>1, <2>1, <2>2
    <2>5. PICK d \in Clients \ {c} : fd[d] = fd[c] /\ taken[d] = taken[c]
      BY <2>1, <2>3, <2>4 DEF IInv, UnwatchedIsReused
    <2> QED BY <1>1, <1>3, <2>1, <2>5 DEF TypeOK
  <1> QED BY <1>4, <1>5, <1>7, <1>8 DEF IInv

\* A descriptor without a name belongs to no client.
LEMMA AcceptUnnamedStep ==
    ASSUME IInv, NEW f \in Fds, AcceptUnnamed(f)
    PROVE  IInv'
  <1>1. /\ TypeOK /\ f \notin open
        /\ open' = open \cup {f} /\ unnamed' = unnamed \cup {f}
        /\ UNCHANGED <<mpc, threads, started, accepted, left, fd, queue, taken, count, wpc, io>>
    BY DEF AcceptUnnamed, IInv, InOnePlace, mainVars
  <1>2. TypeOK'
    BY <1>1 DEF TypeOK
  <1>3. InOnePlace' /\ MainOK' /\ NoForgottenClient'
    BY <1>1, <1>2 DEF IInv, InOnePlace, MainOK, NoForgottenClient
  <1>4. RegistersTaken'
    BY <1>1 DEF IInv, RegistersTaken, Covers
  <1>5. UnwatchedIsReused'
    BY <1>1 DEF IInv, UnwatchedIsReused, Newest
  <1> QED BY <1>3, <1>4, <1>5 DEF IInv

\* clientQueue.push: the client leaves the hands of the main thread.
LEMMA PushStep ==
    ASSUME IInv, PushClient
    PROVE  IInv'
  <1>1. /\ TypeOK /\ Distinct(queue) /\ mpc = "push" /\ mpc' = "wakeup"
        /\ accepted \in Clients /\ taken[accepted] = 0 /\ ~Contains(queue, accepted)
        /\ queue' = Append(queue, accepted)
        /\ left' \in 1 .. 2
        /\ UNCHANGED <<threads, started, accepted, fd, open, unnamed, taken, count, wpc, io>>
    BY DEF PushClient, IInv, InOnePlace, MainOK, Distinct, TypeOK, Clients
  <1>2. /\ queue' \in Seq(Clients) /\ Distinct(queue')
        /\ \A x : Contains(queue', x) <=> Contains(queue, x) \/ x = accepted
    BY <1>1, AppendContains DEF TypeOK
  <1>3. TypeOK'
    BY <1>1, <1>2 DEF TypeOK
  <1>4. InOnePlace'
    <2>1. \A c \in Clients :
              \/ c > accepted /\ taken[c] = 0 /\ ~Contains(queue', c)
              \/ Contains(queue', c) # (taken[c] # 0) /\ c <= accepted
      <3> TAKE c \in Clients
      <3>1. CASE c = accepted
        BY <1>1, <1>2, <3>1, ContainsIsBoolean DEF TypeOK, Clients
      <3>2. CASE c # accepted
        <4>1. Contains(queue', c) <=> Contains(queue, c)
          BY <1>2, <3>2
        <4>2. \/ c > accepted /\ taken[c] = 0 /\ ~Contains(queue, c)
              \/ Contains(queue, c) # (taken[c] # 0) /\ c <= accepted
          BY <3>2 DEF IInv, InOnePlace
        <4> QED BY <4>1, <4>2, ContainsIsBoolean
      <3> QED BY <3>1, <3>2
    <2> QED BY <1>1, <1>2, <1>3, <2>1 DEF InOnePlace, Distinct
  <1>5. MainOK' /\ NoForgottenClient'
    BY <1>1 DEF MainOK, NoForgottenClient
  <1>6. RegistersTaken'
    BY <1>1 DEF IInv, RegistersTaken, Covers
  <1>7. UnwatchedIsReused'
    BY <1>1 DEF IInv, UnwatchedIsReused, Newest
  <1> QED BY <1>4, <1>5, <1>6, <1>7 DEF IInv

\* clientQueue.pop, and the handlers of the client it has returned.
LEMMA PopStep ==
    ASSUME IInv, NEW w \in Workers, PopClient(w)
    PROVE  IInv'
  <1> DEFINE c == Head(queue)
             new == Registered(io[w], fd[c])
  <1>1. /\ TypeOK /\ Distinct(queue) /\ wpc[w] = "drain" /\ queue # <<>>
        /\ taken' = [taken EXCEPT ![c] = w]
        /\ io' = [io EXCEPT ![w] = new]
        /\ queue' = Tail(queue)
        /\ UNCHANGED <<mpc, threads, started, accepted, left, fd, open, unnamed, count, wpc>>
    BY DEF PopClient, Rest, IInv, InOnePlace, Distinct, mainVars
  <1>2. /\ c \in Clients /\ Contains(queue, c)
        /\ queue' \in Seq(Clients) /\ Distinct(queue')
        /\ \A x : Contains(queue', x) <=> Contains(queue, x) /\ x # c
    BY <1>1, TailContains DEF TypeOK
  <1>3. taken[c] = 0 /\ c <= accepted
    BY <1>2 DEF IInv, InOnePlace
  <1>4. fd[c] \in Fds
    BY <1>1, <1>2, <1>3 DEF IInv, RegistersTaken, TypeOK
  <1>5. io[w] \in EpollState /\ Covers(io[w])
    BY <1>1 DEF TypeOK, EpollState, IInv, RegistersTaken
  <1>6. /\ new \in EpollState
        /\ \A g \in Fds \ {fd[c]} : new.ev[g] = io[w].ev[g] /\ new.ker[g] = io[w].ker[g]
        /\ Covers(new)
        /\ fd[c] \in open /\ io[w].ev[fd[c]] = {} /\ io[w].ker[fd[c]] = {} => new.ker[fd[c]] = Types
    BY <1>4, <1>5, RegisteredProperties
  <1> HIDE DEF new
  <1>7. TypeOK'
    BY <1>1, <1>2, <1>6 DEF TypeOK, EpollState
  <1>8. w # 0
    BY DEF Workers
  <1> HIDE DEF c
  <1>9. InOnePlace'
    <2>1. ASSUME NEW d \in Clients
          PROVE  \/ d > accepted /\ taken'[d] = 0 /\ ~Contains(queue', d)
                 \/ d = accepted /\ mpc = "push" /\ taken'[d] = 0 /\ ~Contains(queue', d)
                 \/ Contains(queue', d) # (taken'[d] # 0) /\ d <= accepted
      <3>1. CASE d = c
        BY <1>1, <1>2, <1>3, <1>8, <3>1 DEF TypeOK
      <3>2. CASE d # c
        <4>1. taken'[d] = taken[d] /\ (Contains(queue', d) <=> Contains(queue, d))
          BY <1>1, <1>2, <3>2 DEF TypeOK
        <4>2. Contains(queue', d) = Contains(queue, d)
          BY <4>1, ContainsIsBoolean
        <4> QED BY <4>1, <4>2 DEF IInv, InOnePlace
      <3> QED BY <3>1, <3>2
    <2> QED BY <1>1, <1>2, <1>7, <2>1 DEF InOnePlace, Distinct
  <1>10. MainOK'
    BY <1>1, <1>2 DEF IInv, MainOK, TypeOK
  <1>11. NoForgottenClient'
    BY <1>1 DEF NoForgottenClient
  <1>12. RegistersTaken'
    <2>1. \A v \in Workers : Covers(io[v])'
      <3> SUFFICES ASSUME NEW v \in Workers PROVE Covers(io'[v])
        BY DEF Covers
      <3> QED BY <1>1, <1>6 DEF IInv, RegistersTaken, TypeOK
    <2>2. ASSUME NEW v \in Workers, NEW g \in Fds, io'[v].ev[g] # {}
          PROVE  \E d \in Clients : fd[d] = g /\ taken'[d] = v
      <3>1. CASE v = w /\ g = fd[c]
        BY <1>1, <1>2, <3>1 DEF TypeOK
      <3>2. CASE ~(v = w /\ g = fd[c])
        <4>1. io[v].ev[g] # {}
          BY <1>1, <1>6, <2>2, <3>2 DEF TypeOK
        <4>2. PICK d \in Clients : fd[d] = g /\ taken[d] = v
          BY <4>1 DEF IInv, RegistersTaken
        <4>3. d # c
          BY <1>3, <4>2 DEF Workers
        <4> QED BY <1>1, <4>2, <4>3 DEF TypeOK
      <3> QED BY <3>1, <3>2
    <2> QED BY <1>1, <2>1, <2>2 DEF IInv, RegistersTaken
  <1>13. UnwatchedIsReused'
    <2> SUFFICES ASSUME NEW d \in Clients, taken'[d] # 0, fd[d] \in open \ unnamed, Newest(d),
                        io'[taken'[d]].ker[fd[d]] # Types
                 PROVE  \E x \in Clients \ {d} : fd[x] = fd[d] /\ taken'[x] = taken'[d]
      BY <1>1 DEF UnwatchedIsReused, Newest
    <2>1. CASE d = c
      <3>1. taken'[d] = w /\ io'[w].ker[fd[c]] = new.ker[fd[c]]
        BY <1>1, <2>1 DEF TypeOK
      <3>2. ~(io[w].ev[fd[c]] = {} /\ io[w].ker[fd[c]] = {})
        BY <1>6, <2>1, <3>1
      <3>3. io[w].ev[fd[c]] # {}
        BY <1>4, <1>5, <3>2 DEF Covers
      <3>4. PICK x \in Clients : fd[x] = fd[c] /\ taken[x] = w
        BY <1>4, <3>3 DEF IInv, RegistersTaken
      <3>5. x # c
        BY <1>3, <1>8, <3>4
      <3> QED BY <1>1, <2>1, <3>1, <3>4, <3>5 DEF TypeOK
    <2>2. CASE d # c
      <3>1. taken'[d] = taken[d] /\ taken[d] \in Workers
        BY <1>1, <2>2 DEF TypeOK
      <3>2. CASE taken[d] = w /\ fd[d] = fd[c]
        BY <1>1, <1>2, <2>2, <3>1, <3>2 DEF TypeOK
      <3>3. CASE ~(taken[d] = w /\ fd[d] = fd[c])
        <4>1. io'[taken[d]].ker[fd[d]] = io[taken[d]].ker[fd[d]]
          BY <1>1, <1>6, <3>1, <3>3 DEF TypeOK
        <4>2. PICK x \in Clients \ {d} : fd[x] = fd[d] /\ taken[x] = taken[d]
          BY <3>1, <4>1 DEF IInv, UnwatchedIsReused
        <4>3. x # c
          BY <1>3, <3>1, <4>2 DEF Workers
        <4> QED BY <1>1, <3>1, <4>2, <4>3 DEF TypeOK
      <3> QED BY <3>2, <3>3
    <2> QED BY <2>1, <2>2
  <1> QED BY <1>9, <1>10, <1>11, <1>12, <1>13 DEF IInv

\* A handler closes a descriptor, of any worker: the kernel forgets it.
LEMMA HandlerStep ==
    ASSUME IInv, NEW w \in Workers, NEW f \in Fds, NEW arg \in Fds, CallHandler(w, f, arg)
    PROVE  IInv'
  <1>1. /\ TypeOK
        /\ open' = open \ {arg} /\ unnamed' = unnamed \ {arg}
        /\ io' = [v \in Workers |-> CloseEvents(io[v], arg)]
        /\ UNCHANGED <<mpc, threads, started, accepted, left, fd, queue, taken, count, wpc>>
    BY DEF CallHandler, IInv, InOnePlace, mainVars
  <1>2. ASSUME NEW v \in Workers
        PROVE  /\ io'[v] \in EpollState
               /\ io'[v].ev = io[v].ev
               /\ \A g \in Fds : io'[v].ker[g] = IF g = arg THEN {} ELSE io[v].ker[g]
    <2>1. io[v] \in EpollState
      BY <1>1 DEF TypeOK, EpollState
    <2>2. io'[v] = [io[v] EXCEPT !.ker[arg] = {}]
      BY <1>1 DEF CloseEvents
    <2> QED BY <2>1, <2>2 DEF EpollState
  <1>3. TypeOK'
    BY <1>1, <1>2 DEF TypeOK, EpollState
  <1>4. InOnePlace' /\ MainOK' /\ NoForgottenClient'
    BY <1>1, <1>3 DEF IInv, InOnePlace, MainOK, NoForgottenClient
  <1>5. RegistersTaken'
    <2>1. ASSUME NEW v \in Workers, NEW g \in Fds
          PROVE  io'[v].ker[g] \in {{}, io'[v].ev[g]}
      <3>1. io[v].ker[g] \in {{}, io[v].ev[g]}
        BY DEF IInv, RegistersTaken, Covers
      <3> QED BY <1>2, <3>1
    <2>2. ASSUME NEW v \in Workers, NEW g \in Fds, io'[v].ev[g] # {}
          PROVE  \E c \in Clients : fd[c] = g /\ taken[c] = v
      <3>1. io[v].ev[g] # {}
        BY <1>2, <2>2
      <3> QED BY <3>1 DEF IInv, RegistersTaken
    <2>3. \A c \in Clients : fd[c] # NoFd <=> c <= accepted
      BY DEF IInv, RegistersTaken
    <2>4. UNCHANGED <<fd, taken, accepted>>
      BY <1>1
    <2> QED BY <2>1, <2>2, <2>3, <2>4 DEF RegistersTaken, Covers
  <1>6. UnwatchedIsReused'
    <2> SUFFICES ASSUME NEW c \in Clients, taken[c] # 0, fd[c] \in open' \ unnamed', Newest(c),
                        io'[taken[c]].ker[fd[c]] # Types
                 PROVE  \E d \in Clients \ {c} : fd[d] = fd[c] /\ taken[d] = taken[c]
      BY <1>1 DEF UnwatchedIsReused, Newest
    <2>1. fd[c] # arg /\ fd[c] \in open \ unnamed /\ taken[c] \in Workers /\ fd[c] \in Fds
      BY <1>1 DEF TypeOK
    <2>2. io'[taken[c]].ker[fd[c]] = io[taken[c]].ker[fd[c]]
      BY <1>2, <2>1
    <2> QED BY <2>1, <2>2 DEF IInv, UnwatchedIsReused
  <1> QED BY <1>4, <1>5, <1>6 DEF IInv

\* IInv is inductive.
LEMMA NextIInv == IInv /\ [Next]_vars => IInv'
  <1> SUFFICES ASSUME IInv, [Next]_vars
               PROVE  IInv'
    OBVIOUS
  <1>1. CASE AddThread \/ Grown \/ PushTask \/ \E w \in Workers : StartLoop(w)
    BY <1>1, StartStep
  <1>2. ASSUME NEW w \in Workers, Wakeup(w) \/ ReadEventfd(w) \/ Drained(w)
        PROVE  IInv'
    BY <1>2, WakeupStep
  <1>3. ASSUME NEW f \in Fds, Accept(f) \/ AcceptUnnamed(f)
        PROVE  IInv'
    BY <1>3, AcceptStep, AcceptUnnamedStep
  <1>4. CASE PushClient
    BY <1>4, PushStep
  <1>5. ASSUME NEW w \in Workers, PopClient(w)
        PROVE  IInv'
    BY <1>5, PopStep
  <1>6. ASSUME NEW w \in Workers, NEW f \in Fds, NEW arg \in Fds, CallHandler(w, f, arg)
        PROVE  IInv'
    BY <1>6, HandlerStep
  <1>7. CASE UNCHANGED vars
    <2>1. TypeOK' /\ MainOK' /\ NoForgottenClient'
      BY <1>7 DEF vars, mainVars, IInv, InOnePlace, TypeOK, MainOK, NoForgottenClient
    <2> QED BY <1>7, <2>1, SameClients DEF vars, mainVars, IInv
  <1> QED BY <1>1, <1>2, <1>3, <1>4, <1>5, <1>6, <1>7 DEF Next, Main, Worker

\* IInv holds in every state the threads can be in.
LEMMA Invariance == Spec => []IInv
  BY InitIInv, NextIInv, PTL DEF Spec

\* No client is left in the shared queue with nobody about to look, whichever
\* workers rand() draws and however full their eventfds are.
THEOREM NoClientForgotten == Spec => []NoForgottenClient
  BY Invariance, PTL DEF IInv

\* Every accepted client is with the main thread, in the queue or with one
\* worker, although all of them pop from the same queue.
THEOREM OnePlaceEach == Spec => []InOnePlace
  BY Invariance, PTL DEF IInv

\* A worker watches the clients it has taken, unless it has had the number
\* before: the map events of epoll is never told of a close.
THEOREM UnwatchedOnlyIfReused == Spec => []UnwatchedIsReused
  BY Invariance, PTL DEF IInv

=============================================================================
