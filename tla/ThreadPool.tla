----------------------------- MODULE ThreadPool -----------------------------
(***************************************************************************)
(* thread_pool: a queue of tasks, worker threads that wait on a condition  *)
(* variable, and the thread that owns the pool and calls push, resize and  *)
(* stop, one call after the other.                                         *)
(*                                                                         *)
(* A step is one operation on the queue (a lock_queue), one access to a    *)
(* flag, or what a thread does to the condition variable while it holds    *)
(* the mutex.  The mutex is not held while a task is pushed, nor while     *)
(* isDone, isStop or a flag is set.                                        *)
(*                                                                         *)
(* Workers read their flag through the vector flags, by index, without a   *)
(* lock.  The read is undefined while resize moves the vector and once it  *)
(* has cut the element off: it yields a value of Garbage, or the program   *)
(* crashes.  Of an element that resize has added and not yet filled, a     *)
(* null pointer, the read is a crash.                                      *)
(***************************************************************************)
EXTENDS Naturals, Sequences, FiniteSets, SequencesExt

CONSTANTS Tasks,
          Workers,     \* thread objects, one per thread ever started
          NoTask, Nobody,
          InitSize,    \* threads the constructor starts
          Sizes,       \* arguments of later calls of resize
          MaxResizes,  \* how many such calls
          Stops,       \* arguments of calls of stop
          Garbage      \* values of a read of a flag that is not there

ASSUME NullAssumption == NoTask \notin Tasks /\ Nobody \notin Workers
ASSUME SizeAssumption == InitSize \in Nat \ {0} /\ Sizes \subseteq Nat \ {0} /\ MaxResizes \in Nat
ASSUME ValueAssumption == Stops \subseteq BOOLEAN /\ Garbage \subseteq BOOLEAN /\ Garbage # {}

VARIABLES
    taskQue,  \* the queue
    pushed,   \* tasks pushed so far
    ran,      \* task: how often it was executed
    dropped,  \* tasks deleted by clear_task_queue
    threads,  \* the vector of threads
    flags,    \* the vector of flags; {} is a null pointer, {b} one to b
    isStop, isDone,
    mutex,    \* the worker that holds the mutex, or Nobody
    opc,      \* the owner: "idle", "notify", "moving", "spawn", "flag",
              \* "notify_all", "cut", "stopflag", "join"
    at,       \* the owner's loop index, or the size it resizes to
    resizes,  \* calls of resize so far
    wpc,      \* worker: "none", "pop", "run", "flag", "lock", "test",
              \* "decide", "wait", "exit"
    ix,       \* worker: the index i it was started with
    held,     \* worker: the task it has popped
    crashed   \* whether the program has crashed

queueVars == <<taskQue, pushed, ran, dropped>>
poolVars == <<threads, flags, isStop, isDone>>
ownerVars == <<opc, at, resizes>>
workerVars == <<wpc, ix, held>>
vars == <<queueVars, poolVars, mutex, ownerVars, workerVars, crashed>>

\* The constructor is about to resize from 0.
Init ==
    /\ taskQue = <<>> /\ pushed = {} /\ dropped = {}
    /\ ran = [t \in Tasks |-> 0]
    /\ threads = <<>> /\ flags = <<>>
    /\ isStop = FALSE /\ isDone = FALSE
    /\ mutex = Nobody
    /\ opc = "moving" /\ at = InitSize /\ resizes = 0
    /\ wpc = [w \in Workers |-> "none"]
    /\ ix = [w \in Workers |-> 0]
    /\ held = [w \in Workers |-> NoTask]
    /\ crashed = FALSE

-----------------------------------------------------------------------------
(* The condition variable.                                                 *)

Waiting == {w \in Workers : wpc[w] = "wait"}

\* Threads woken compete for the mutex, then test the predicate again.
Woken(ws) == [w \in Workers |-> IF w \in ws THEN "lock" ELSE wpc[w]]

\* Whom notify_one wakes, if anybody waits.
ToldOne == IF Waiting = {} THEN {{}} ELSE {{w} : w \in Waiting}

\* Whom notify_all wakes.  (Mutant: ToldOne.)
ToldAll == {Waiting}

\* Mutant of MayNotify: the notification does not wait for the mutex.
MayNotifyAlways == TRUE

\* Lock lock(mutex) before a notification.
MayNotify == mutex = Nobody

-----------------------------------------------------------------------------
(* push.                                                                   *)

\* Mutant of AfterPush: nobody is notified.
AfterPushIdle == "idle"

AfterPush == "notify"

Push(t) ==
    /\ opc = "idle"
    /\ t \notin pushed
    /\ taskQue' = Append(taskQue, t)
    /\ pushed' = pushed \cup {t}
    /\ opc' = AfterPush
    /\ UNCHANGED <<ran, dropped, poolVars, mutex, at, resizes, workerVars>>

NotifyOne ==
    /\ opc = "notify"
    /\ MayNotify
    /\ \E ws \in ToldOne : wpc' = Woken(ws)
    /\ opc' = "idle"
    /\ UNCHANGED <<queueVars, poolVars, mutex, at, resizes, ix, held>>

-----------------------------------------------------------------------------
(* resize.                                                                 *)

Resize(n) ==
    /\ opc = "idle" /\ resizes < MaxResizes
    /\ ~isStop /\ ~isDone
    /\ n # Len(flags)
    /\ resizes' = resizes + 1
    /\ opc' = IF n > Len(flags) THEN "moving" ELSE "flag"
    /\ at' = IF n > Len(flags) THEN n ELSE n + 1
    /\ UNCHANGED <<queueVars, poolVars, mutex, workerVars>>

\* Growing: the vectors have moved and end in null pointers.
Moved ==
    /\ opc = "moving"
    /\ flags' = flags \o [i \in 1 .. at - Len(flags) |-> {}]
    /\ opc' = "spawn" /\ at' = Len(flags) + 1
    /\ UNCHANGED <<queueVars, threads, isStop, isDone, mutex, resizes, workerVars>>

\* A new flag, then set_thread(i).
Spawn(w) ==
    /\ opc = "spawn"
    /\ wpc[w] = "none"
    /\ flags' = [flags EXCEPT ![at] = {FALSE}]
    /\ threads' = Append(threads, w)
    /\ wpc' = [wpc EXCEPT ![w] = "pop"]
    /\ ix' = [ix EXCEPT ![w] = at]
    /\ opc' = IF at = Len(flags) THEN "idle" ELSE opc
    /\ at' = at + 1
    /\ UNCHANGED <<queueVars, isStop, isDone, mutex, resizes, held>>

\* Shrinking: the threads from at on are flagged and detached.
FlagNext ==
    /\ opc = "flag"
    /\ flags' = [flags EXCEPT ![at] = {TRUE}]
    /\ opc' = IF at = Len(flags) THEN "notify_all" ELSE opc
    /\ at' = at + 1
    /\ UNCHANGED <<queueVars, threads, isStop, isDone, mutex, resizes, workerVars>>

\* The flagged suffix of the vectors is cut off.
Kept == Cardinality({i \in DOMAIN flags : flags[i] # {TRUE}})

Cut ==
    /\ opc = "cut"
    /\ threads' = SubSeq(threads, 1, Kept)
    /\ flags' = SubSeq(flags, 1, Kept)
    /\ opc' = "idle"
    /\ UNCHANGED <<queueVars, isStop, isDone, mutex, at, resizes, workerVars>>

-----------------------------------------------------------------------------
(* stop.  stop(true) lets the workers empty the queue, stop(false) does not. *)

Stop(isWait) ==
    /\ opc = "idle"
    /\ ~isStop /\ ~(isWait /\ isDone)
    /\ isDone' = (isDone \/ isWait)
    /\ isStop' = (isStop \/ ~isWait)
    /\ opc' = IF isWait THEN "notify_all" ELSE "stopflag"
    /\ at' = 1
    /\ UNCHANGED <<queueVars, threads, flags, mutex, resizes, workerVars>>

StopFlag ==
    /\ opc = "stopflag" /\ at \leq Len(flags)
    /\ flags' = [flags EXCEPT ![at] = {TRUE}]
    /\ at' = at + 1
    /\ UNCHANGED <<queueVars, threads, isStop, isDone, mutex, opc, resizes, workerVars>>

\* clear_task_queue.
Clear ==
    /\ taskQue' = <<>>
    /\ dropped' = dropped \cup ToSet(taskQue)
    /\ UNCHANGED <<pushed, ran>>

StopFlagged ==
    /\ opc = "stopflag" /\ at > Len(flags)
    /\ Clear
    /\ opc' = "notify_all"
    /\ UNCHANGED <<poolVars, mutex, at, resizes, workerVars>>

\* The same block in resize and in stop.
NotifyAll ==
    /\ opc = "notify_all"
    /\ MayNotify
    /\ \E ws \in ToldAll : wpc' = Woken(ws)
    /\ opc' = IF isStop \/ isDone THEN "join" ELSE "cut"
    /\ UNCHANGED <<queueVars, poolVars, mutex, at, resizes, ix, held>>

\* Every thread is joined; then the queue and the vectors are cleared.
Joined ==
    /\ opc = "join"
    /\ \A w \in ToSet(threads) : wpc[w] = "exit"
    /\ Clear
    /\ threads' = <<>> /\ flags' = <<>>
    /\ opc' = "idle"
    /\ UNCHANGED <<isStop, isDone, mutex, at, resizes, workerVars>>

-----------------------------------------------------------------------------
(* A worker thread.                                                        *)

\* this->flags[i] is not in the vector.
Dangling(w) == opc = "moving" \/ ix[w] > Len(flags)

\* The values *this->flags[i] may have: none if it is a null pointer.
FlagRead(w) == IF Dangling(w) THEN Garbage ELSE flags[ix[w]]

\* taskQue.pop(t), and where it leads if there is a task or none.
Pop(w, found, empty) ==
    IF taskQue = <<>>
    THEN /\ wpc' = [wpc EXCEPT ![w] = empty]
         /\ UNCHANGED <<taskQue, held>>
    ELSE /\ wpc' = [wpc EXCEPT ![w] = found]
         /\ held' = [held EXCEPT ![w] = Head(taskQue)]
         /\ taskQue' = Tail(taskQue)

PopTask(w) ==
    /\ wpc[w] = "pop"
    /\ Pop(w, "run", "lock")
    /\ UNCHANGED <<pushed, ran, dropped, poolVars, mutex, ownerVars, ix>>

RunTask(w) ==
    /\ wpc[w] = "run"
    /\ ran' = [ran EXCEPT ![held[w]] = @ + 1]
    /\ held' = [held EXCEPT ![w] = NoTask]
    /\ wpc' = [wpc EXCEPT ![w] = "flag"]
    /\ UNCHANGED <<taskQue, pushed, dropped, poolVars, mutex, ownerVars, ix>>

AfterTask(w) ==
    /\ wpc[w] = "flag"
    /\ \E flag \in FlagRead(w) : wpc' = [wpc EXCEPT ![w] = IF flag THEN "exit" ELSE "pop"]
    /\ UNCHANGED <<queueVars, poolVars, mutex, ownerVars, ix, held>>

Acquire(w) ==
    /\ wpc[w] = "lock"
    /\ mutex = Nobody
    /\ mutex' = w
    /\ wpc' = [wpc EXCEPT ![w] = "test"]
    /\ UNCHANGED <<queueVars, poolVars, ownerVars, ix, held>>

\* Mutant of WithTask: the thread leaves when it is told to stop.
WithTaskLeaves == IF isDone THEN "exit" ELSE "run"

\* Where a task found by the predicate leads.
WithTask == "run"

\* The first half of the predicate: a task found ends the wait.
Test(w) ==
    /\ wpc[w] = "test"
    /\ Pop(w, WithTask, "decide")
    /\ mutex' = IF taskQue = <<>> THEN w ELSE Nobody
    /\ UNCHANGED <<pushed, ran, dropped, poolVars, ownerVars, ix>>

\* The second half: without a task the thread ends or waits.  The flag is read
\* only if the pool is not done.
Decide(w) ==
    /\ wpc[w] = "decide"
    /\ \E flag \in IF isDone THEN {TRUE} ELSE FlagRead(w) :
          wpc' = [wpc EXCEPT ![w] = IF flag THEN "exit" ELSE "wait"]
    /\ mutex' = Nobody
    /\ UNCHANGED <<queueVars, poolVars, ownerVars, ix, held>>

\* A flag is read that is not there, or not yet.
Crash(w) ==
    /\ wpc[w] = "flag" \/ (wpc[w] = "decide" /\ ~isDone)
    /\ ~Dangling(w) => flags[ix[w]] = {}
    /\ crashed' = TRUE
    /\ UNCHANGED <<queueVars, poolVars, mutex, ownerVars, workerVars>>

SpuriousWakeup(w) ==
    /\ wpc[w] = "wait"
    /\ wpc' = Woken({w})
    /\ UNCHANGED <<queueVars, poolVars, mutex, ownerVars, ix, held>>

-----------------------------------------------------------------------------
Goes == ~crashed /\ UNCHANGED crashed

OwnerStep ==
    /\ Goes
    /\ \/ NotifyOne
       \/ Moved
       \/ \E w \in Workers : Spawn(w)
       \/ FlagNext
       \/ Cut
       \/ StopFlag
       \/ StopFlagged
       \/ NotifyAll
       \/ Joined

OwnerCall ==
    /\ Goes
    /\ \/ \E t \in Tasks : Push(t)
       \/ \E n \in Sizes : Resize(n)
       \/ \E isWait \in Stops : Stop(isWait)

WorkerStep(w) ==
    /\ Goes
    /\ PopTask(w) \/ RunTask(w) \/ AfterTask(w) \/ Acquire(w) \/ Test(w) \/ Decide(w)

Next ==
    \/ OwnerCall
    \/ OwnerStep
    \/ \E w \in Workers : WorkerStep(w) \/ (Goes /\ SpuriousWakeup(w)) \/ (~crashed /\ Crash(w))

Spec == Init /\ [][Next]_vars

\* Threads run, tasks end, and the mutex is granted in the end to a thread that
\* asks for it whenever it is free again and again.
FairSpec ==
    /\ Spec
    /\ SF_vars(OwnerStep)
    /\ \A w \in Workers : SF_vars(WorkerStep(w))

-----------------------------------------------------------------------------
(* Properties.                                                             *)

\* The values the variables can have; the loops of resize and stop never leave
\* the vectors, and the two vectors keep the same length.
TypeOK ==
    /\ taskQue \in Seq(Tasks)
    /\ pushed \subseteq Tasks /\ dropped \subseteq Tasks
    /\ ran \in [Tasks -> Nat]
    /\ threads \in Seq(Workers)
    /\ flags \in Seq({{}, {TRUE}, {FALSE}})
    /\ isStop \in BOOLEAN /\ isDone \in BOOLEAN
    /\ mutex \in Workers \cup {Nobody}
    /\ opc \in {"idle", "notify", "moving", "spawn", "flag", "notify_all", "cut",
                "stopflag", "join"}
    /\ at \in Nat \ {0} /\ resizes \in 0 .. MaxResizes
    /\ opc \in {"spawn", "flag"} => at \leq Len(flags)
    /\ opc = "moving" => at > Len(flags)
    /\ Len(threads) = IF opc = "spawn" THEN at - 1 ELSE Len(flags)
    /\ wpc \in [Workers -> {"none", "pop", "run", "flag", "lock", "test", "decide",
                            "wait", "exit"}]
    /\ ix \in [Workers -> Nat]
    /\ held \in [Workers -> Tasks \cup {NoTask}]
    /\ crashed \in BOOLEAN

Occurrences(t) == Cardinality({i \in DOMAIN taskQue : taskQue[i] = t})
                     + Cardinality({w \in Workers : held[w] = t /\ wpc[w] # "exit"})
                     + ran[t] + (IF t \in dropped THEN 1 ELSE 0)

\* A task pushed is in the queue, or in one worker's hands, or executed once, or
\* deleted by stop: none is executed twice, none is lost between the queue and a
\* worker that is told to end, in whatever way resize and stop interleave.
\* And the variables have their types.
TaskConserved ==
    /\ TypeOK
    /\ \A t \in Tasks : Occurrences(t) = IF t \in pushed THEN 1 ELSE 0

\* No lost wakeup: when tasks are queued and a worker waits, another worker is
\* on its way to the queue, or a notification is still to come.  It rests on
\* push taking the mutex although the queue has a lock of its own.
NoStrandedTask ==
    taskQue # <<>> /\ Waiting # {} =>
        \/ opc \in {"notify", "notify_all"}
        \/ \E w \in Workers : wpc[w] \in {"pop", "run", "flag", "lock", "test"}

\* Every task pushed before the pool has stopped is executed in the end, or
\* deleted by stop(false): stop(true) deletes none.  Unless a thread that
\* outlives its place in the vector of flags crashes the program.
TasksFinish ==
    \A t \in Tasks :
        t \in pushed /\ threads # <<>> ~> ran[t] = 1 \/ (isStop /\ t \in dropped) \/ crashed

Stopped == opc = "idle" /\ threads = <<>>

\* stop returns: the workers that wait learn of it and all are joined, unless the
\* program crashes.
StopReturns == (isStop \/ isDone) ~> (Stopped \/ crashed)
=============================================================================
