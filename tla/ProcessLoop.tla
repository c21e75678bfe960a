----------------------------- MODULE ProcessLoop -----------------------------
(***************************************************************************)
(* process_loop: a master that forks workers, waits for signals and ends   *)
(* its workers when it is interrupted; with wxg::signal, which dispatches  *)
(* signals to callbacks that are removed after their first use.            *)
(*                                                                         *)
(* Signals are sets of pending signals, as the kernel keeps them.  They    *)
(* are delivered at any point before sigprocmask has blocked them and in   *)
(* sigsuspend after that.  A step of the master is one system call with    *)
(* what follows it.  Workers end for reasons of their own at any time.     *)
(***************************************************************************)
EXTENDS Integers, FiniteSets

CONSTANT ProcessSize  \* size: number of workers

ASSUME ProcessSizeAssumption == ProcessSize \in Nat \ {0}

Processes == 1 .. ProcessSize
NoPid == -1

Signals == {"INT", "CHLD", "ALRM"}

VARIABLES
    pc,          \* the master: "fork", "int", "chld", "block", "top", "suspend",
                 \* "woken", and at last "exited" or "killed"
    forked,      \* workers init has come to
    pid,         \* processes[w]->pid; the pid of worker w is w
    exited,      \* processes[w]->exited
    reap, terminate, live, delay,
    callback,    \* signals that have a callback in signal::callback
    installed,   \* signals whose disposition is __handler
    blocked,     \* whether the signals are blocked, outside of sigsuspend
    pending,     \* signals sent to the master and not delivered
    armed,       \* whether the interval timer is running
    worker       \* worker: "unborn", "running", "doomed" (SIGKILL is on its
                 \* way), "zombie", "reaped"

tableVars == <<forked, pid, exited>>
flagVars == <<reap, terminate, live, delay>>
signalVars == <<callback, installed, blocked, pending, armed>>
masterVars == <<pc, tableVars, flagVars, signalVars, worker>>

MasterInit ==
    /\ pc = "fork" /\ forked = 0
    /\ pid = [w \in Processes |-> NoPid]
    /\ exited = [w \in Processes |-> FALSE]
    /\ reap = FALSE /\ terminate = FALSE /\ live = TRUE /\ delay = FALSE
    /\ callback = {} /\ installed = {} /\ blocked = FALSE
    /\ pending = {} /\ armed = FALSE
    /\ worker = [w \in Processes |-> "unborn"]

Alive == pc \notin {"exited", "killed"}

-----------------------------------------------------------------------------
(* start: init, the handlers, and the mask.                                *)

\* init: fork returns a pid, or -1, which is stored as well.
Fork ==
    /\ pc = "fork" /\ forked < ProcessSize
    /\ forked' = forked + 1
    /\ \/ /\ pid' = [pid EXCEPT ![forked'] = forked']
          /\ worker' = [worker EXCEPT ![forked'] = "running"]
       \/ UNCHANGED <<pid, worker>>
    /\ pc' = IF forked' = ProcessSize THEN "int" ELSE "fork"
    /\ UNCHANGED <<exited, flagVars, signalVars>>

\* signal::set_handler.
SetHandler(at, sig, next) ==
    /\ pc = at
    /\ pc' = next
    /\ callback' = callback \cup {sig}
    /\ installed' = installed \cup {sig}
    /\ UNCHANGED <<tableVars, flagVars, blocked, pending, armed, worker>>

SetHandlers == SetHandler("int", "INT", "chld") \/ SetHandler("chld", "CHLD", "block")

Block ==
    /\ pc = "block"
    /\ pc' = "top"
    /\ blocked' = TRUE
    /\ UNCHANGED <<tableVars, flagVars, callback, installed, pending, armed, worker>>

-----------------------------------------------------------------------------
(* Delivery.                                                               *)

\* The children the callback of SIGCHLD collects: waitpid until none is left.
Collected == {w \in Processes : worker[w] = "zombie"}

\* Mutant of Marked: the pids are not compared.
MarkedFirst(children) == IF children = {} THEN {} ELSE {1}

\* The entries it marks.
Marked(children) == {w \in Processes : pid[w] \in children}

\* signal::__handler for the signals in S: the callbacks there are, each of
\* which is then removed.  sigaction is given a null pointer by remove, so the
\* disposition stays.
Handle(S) ==
    LET called == S \cap callback
        children == IF "CHLD" \in called THEN Collected ELSE {}
    IN  /\ terminate' = (terminate \/ "INT" \in called)
        /\ reap' = (reap \/ "CHLD" \in called)
        /\ exited' = [w \in Processes |-> exited[w] \/ w \in Marked(children)]
        /\ worker' = [w \in Processes |-> IF w \in children THEN "reaped" ELSE worker[w]]
        /\ callback' = callback \ called

\* Without a handler SIGINT and SIGALRM end the process; SIGCHLD is ignored.
Deadly(S) == (S \cap {"INT", "ALRM"}) \ installed # {}

Deliver(S, next) ==
    /\ pending' = pending \ S
    /\ \/ /\ Deadly(S)
          /\ pc' = "killed"
          /\ UNCHANGED <<terminate, reap, exited, worker, callback>>
       \/ /\ ~Deadly(S)
          /\ pc' = next
          /\ Handle(S)
    /\ UNCHANGED <<forked, pid, live, delay, installed, blocked, armed>>

\* A signal arrives while the master is still starting.
Interrupted(sig) ==
    /\ Alive /\ ~blocked
    /\ sig \in pending
    /\ Deliver({sig}, pc)

\* sigsuspend returns when the signals that are pending have been handled: the
\* handler of SIGINT, the first, does not block the others.
Woken ==
    /\ pc = "suspend" /\ pending # {}
    /\ Deliver(pending, "woken")

-----------------------------------------------------------------------------
(* The loop of the master.                                                 *)

\* Mutant of Armed: the timer is never set.
ArmedNever == FALSE

\* setitimer, once delay has been set; the timer starts anew in every turn.
Armed == armed \/ delay

Suspend ==
    /\ pc = "top"
    /\ pc' = "suspend"
    /\ armed' = Armed
    /\ UNCHANGED <<tableVars, flagVars, callback, installed, blocked, pending, worker>>

\* Mutant of Remaining: a worker that is to be ended counts as gone.
RemainingRunning == {w \in Processes : pid[w] # NoPid /\ worker[w] = "running"}

\* The workers reap_children leaves in the table.
Remaining == {w \in Processes : pid[w] # NoPid /\ ~exited[w]}

\* reap_children.
Reap ==
    /\ reap' = FALSE
    /\ pid' = IF reap THEN [w \in Processes |-> IF exited[w] THEN NoPid ELSE pid[w]] ELSE pid
    /\ live' = IF reap THEN Remaining # {} ELSE live

\* signal_worker_processes(SIGKILL): for kill -1 stands for all processes there
\* are but the caller, and a worker that was reaped, or not forked, has pid -1.
Signalled == IF \E w \in Processes : pid'[w] = NoPid THEN Processes ELSE {w \in Processes : pid'[w] # NoPid}

\* What the loop does when sigsuspend has returned; quit is never set.
Manage ==
    /\ pc = "woken"
    /\ Reap
    /\ \/ /\ ~live' /\ terminate
          /\ pc' = "exited"
          /\ UNCHANGED <<delay, worker>>
       \/ /\ ~(~live' /\ terminate)
          /\ pc' = "top"
          /\ delay' = (delay \/ terminate)
          /\ worker' = [w \in Processes |->
                           IF terminate /\ w \in Signalled /\ worker[w] = "running"
                           THEN "doomed" ELSE worker[w]]
    /\ UNCHANGED <<forked, exited, terminate, signalVars>>

Master == Fork \/ SetHandlers \/ Block \/ Suspend \/ Manage \/ Woken
             \/ \E sig \in Signals : Interrupted(sig)

-----------------------------------------------------------------------------
(* The workers and the world.                                              *)

\* A worker ends, killed or not.
End(w) ==
    /\ worker[w] \in {"running", "doomed"}
    /\ worker' = [worker EXCEPT ![w] = "zombie"]
    /\ pending' = IF Alive THEN pending \cup {"CHLD"} ELSE pending
    /\ UNCHANGED <<pc, tableVars, flagVars, callback, installed, blocked, armed>>

Interrupt ==
    /\ Alive
    /\ pending' = pending \cup {"INT"}
    /\ UNCHANGED <<pc, tableVars, flagVars, callback, installed, blocked, armed, worker>>

Expire ==
    /\ Alive /\ armed
    /\ armed' = FALSE
    /\ pending' = pending \cup {"ALRM"}
    /\ UNCHANGED <<pc, tableVars, flagVars, callback, installed, blocked, worker>>

MasterNext ==
    \/ Master
    \/ \E w \in Processes : End(w)
    \/ Interrupt
    \/ Expire

MasterSpec == MasterInit /\ [][MasterNext]_masterVars

\* The master runs, the timer expires, and SIGKILL works.
FairMasterSpec ==
    /\ MasterSpec
    /\ WF_masterVars(Master)
    /\ WF_masterVars(Expire)
    /\ \A w \in Processes : WF_masterVars(worker[w] = "doomed" /\ End(w))

-----------------------------------------------------------------------------
(* Properties.                                                             *)

\* The variables have their types; only workers that have been forked are in
\* the table, callbacks are called by an installed handler, and SIGALRM is for
\* a master that ends.
MasterTypeOK ==
    /\ pc \in {"fork", "int", "chld", "block", "top", "suspend", "woken", "exited", "killed"}
    /\ forked \in 0 .. ProcessSize
    /\ pid \in [Processes -> {NoPid} \cup Processes]
    /\ \A w \in Processes : pid[w] = NoPid \/ (pid[w] = w /\ w <= forked)
    /\ exited \in [Processes -> BOOLEAN]
    /\ reap \in BOOLEAN /\ terminate \in BOOLEAN /\ live \in BOOLEAN
    /\ delay \in BOOLEAN /\ blocked \in BOOLEAN /\ armed \in BOOLEAN
    /\ armed => delay /\ terminate
    /\ callback \subseteq installed /\ installed \subseteq Signals /\ pending \subseteq Signals
    /\ worker \in [Processes -> {"unborn", "running", "doomed", "zombie", "reaped"}]

\* The master leaves no worker behind when it ends by exit(0), after waitpid has
\* returned every worker, although live is computed from a table that only one
\* SIGCHLD updates; nor when a signal ends it, which SIGALRM does, for want of a
\* handler, once SIGKILL was sent to all of them.  With one exception: a SIGINT
\* that comes while workers are forked, before set_handler, ends the master alone.
LeavesNoWorker ==
    /\ pc = "exited" => \A w \in Processes : worker[w] \in {"unborn", "reaped"}
    /\ pc = "killed" /\ "INT" \in installed => \A w \in Processes : worker[w] # "running"

\* A worker is marked as exited, and its pid forgotten, only when it was reaped:
\* the kernel may give its pid to another process from then on and not before.
\* And the variables have their types.
TableIsTrue ==
    /\ MasterTypeOK
    /\ \A w \in Processes : exited[w] \/ (pid[w] = NoPid /\ w <= forked) =>
          worker[w] \in {"unborn", "reaped"}

\* An interrupt that ends a wait of the master ends the master: the callbacks
\* that are gone after their first use do not keep it in sigsuspend.
InterruptEnds == (terminate /\ pc = "woken") ~> ~Alive

=============================================================================
