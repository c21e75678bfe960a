----------------------------- MODULE ThreadLoop ------------------------------
(***************************************************************************)
(* thread_loop: a main thread that accepts clients into one queue, wakes   *)
(* two workers chosen at random, and workers that register what they find  *)
(* in the queue with their reactor<epoll> and call the user's handler.     *)
(*                                                                         *)
(* An action is one operation on something shared: the queue, under its    *)
(* lock, an eventfd, the vector threads.  set_*_handler keeps a reference  *)
(* to its argument cinfo->fd, and the client_info is deleted before the    *)
(* handler is ever called: the handler is called with any number.          *)
(* The handler closes the descriptor it is given or leaves it.             *)
(***************************************************************************)
EXTENDS Naturals, Sequences, SequencesExt, Epoll

CONSTANTS Size,       \* number of workers
          Fds, NoFd,  \* descriptors of clients
          Types,      \* "rd" if readcb is set, "wr" if writecb is
          MaxCount,   \* wakeup messages an eventfd holds before a write fails
          MaxClients  \* clients that connect

ASSUME SizeAssumption == Size \in Nat \ {0} /\ MaxClients \in Nat /\ MaxCount \in Nat \ {0}
ASSUME FdsAssumption == NoFd \notin Fds /\ Types \subseteq RDWR

Workers == 1 .. Size
Clients == 1 .. MaxClients

VARIABLES
    mpc,       \* main thread: "init", "grow" (the vector is being moved), "run"
               \* (task i is pushed), "listen", "push", "wakeup", or "crashed"
    threads,   \* number of elements of the vector threads
    started,   \* workers whose task has been pushed
    accepted,  \* clients accepted so far; the last one is being handed over
    left,      \* wakeups still to be written
    fd,        \* client: the descriptor in its client_info
    open,      \* descriptors that are open
    unnamed,   \* those of them that accept has given up
    queue,     \* clientQueue, of clients
    taken,     \* client: the worker that has popped it, or 0
    count,     \* worker: messages in its eventfd
    wpc,       \* worker: "off", "listen" or "drain"
    io         \* worker: its epoll

mainVars == <<mpc, threads, started, accepted, left>>
vars == <<mainVars, fd, open, unnamed, queue, taken, count, wpc, io>>

Init ==
    /\ mpc = "init" /\ threads = 0 /\ started = {} /\ accepted = 0 /\ left = 0
    /\ fd = [c \in Clients |-> NoFd]
    /\ open = {} /\ unnamed = {}
    /\ queue = <<>>
    /\ taken = [c \in Clients |-> 0]
    /\ count = [w \in Workers |-> 0]
    /\ wpc = [w \in Workers |-> "off"]
    /\ io = [w \in Workers |-> [ev |-> [f \in Fds |-> {}], ker |-> [f \in Fds |-> {}]]]

-----------------------------------------------------------------------------
(* start and init: the workers are started while threads is being filled.  *)

\* threads.push_back moves the elements when they fill the block: the block
\* has room for the next power of two.
Moves == threads = 0 \/ \E k \in 0 .. threads : threads = 2 ^ k

AddThread ==
    /\ mpc = "init" /\ threads < Size
    /\ threads' = threads + 1
    /\ mpc' = IF Moves THEN "grow" ELSE "run"
    /\ UNCHANGED <<started, accepted, left, fd, open, unnamed, queue, taken, count, wpc, io>>

Grown ==
    /\ mpc = "grow"
    /\ mpc' = "run"
    /\ UNCHANGED <<threads, started, accepted, left, fd, open, unnamed, queue, taken, count, wpc, io>>

\* The task of the worker is pushed to the pool, which has a thread for each.
PushTask ==
    /\ mpc = "run"
    /\ started' = started \cup {threads}
    /\ mpc' = IF threads = Size THEN "listen" ELSE "init"
    /\ UNCHANGED <<threads, accepted, left, fd, open, unnamed, queue, taken, count, wpc, io>>

\* The task reads threads[i], and may read it out of the block that is freed.
StartLoop(w) ==
    /\ w \in started /\ wpc[w] = "off"
    /\ wpc' = [wpc EXCEPT ![w] = "listen"]
    /\ \/ UNCHANGED mpc
       \/ mpc = "grow" /\ mpc' = "crashed"
    /\ UNCHANGED <<threads, started, accepted, left, fd, open, unnamed, queue, taken, count, io>>

-----------------------------------------------------------------------------
(* The main thread: the handler of the listening socket.                   *)

Accept(f) ==
    /\ mpc = "listen" /\ accepted < MaxClients
    /\ f \notin open
    /\ accepted' = accepted + 1
    /\ open' = open \cup {f}
    /\ fd' = [fd EXCEPT ![accepted'] = f]
    /\ mpc' = "push"
    /\ UNCHANGED <<threads, started, left, unnamed, queue, taken, count, wpc, io>>

\* tcp::accept finds no name for the client: its descriptor stays open.
AcceptUnnamed(f) ==
    /\ mpc = "listen" /\ accepted < MaxClients
    /\ f \notin open
    /\ open' = open \cup {f} /\ unnamed' = unnamed \cup {f}
    /\ UNCHANGED <<mainVars, fd, queue, taken, count, wpc, io>>

PushClient ==
    /\ mpc = "push"
    /\ queue' = Append(queue, accepted)
    /\ left' = IF Size < 2 THEN Size ELSE 2
    /\ mpc' = "wakeup"
    /\ UNCHANGED <<threads, started, accepted, fd, open, unnamed, taken, count, wpc, io>>

\* Mutant of Written: a full eventfd starts again from zero.
WrittenWraps(n) == (n + 1) % (MaxCount + 1)

\* What a write makes of an eventfd: when it is full the write fails.
Written(n) == IF n < MaxCount THEN n + 1 ELSE n

\* wakeup_random: threads[rand() % size], with repetition.
Wakeup(w) ==
    /\ mpc = "wakeup"
    /\ count' = [count EXCEPT ![w] = Written(@)]
    /\ left' = left - 1
    /\ mpc' = IF left' = 0 THEN "listen" ELSE "wakeup"
    /\ UNCHANGED <<threads, started, accepted, fd, open, unnamed, queue, taken, wpc, io>>

Main ==
    \/ AddThread \/ Grown \/ PushTask
    \/ PushClient \/ \E w \in Workers : Wakeup(w)

-----------------------------------------------------------------------------
(* A worker: the handler of its eventfd, and the user's.                   *)

ReadEventfd(w) ==
    /\ wpc[w] = "listen" /\ count[w] > 0
    /\ count' = [count EXCEPT ![w] = 0]
    /\ wpc' = [wpc EXCEPT ![w] = "drain"]
    /\ UNCHANGED <<mainVars, fd, open, unnamed, queue, taken, io>>

\* Mutant of Rest: the front of the queue is copied and stays.
RestOfAll == queue

\* The queue after a pop.
Rest == Tail(queue)

\* Mutant of Registered: the handlers are set without io->add.
RegisteredNot(e, f) == e

\* set_read_handler and set_write_handler for the handlers there are; the
\* kernel refuses a descriptor that is not open.
Registered(e, f) ==
    LET rd == IF "rd" \in Types THEN AddEvent(e, f, "rd") ELSE e
    IN  CASE f \notin open -> e
          [] f \in open -> IF "wr" \in Types THEN AddEvent(rd, f, "wr") ELSE rd

PopClient(w) ==
    /\ wpc[w] = "drain" /\ queue # <<>>
    /\ taken' = [taken EXCEPT ![Head(queue)] = w]
    /\ io' = [io EXCEPT ![w] = Registered(@, fd[Head(queue)])]
    /\ queue' = Rest
    /\ UNCHANGED <<mainVars, fd, open, unnamed, count, wpc>>

\* Mutant of Drained: the handler takes one client at a time.
DrainedAfterOne(w) ==
    /\ wpc[w] = "drain"
    /\ wpc' = [wpc EXCEPT ![w] = "listen"]
    /\ UNCHANGED <<mainVars, fd, open, unnamed, queue, taken, count, io>>

Drained(w) ==
    /\ wpc[w] = "drain" /\ queue = <<>>
    /\ wpc' = [wpc EXCEPT ![w] = "listen"]
    /\ UNCHANGED <<mainVars, fd, open, unnamed, queue, taken, count, io>>

\* A descriptor the kernel watches for w is reported; the handler is called
\* with a number arg that need not be its own, and closes that.
CallHandler(w, f, arg) ==
    /\ wpc[w] = "listen"
    /\ io[w].ker[f] # {}
    /\ arg \in open
    /\ open' = open \ {arg} /\ unnamed' = unnamed \ {arg}
    /\ io' = [v \in Workers |-> CloseEvents(io[v], arg)]
    /\ UNCHANGED <<mainVars, fd, queue, taken, count, wpc>>

Worker(w) == StartLoop(w) \/ ReadEventfd(w) \/ PopClient(w) \/ Drained(w)

Next ==
    /\ mpc # "crashed"
    /\ \/ Main
       \/ \E f \in Fds : Accept(f) \/ AcceptUnnamed(f)
       \/ \E w \in Workers : Worker(w)
       \/ \E w \in Workers, f, arg \in Fds : CallHandler(w, f, arg)

Spec == Init /\ [][Next]_vars

\* The main thread finishes what it has begun, and every worker runs.
FairSpec ==
    /\ Spec
    /\ WF_vars(mpc # "crashed" /\ Main)
    /\ \A w \in Workers : WF_vars(mpc # "crashed" /\ Worker(w))

-----------------------------------------------------------------------------
(* Properties.                                                             *)

\* The variables have their types; eventfds stay within their capacity, and
\* tasks are pushed for threads that are there.
TypeOK ==
    /\ mpc \in {"init", "grow", "run", "listen", "push", "wakeup", "crashed"}
    /\ threads \in 0 .. Size /\ started \subseteq 1 .. threads
    /\ accepted \in 0 .. MaxClients /\ left \in 0 .. 2
    /\ fd \in [Clients -> Fds \cup {NoFd}] /\ unnamed \subseteq open /\ open \subseteq Fds
    /\ queue \in Seq(Clients) /\ taken \in [Clients -> Workers \cup {0}]
    /\ count \in [Workers -> 0 .. MaxCount]
    /\ wpc \in [Workers -> {"off", "listen", "drain"}]
    /\ io \in [Workers -> [ev : [Fds -> SUBSET RDWR], ker : [Fds -> SUBSET RDWR]]]

\* No client waits in the queue without somebody about to look: a worker that
\* has a message or is draining, or the main thread before its last wakeup,
\* although the wakeups go to workers drawn at random, may both go to the same
\* one and fail when its eventfd is full.
NoForgottenClient ==
    queue # <<>> =>
        \/ mpc = "wakeup"
        \/ \E w \in Workers : count[w] > 0 \/ wpc[w] = "drain"

\* A client is in the hands of the main thread, or in the queue, once, or of
\* one worker, although all workers pop from the same queue.  And the variables
\* have their types.
InOnePlace ==
    /\ TypeOK
    /\ \A i, j \in DOMAIN queue : i # j => queue[i] # queue[j]
    /\ \A c \in Clients :
          \/ c > accepted /\ taken[c] = 0 /\ ~Contains(queue, c)
          \/ c = accepted /\ mpc = "push" /\ taken[c] = 0 /\ ~Contains(queue, c)
          \/ Contains(queue, c) # (taken[c] # 0) /\ c <= accepted

\* The newest client of a descriptor.
Newest(c) == \A d \in Clients : fd[d] = fd[c] => d <= c

\* A client that a worker has taken and that is open is watched by it; only a
\* number the same worker has had before, and of which its epoll was not told
\* that it is closed, may stay unwatched.
UnwatchedIsReused ==
    \A c \in Clients :
        taken[c] # 0 /\ fd[c] \in open \ unnamed /\ Newest(c) /\ io[taken[c]].ker[fd[c]] # Types =>
            \E d \in Clients \ {c} : fd[d] = fd[c] /\ taken[d] = taken[c]

\* Every client that was accepted is taken by a worker in the end.
ClientsTaken ==
    \A c \in Clients : c <= accepted ~> (taken[c] # 0 \/ mpc = "crashed")

=============================================================================
