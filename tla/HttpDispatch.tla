---------------------------- MODULE HttpDispatch ----------------------------
(***************************************************************************)
(* The hand-over of accepted connections from the main thread of           *)
(* http_multithread_server to its http_thread workers.                     *)
(*                                                                         *)
(* The main thread accepts a connection, pushes its descriptor on the      *)
(* clientQueue of the worker whose turn it is and writes to the worker's   *)
(* eventfd.  A worker whose eventfd is readable runs its wakeup handler:   *)
(* it returns at once if its queue is empty, else it reads the eventfd     *)
(* (which resets it) and pops connections until the queue is empty.  A     *)
(* worker closes its connections in two steps, ::close(fd) and then        *)
(* release_connection(fd); in between the kernel may already hand the same *)
(* descriptor number to the main thread.                                   *)
(*                                                                         *)
(* The two sides share the queue (each operation under its own lock) and   *)
(* the eventfd (atomic in the kernel), so an action is one such operation. *)
(***************************************************************************)
EXTENDS Naturals, Sequences, FiniteSets, SequencesExt

CONSTANTS Fds,      \* descriptors the kernel can give to client connections
          NoFd,     \* the absence of a descriptor
          Size,     \* number of workers, http_multithread_server::size
          MaxCount  \* wakeup messages an eventfd holds before a write fails

ASSUME SizeAssumption == Size \in Nat \ {0}
ASSUME MaxCountAssumption == MaxCount \in Nat \ {0}
ASSUME NoFdAssumption == NoFd \notin Fds

Threads == 0 .. Size - 1

VARIABLES
    open,         \* descriptors of client connections open in the process
    leaked,       \* open descriptors nobody refers to any more
    apc,          \* main thread: "accept", "push" or "wake"
    accfd,        \* the descriptor the main thread is handing over
    index,        \* whose turn it is
    clientQueue,  \* per worker, its lock_queue
    eventfd,      \* per worker, wakeup messages in its eventfd
    wpc,          \* worker: "listen", "wakeup", "read", "drain" or "release"
    closing,      \* per worker, the descriptor closed but not yet released
    hash          \* per worker, the keys of hashConnections

acceptorVars == <<apc, accfd, index>>
vars == <<open, leaked, apc, accfd, index, clientQueue, eventfd, wpc, closing, hash>>

-----------------------------------------------------------------------------
\* http_multithread_server::start has set up the workers; no client yet.
Init ==
    /\ open = {}
    /\ leaked = {}
    /\ apc = "accept"
    /\ accfd = NoFd
    /\ index = 0
    /\ clientQueue = [t \in Threads |-> <<>>]
    /\ eventfd = [t \in Threads |-> 0]
    /\ wpc = [t \in Threads |-> "listen"]
    /\ closing = [t \in Threads |-> NoFd]
    /\ hash = [t \in Threads |-> {}]

-----------------------------------------------------------------------------
(* The main thread: the read handler of the listening socket.              *)

\* tcp::accept succeeds: the kernel picks a descriptor that is not open.
Accept(fd) ==
    /\ apc = "accept"
    /\ fd \notin open
    /\ open' = open \cup {fd}
    /\ accfd' = fd
    /\ apc' = "push"
    /\ UNCHANGED <<leaked, index, clientQueue, eventfd, wpc, closing, hash>>

\* tcp::accept reports failure because getnameinfo failed: the handler returns
\* and the accepted descriptor stays open.
AcceptUnnamed(fd) ==
    /\ apc = "accept"
    /\ fd \notin open
    /\ open' = open \cup {fd}
    /\ leaked' = leaked \cup {fd}
    /\ UNCHANGED <<acceptorVars, clientQueue, eventfd, wpc, closing, hash>>

PushClient ==
    /\ apc = "push"
    /\ clientQueue' = [clientQueue EXCEPT ![index] = Append(@, accfd)]
    /\ accfd' = NoFd
    /\ apc' = "wake"
    /\ UNCHANGED <<open, leaked, index, eventfd, wpc, closing, hash>>

\* Mutants of Wakeup: the counter is assumed unbounded; the turn never passes on.
WakeupUnbounded ==
    /\ apc = "wake"
    /\ eventfd' = [eventfd EXCEPT ![index] = @ + 1]
    /\ index' = (index + 1) % Size
    /\ apc' = "accept"
    /\ UNCHANGED <<open, leaked, accfd, clientQueue, wpc, closing, hash>>

WakeupSameThread ==
    /\ apc = "wake"
    /\ eventfd' = [eventfd EXCEPT ![index] = IF @ < MaxCount THEN @ + 1 ELSE @]
    /\ apc' = "accept"
    /\ UNCHANGED <<open, leaked, accfd, index, clientQueue, wpc, closing, hash>>

\* A write to a full eventfd fails with EAGAIN, which http_thread::wakeup ignores.
Wakeup ==
    /\ apc = "wake"
    /\ eventfd' = [eventfd EXCEPT ![index] = IF @ < MaxCount THEN @ + 1 ELSE @]
    /\ index' = (index + 1) % Size
    /\ apc' = "accept"
    /\ UNCHANGED <<open, leaked, accfd, clientQueue, wpc, closing, hash>>

-----------------------------------------------------------------------------
(* A worker.                                                               *)

Goto(t, from, to) ==
    /\ wpc[t] = from
    /\ wpc' = [wpc EXCEPT ![t] = to]

\* epoll_wait reports the eventfd; the registration is level triggered.
Listen(t) ==
    /\ Goto(t, "listen", "wakeup")
    /\ eventfd[t] > 0
    /\ UNCHANGED <<open, leaked, acceptorVars, clientQueue, eventfd, closing, hash>>

\* if (clientQueue.empty()) return;  -- the eventfd keeps its count
WakeupNothing(t) ==
    /\ Goto(t, "wakeup", "listen")
    /\ clientQueue[t] = <<>>
    /\ UNCHANGED <<open, leaked, acceptorVars, clientQueue, eventfd, closing, hash>>

WakeupClients(t) ==
    /\ Goto(t, "wakeup", "read")
    /\ clientQueue[t] # <<>>
    /\ UNCHANGED <<open, leaked, acceptorVars, clientQueue, eventfd, closing, hash>>

\* ::read(wakeupfd) resets the counter.
ReadEventfd(t) ==
    /\ Goto(t, "read", "drain")
    /\ eventfd' = [eventfd EXCEPT ![t] = 0]
    /\ UNCHANGED <<open, leaked, acceptorVars, clientQueue, closing, hash>>

\* Mutant of PopClient: one connection per wakeup instead of all of them.
PopOneClient(t) ==
    /\ Goto(t, "drain", "listen")
    /\ clientQueue[t] # <<>>
    /\ hash' = [hash EXCEPT ![t] = @ \cup {Head(clientQueue[t])}]
    /\ clientQueue' = [clientQueue EXCEPT ![t] = Tail(@)]
    /\ UNCHANGED <<open, leaked, acceptorVars, eventfd, closing>>

\* pop, make_connection and the assignment hashConnections[fd] = conn.  If the
\* key is still present the assignment destroys the connection it replaces, and
\* the destructor closes the descriptor.
PopClient(t) ==
    /\ wpc[t] = "drain"
    /\ clientQueue[t] # <<>>
    /\ LET fd == Head(clientQueue[t]) IN
          /\ hash' = [hash EXCEPT ![t] = @ \cup {fd}]
          /\ open' = IF fd \in hash[t] THEN open \ {fd} ELSE open
    /\ clientQueue' = [clientQueue EXCEPT ![t] = Tail(@)]
    /\ UNCHANGED <<leaked, acceptorVars, eventfd, wpc, closing>>

DrainDone(t) ==
    /\ Goto(t, "drain", "listen")
    /\ clientQueue[t] = <<>>
    /\ UNCHANGED <<open, leaked, acceptorVars, clientQueue, eventfd, closing, hash>>

\* Mutant of CloseFd: the descriptor is never given back to the kernel.
CloseWithoutClosing(t, fd) ==
    /\ Goto(t, "listen", "release")
    /\ fd \in hash[t]
    /\ closing' = [closing EXCEPT ![t] = fd]
    /\ UNCHANGED <<open, leaked, acceptorVars, clientQueue, eventfd, hash>>

\* http_connection::close up to ::close(fd), from the handler of a connection.
CloseFd(t, fd) ==
    /\ Goto(t, "listen", "release")
    /\ fd \in hash[t]
    /\ open' = open \ {fd}
    /\ closing' = [closing EXCEPT ![t] = fd]
    /\ UNCHANGED <<leaked, acceptorVars, clientQueue, eventfd, hash>>

\* Mutant of ReleaseConnection: the entry of hashConnections is not erased.
ReleaseKeepsEntry(t) ==
    /\ Goto(t, "release", "listen")
    /\ closing' = [closing EXCEPT ![t] = NoFd]
    /\ UNCHANGED <<open, leaked, acceptorVars, clientQueue, eventfd, hash>>

\* thread->release_connection(fd): the connection moves to the pool.
ReleaseConnection(t) ==
    /\ Goto(t, "release", "listen")
    /\ hash' = [hash EXCEPT ![t] = @ \ {closing[t]}]
    /\ closing' = [closing EXCEPT ![t] = NoFd]
    /\ UNCHANGED <<open, leaked, acceptorVars, clientQueue, eventfd>>

-----------------------------------------------------------------------------
HandOver == PushClient \/ Wakeup

WorkerStep(t) ==
    \/ Listen(t)
    \/ WakeupNothing(t)
    \/ WakeupClients(t)
    \/ ReadEventfd(t)
    \/ PopClient(t)
    \/ DrainDone(t)
    \/ ReleaseConnection(t)

Next ==
    \/ \E fd \in Fds : Accept(fd) \/ AcceptUnnamed(fd)
    \/ HandOver
    \/ \E t \in Threads : WorkerStep(t)
    \/ \E t \in Threads, fd \in Fds : CloseFd(t, fd)

Spec == Init /\ [][Next]_vars

\* Threads that can run do run.  Nothing obliges a client to connect, or a
\* connection to end.
FairSpec ==
    /\ Spec
    /\ WF_vars(HandOver)
    /\ \A t \in Threads : WF_vars(WorkerStep(t))

-----------------------------------------------------------------------------
(* Properties.                                                             *)

\* The values the variables can have; in particular an eventfd never counts
\* past the largest value the kernel lets it hold.
TypeOK ==
    /\ open \in SUBSET Fds
    /\ leaked \in SUBSET Fds
    /\ apc \in {"accept", "push", "wake"}
    /\ accfd \in Fds \cup {NoFd}
    /\ index \in Threads
    /\ clientQueue \in [Threads -> Seq(Fds)]
    /\ eventfd \in [Threads -> 0 .. MaxCount]
    /\ wpc \in [Threads -> {"listen", "wakeup", "read", "drain", "release"}]
    /\ closing \in [Threads -> Fds \cup {NoFd}]
    /\ hash \in [Threads -> SUBSET Fds]

\* No lost wakeup: while a connection waits in a worker's queue, the worker is
\* emptying the queue, or its eventfd will wake it, or the main thread is about
\* to write the eventfd.  This is why the handler may return early without
\* reading the eventfd, and why it must read it before it drains the queue.
NoForgottenClient ==
    \A t \in Threads :
        clientQueue[t] # <<>> =>
            \/ wpc[t] = "drain"
            \/ eventfd[t] > 0
            \/ apc = "wake" /\ index = t

\* The connections a worker serves: one whose descriptor is closed is not.
Serving(t) == hash[t] \ {closing[t]}

InHand == {accfd} \ {NoFd}

\* A descriptor is referred to from one place only: the main thread's local
\* variable, one position of one queue, or one worker's hashConnections.  So no
\* two threads ever operate on one descriptor, and the assignment to
\* hashConnections in the wakeup handler never replaces a live connection,
\* although ::close(fd) precedes release_connection(fd).
SingleOwner ==
    /\ \A t \in Threads :
          /\ IsInjective(clientQueue[t])
          /\ ToSet(clientQueue[t]) \cap (InHand \cup leaked) = {}
          /\ Serving(t) \cap (InHand \cup leaked) = {}
    /\ \A t, u \in Threads : ToSet(clientQueue[t]) \cap Serving(u) = {}
    /\ \A t, u \in Threads : t # u =>
          /\ ToSet(clientQueue[t]) \cap ToSet(clientQueue[u]) = {}
          /\ Serving(t) \cap Serving(u) = {}
    /\ InHand \cap leaked = {}

\* Every open descriptor is in somebody's hands and everything somebody holds
\* is open: the hand-over neither loses a connection nor operates on a closed
\* one (apart from the descriptors tcp::accept abandons, which stay open).
OpenIsHeld ==
    open = InHand \cup leaked
              \cup UNION {ToSet(clientQueue[t]) \cup Serving(t) : t \in Threads}

-----------------------------------------------------------------------------
(* Refinement.  The main thread gives a connection away when it pushes it, *)
(* and a connection is finished when its descriptor is closed.             *)

H == INSTANCE Handoff WITH
        turn    <- IF apc = "wake" THEN (index + 1) % Size ELSE index,
        pending <- clientQueue,
        serving <- [t \in Threads |-> Serving(t)]

\* The dispatch over queues and eventfds does what Handoff promises: workers
\* take turns, each adopts in order, and every connection is adopted in the end.
ImplementsHandoff == H!Spec
=============================================================================
