------------------------------ MODULE Proactor -------------------------------
(***************************************************************************)
(* proactor<epoll>: threads that call run() share one reactor, which one   *)
(* of them runs at a time with the mutex held, a map ops of operations     *)
(* that wait for their descriptor, and op_queue, of those that may be      *)
(* executed.                                                               *)
(*                                                                         *)
(* Operations are posted before the threads start, and by the callbacks of *)
(* other operations.  An action is one access to what threads share: the   *)
(* atomics, op_queue (with its own lock), or what the mutex protects.      *)
(* ops.empty() is read without the mutex: it is the state before or after  *)
(* a change by another thread.                                             *)
(*                                                                         *)
(* A handler of the reactor that removes itself overwrites the function    *)
(* object it is running in, and then reads its captured variables there:   *)
(* it goes on as if they were intact, or the program crashes.              *)
(***************************************************************************)
EXTENDS Naturals, Sequences, FiniteSets, SequencesExt

CONSTANTS Threads, NoThread,
          Sockets,
          Ops, NoOp,
          Target,    \* operation: its socket and "rd" or "wr"
          Follow,    \* operation: the operations its callback posts, in order
          First      \* operations posted before run

ASSUME NullAssumption == NoThread \notin Threads /\ NoOp \notin Ops
ASSUME OpsAssumption == /\ Target \in [Ops -> Sockets \X {"rd", "wr"}]
                        /\ Follow \in [Ops -> Seq(Ops)]
                        /\ First \subseteq Ops /\ IsFiniteSet(First)

\* An operation is one call of async_read, async_accept or async_write: there is
\* one place that posts it.
ASSUME PostedOnceAssumption ==
    \A p, q \in Ops : \A i \in DOMAIN Follow[p], j \in DOMAIN Follow[q] :
        /\ Follow[p][i] \notin First
        /\ Follow[p][i] = Follow[q][j] => p = q /\ i = j

Types == {"rd", "wr"}

VARIABLES
    holder,    \* who has the mutex, or NoThread
    inloop,
    ops,       \* socket: read_queue and write_queue of its descriptor_data
    present,   \* the keys of ops
    cb,        \* socket: the handlers set in the reactor, and so in epoll
    op_queue,
    ready,     \* socket: what the kernel would report
    todo,      \* events epoll has reported to the loop and it has not handled
    pc,        \* thread: where it is in run
    cur,       \* thread: its variable cb, the operation popped last
    popped,    \* thread: isPop
    posts,     \* thread: operations its callback has still to post
    runs,      \* operation: how often its callback was called
    crashed

reactorVars == <<ops, present, cb>>
threadVars == <<pc, cur, popped, posts>>
vars == <<holder, inloop, reactorVars, op_queue, ready, todo, threadVars, runs, crashed>>

Waiting(S) == [s \in Sockets |-> [type \in Types |-> SetToSeq({o \in S : Target[o] = <<s, type>>})]]

Init ==
    /\ holder = NoThread /\ inloop = FALSE
    /\ ops = Waiting(First)
    /\ present = {Target[o][1] : o \in First}
    /\ cb = [s \in Sockets |-> {type \in Types : ops[s][type] # <<>>}]
    /\ op_queue = <<>>
    /\ ready = [s \in Sockets |-> {}]
    /\ todo = {}
    /\ pc = [t \in Threads |-> "top"]
    /\ cur = [t \in Threads |-> NoOp]
    /\ popped = [t \in Threads |-> FALSE]
    /\ posts = [t \in Threads |-> <<>>]
    /\ runs = [o \in Ops |-> 0]
    /\ crashed = FALSE

\* Lock lock(mutex) goes on.
Free == holder = NoThread

Goto(t, from, to) == pc[t] = from /\ pc' = [pc EXCEPT ![t] = to]

-----------------------------------------------------------------------------
(* run: a thread decides what to do next.                                  *)

\* Mutant of Choice: the reactor comes first.
ChoiceReactor(t) ==
    IF present # {} /\ ~inloop THEN "enter" ELSE IF op_queue # <<>> THEN "pop" ELSE "wait"

\* The branch of run, by op_queue.empty(); the other two tests come later.
Choice(t) == IF op_queue # <<>> THEN "pop" ELSE "check"

Look(t) ==
    /\ Goto(t, "top", Choice(t))
    /\ UNCHANGED <<holder, inloop, reactorVars, op_queue, ready, todo, cur, popped, posts, runs, crashed>>

Check(t) ==
    /\ Goto(t, "check", IF present # {} /\ ~inloop THEN "enter" ELSE "wait")
    /\ UNCHANGED <<holder, inloop, reactorVars, op_queue, ready, todo, cur, popped, posts, runs, crashed>>

-----------------------------------------------------------------------------
(* The branch that executes an operation.                                  *)

\* pop fails when another thread was faster, and leaves the variable alone.
Pop(t) ==
    /\ Goto(t, "pop", "more")
    /\ popped' = [popped EXCEPT ![t] = op_queue # <<>>]
    /\ cur' = [cur EXCEPT ![t] = IF op_queue # <<>> THEN Head(op_queue) ELSE @]
    /\ op_queue' = IF op_queue # <<>> THEN Tail(op_queue) ELSE op_queue
    /\ UNCHANGED <<holder, inloop, reactorVars, ready, todo, posts, runs, crashed>>

\* If there is more to execute, another thread is told.
More(t) ==
    /\ Goto(t, "more", IF op_queue # <<>> THEN "notify" ELSE "call")
    /\ UNCHANGED <<holder, inloop, reactorVars, op_queue, ready, todo, cur, popped, posts, runs, crashed>>

Notify(t) ==
    /\ Free
    /\ pc[t] = "notify"
    /\ \/ /\ \A u \in Threads : pc[u] # "waiting"
          /\ pc' = [pc EXCEPT ![t] = "call"]
       \/ \E u \in Threads :
             /\ pc[u] = "waiting"
             /\ pc' = [pc EXCEPT ![t] = "call", ![u] = "wait"]
    /\ UNCHANGED <<holder, inloop, reactorVars, op_queue, ready, todo, cur, popped, posts, runs, crashed>>

\* Mutant of MayCall: whatever is in the variable is called.
MayCallAlways(t) == cur[t] # NoOp

\* if (isPop).
MayCall(t) == popped[t]

\* The callback reads or writes all, or some, there is, and begins to post.
Call(t) ==
    /\ pc[t] = "call"
    /\ MayCall(t)
    /\ pc' = [pc EXCEPT ![t] = "post"]
    /\ runs' = [runs EXCEPT ![cur[t]] = @ + 1]
    /\ posts' = [posts EXCEPT ![t] = Follow[cur[t]]]
    /\ LET s == Target[cur[t]][1] type == Target[cur[t]][2]
       IN  ready' \in {ready, [ready EXCEPT ![s] = @ \ {type}]}
    /\ UNCHANGED <<holder, inloop, reactorVars, op_queue, todo, cur, popped, crashed>>

NoCall(t) ==
    /\ ~MayCall(t)
    /\ Goto(t, "call", "top")
    /\ UNCHANGED <<holder, inloop, reactorVars, op_queue, ready, todo, cur, popped, posts, runs, crashed>>

\* Mutant of Handlers: a handler is set for a new descriptor only.
HandlersOfNew(s, type) == IF s \in present THEN cb[s] ELSE cb[s] \cup {type}

\* set_read_handler, set_write_handler.
Handlers(s, type) == cb[s] \cup {type}

\* async_read (async_accept), async_write: with the mutex, init_descriptor,
\* the push, and the handler.
Post(t) ==
    /\ Free
    /\ pc[t] = "post" /\ posts[t] # <<>>
    /\ LET o == Head(posts[t]) s == Target[o][1] type == Target[o][2]
       IN  /\ present' = present \cup {s}
           /\ ops' = [ops EXCEPT ![s][type] = Append(@, o)]
           /\ cb' = [cb EXCEPT ![s] = Handlers(s, type)]
    /\ posts' = [posts EXCEPT ![t] = Tail(@)]
    /\ UNCHANGED <<holder, inloop, op_queue, ready, todo, pc, cur, popped, runs, crashed>>

Return(t) ==
    /\ posts[t] = <<>>
    /\ Goto(t, "post", "top")
    /\ UNCHANGED <<holder, inloop, reactorVars, op_queue, ready, todo, cur, popped, posts, runs, crashed>>

-----------------------------------------------------------------------------
(* The branch that runs the reactor: loop(false, true) under the mutex.    *)

Enter(t) ==
    /\ Free
    /\ Goto(t, "enter", "loop")
    /\ holder' = t /\ inloop' = TRUE
    /\ UNCHANGED <<reactorVars, op_queue, ready, todo, cur, popped, posts, runs, crashed>>

\* Without channels loop returns at once; with channels listen waits for one.
Watched == {s \in Sockets : cb[s] # {}}
Events == {e \in Sockets \X Types : e[2] \in cb[e[1]] \cap ready[e[1]]}

Listen(t) ==
    /\ Goto(t, "loop", "dispatch")
    /\ Watched # {} => Events # {}
    /\ todo' = Events
    /\ UNCHANGED <<holder, inloop, reactorVars, op_queue, ready, cur, popped, posts, runs, crashed>>

\* Mutant of Left: the handler stays when its queue has become empty.
LeftAlways(s, type) == cb[s]

\* The handlers that are left when the first operation has been taken.
Left(s, type) == IF Tail(ops[s][type]) = <<>> THEN cb[s] \ {type} ELSE cb[s]

\* The handler for type of socket s, reading before writing.  If it removes
\* itself the rest may not be executed.
Dispatch(t, s, type) ==
    /\ pc[t] = "dispatch"
    /\ <<s, type>> \in todo
    /\ type = "wr" => <<s, "rd">> \notin todo
    /\ todo' = todo \ {<<s, type>>}
    /\ \/ /\ s \notin present \/ ops[s][type] = <<>>
          /\ UNCHANGED <<reactorVars, op_queue, crashed>>
       \/ /\ s \in present /\ ops[s][type] # <<>>
          /\ op_queue' = Append(op_queue, Head(ops[s][type]))
          /\ ops' = [ops EXCEPT ![s][type] = Tail(@)]
          /\ cb' = [cb EXCEPT ![s] = Left(s, type)]
          /\ present' = IF ops'[s]["rd"] = <<>> /\ ops'[s]["wr"] = <<>> THEN present \ {s} ELSE present
          /\ \/ UNCHANGED crashed
             \/ cb'[s] # cb[s] /\ crashed' = TRUE
    /\ UNCHANGED <<holder, inloop, ready, threadVars, runs>>

Leave(t) ==
    /\ todo = {}
    /\ Goto(t, "dispatch", "top")
    /\ holder' = NoThread /\ inloop' = FALSE
    /\ UNCHANGED <<reactorVars, op_queue, ready, todo, cur, popped, posts, runs, crashed>>

-----------------------------------------------------------------------------
(* The branch that waits: the predicate is tested with the mutex.          *)

Wait(t) ==
    /\ Free
    /\ Goto(t, "wait", IF op_queue # <<>> THEN "top" ELSE "waiting")
    /\ UNCHANGED <<holder, inloop, reactorVars, op_queue, ready, todo, cur, popped, posts, runs, crashed>>

Spurious(t) ==
    /\ ~crashed
    /\ Goto(t, "waiting", "wait")
    /\ UNCHANGED <<holder, inloop, reactorVars, op_queue, ready, todo, cur, popped, posts, runs, crashed>>

Run(t) ==
    /\ ~crashed
    /\ \/ Look(t) \/ Check(t)
       \/ Pop(t) \/ More(t) \/ Notify(t) \/ Call(t) \/ NoCall(t) \/ Post(t) \/ Return(t)
       \/ Enter(t) \/ Listen(t) \/ Leave(t) \/ \E s \in Sockets, type \in Types : Dispatch(t, s, type)
       \/ Wait(t)

\* Only epoll looks: what becomes ready before an operation waits for it makes
\* no difference.
BecomeReady(s, type) ==
    /\ ~crashed
    /\ ops[s][type] # <<>> /\ type \notin ready[s]
    /\ ready' = [ready EXCEPT ![s] = @ \cup {type}]
    /\ UNCHANGED <<holder, inloop, reactorVars, op_queue, todo, threadVars, runs, crashed>>

Next ==
    \/ \E t \in Threads : Run(t) \/ Spurious(t)
    \/ \E s \in Sockets, type \in Types : BecomeReady(s, type)

Spec == Init /\ [][Next]_vars

\* Every thread gets the mutex when it is free again and again.  Nothing makes a
\* descriptor ready: a client may never come, or never send.
FairSpec ==
    /\ Spec
    /\ \A t \in Threads : SF_vars(Run(t))

-----------------------------------------------------------------------------
(* Properties.                                                             *)

Points == {"top", "check", "pop", "more", "notify", "call", "post", "enter", "loop", "dispatch",
           "wait", "waiting"}

\* The variables have their types, and the mutex is held by the thread that runs
\* the reactor.
TypeOK ==
    /\ pc \in [Threads -> Points]
    /\ \A t \in Threads : holder = t <=> pc[t] \in {"loop", "dispatch"}
    /\ holder \in Threads \cup {NoThread} /\ inloop = (holder # NoThread)
    /\ ops \in [Sockets -> [Types -> Seq(Ops)]] /\ present \subseteq Sockets
    /\ cb \in [Sockets -> SUBSET Types] /\ ready \in [Sockets -> SUBSET Types]
    /\ op_queue \in Seq(Ops) /\ todo \subseteq Sockets \X Types
    /\ cur \in [Threads -> Ops \cup {NoOp}] /\ posts \in [Threads -> Seq(Ops)]
    /\ popped \in [Threads -> BOOLEAN] /\ runs \in [Ops -> Nat]

\* The reactor has a handler exactly for the queues that are not empty, and ops
\* an entry exactly for the sockets with one: a queue without a handler is never
\* served, a handler without a queue is called for ever.  And
\* the variables have their types.
HandlersMatch ==
    /\ TypeOK
    /\ \A s \in Sockets :
          /\ cb[s] = {type \in Types : ops[s][type] # <<>>}
          /\ s \in present <=> cb[s] # {}

\* Where an operation that was posted is: in the queue of its socket, in
\* op_queue, or with the thread that has popped and not yet called it.
Places(o) ==
    Cardinality({s \in Sockets : \E type \in Types : Contains(ops[s][type], o)})
    + Cardinality({i \in DOMAIN op_queue : op_queue[i] = o})
    + Cardinality({t \in Threads : cur[t] = o /\ popped[t] /\ pc[t] \in {"more", "notify", "call"}})

\* Every operation is executed at most once, although threads race to pop it
\* and the loser still has its last callback in its variable; and while it was
\* not executed it is in one place.
ExecutedOnce == \A o \in Ops : runs[o] + Places(o) <= 1

\* A thread waits in epoll with the mutex, and no descriptor it watches is ready.
Listening == holder # NoThread /\ pc[holder] = "loop" /\ Watched # {} /\ Events = {}

\* The thread reads op_queue next, or calls what it has popped, or is in the
\* reactor and will return from it, or asks for a mutex that is free.
OnItsWay(t) ==
    \/ pc[t] \in {"top", "pop", "more", "call", "dispatch"}
    \/ pc[t] = "post" /\ posts[t] = <<>>
    \/ pc[t] \in {"notify", "post"} /\ Free
    \/ pc[t] = "loop" /\ ~Listening

\* While an operation can be executed, not all threads have gone to wait without
\* looking into op_queue: one is on its way, with one exception.  A thread that
\* has popped an operation, or runs a callback, asks for the mutex (to notify, or
\* to post) while another waits for descriptors with it: then nothing is
\* executed until one of them is ready.
NoStrandedOp ==
    op_queue # <<>> =>
        \/ \E t \in Threads : OnItsWay(t)
        \/ Listening /\ \E t \in Threads : pc[t] \in {"notify", "post"}

\* The operation waits for its descriptor, which is not ready.
Unready(o) ==
    LET s == Target[o][1] type == Target[o][2]
    IN  Contains(ops[s][type], o) /\ type \notin ready[s]

\* Every operation that is posted is executed in the end, unless its descriptor
\* is never ready, or a thread waits for descriptors for ever and keeps
\* the mutex from the others, whatever they have to execute: no wakeup is lost.
OpsExecuted ==
    \A o \in Ops : Places(o) = 1 ~> (runs[o] = 1 \/ crashed \/ []Listening \/ []Unready(o))

=============================================================================
