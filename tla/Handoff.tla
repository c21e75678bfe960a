------------------------------ MODULE Handoff ------------------------------
(***************************************************************************)
(* What http_multithread_server promises about the connections it accepts, *)
(* without saying how the worker threads learn of them: every connection   *)
(* is given to exactly one worker, the workers take turns, a worker adopts *)
(* its connections in the order they were given to it, and none is         *)
(* forgotten.  HttpDispatch is shown to implement this specification.      *)
(***************************************************************************)
EXTENDS Naturals, Sequences, SequencesExt

CONSTANTS Fds,   \* descriptors a client connection can have
          Size   \* number of worker threads

Threads == 0 .. Size - 1

VARIABLES turn,     \* the worker that gets the next connection
          pending,  \* per worker, the connections given and not yet adopted
          serving   \* per worker, the connections it serves

vars == <<turn, pending, serving>>

Busy == UNION {ToSet(pending[t]) \cup serving[t] : t \in Threads}

Init ==
    /\ turn = 0
    /\ pending = [t \in Threads |-> <<>>]
    /\ serving = [t \in Threads |-> {}]

\* A descriptor nobody uses names a new connection, given to the next worker.
Give(fd) ==
    /\ fd \notin Busy
    /\ pending' = [pending EXCEPT ![turn] = Append(@, fd)]
    /\ turn' = (turn + 1) % Size
    /\ UNCHANGED serving

Adopt(t) ==
    /\ pending[t] # <<>>
    /\ serving' = [serving EXCEPT ![t] = @ \cup {Head(pending[t])}]
    /\ pending' = [pending EXCEPT ![t] = Tail(@)]
    /\ UNCHANGED turn

Finish(t, fd) ==
    /\ fd \in serving[t]
    /\ serving' = [serving EXCEPT ![t] = @ \ {fd}]
    /\ UNCHANGED <<turn, pending>>

Next ==
    \/ \E fd \in Fds : Give(fd)
    \/ \E t \in Threads : Adopt(t)
    \/ \E t \in Threads, fd \in Fds : Finish(t, fd)

\* Safety alone, and safety with the promise that no connection waits forever.
SafeSpec == Init /\ [][Next]_vars
Spec == SafeSpec /\ \A t \in Threads : WF_vars(Adopt(t))
=============================================================================
