--------------------------- MODULE ProactorProofs ----------------------------
(***************************************************************************)
(* Proofs about Proactor for every number of threads, sockets and          *)
(* operations, and whatever operations the callbacks post.                 *)
(***************************************************************************)
EXTENDS Proactor, FiniteSetTheorems, SequenceTheorems, TLAPS

Distinct(s) == \A i, j \in DOMAIN s : i # j => s[i] # s[j]

-----------------------------------------------------------------------------
(* Queues without duplicates, and sets with at most one element.           *)

\* An operation is in a queue or not.
LEMMA ContainsIsBoolean == \A s, x : Contains(s, x) \in BOOLEAN
  BY DEF Contains

\* push adds an operation that the queue did not have.
LEMMA AppendContains ==
    ASSUME NEW S, NEW s \in Seq(S), NEW e \in S
    PROVE  /\ Append(s, e) \in Seq(S)
           /\ \A x : Contains(Append(s, e), x) <=> Contains(s, x) \/ x = e
           /\ Distinct(s) /\ ~Contains(s, e) => Distinct(Append(s, e))
  <1>1. /\ Append(s, e) \in Seq(S)
        /\ Len(Append(s, e)) = Len(s) + 1
        /\ \A i \in 1 .. Len(s) : Append(s, e)[i] = s[i]
        /\ Append(s, e)[Len(s) + 1] = e
    BY AppendProperties
  <1>2. /\ DOMAIN s = 1 .. Len(s) /\ Len(s) \in Nat
        /\ DOMAIN Append(s, e) = 1 .. Len(s) + 1
    BY <1>1, LenProperties
  <1>3. \A x : Contains(Append(s, e), x) <=> Contains(s, x) \/ x = e
    BY <1>1, <1>2 DEF Contains
  <1>4. Distinct(s) /\ ~Contains(s, e) => Distinct(Append(s, e))
    BY <1>1, <1>2 DEF Contains, Distinct
  <1> QED BY <1>1, <1>3, <1>4

\* pop takes the first one out, for good.
LEMMA TailContains ==
    ASSUME NEW S, NEW s \in Seq(S), s # <<>>, Distinct(s)
    PROVE  /\ Head(s) \in S /\ Contains(s, Head(s))
           /\ Tail(s) \in Seq(S) /\ Distinct(Tail(s))
           /\ \A x : Contains(Tail(s), x) <=> Contains(s, x) /\ x # Head(s)
  <1>1. /\ Head(s) \in S
        /\ Tail(s) \in Seq(S)
        /\ Len(Tail(s)) = Len(s) - 1
        /\ \A i \in 1 .. Len(Tail(s)) : Tail(s)[i] = s[i + 1]
    BY HeadTailProperties
  <1>2. /\ DOMAIN s = 1 .. Len(s)
        /\ Len(s) \in Nat \ {0}
        /\ DOMAIN Tail(s) = 1 .. Len(s) - 1
    BY <1>1, LenProperties, EmptySeq
  <1>3. Head(s) = s[1] /\ Contains(s, Head(s))
    BY <1>2 DEF Contains
  <1>4. Distinct(Tail(s))
    BY <1>1, <1>2 DEF Distinct
  <1>5. ASSUME NEW x, Contains(Tail(s), x)
        PROVE  Contains(s, x) /\ x # Head(s)
    <2>1. PICK i \in 1 .. Len(s) - 1 : Tail(s)[i] = x
      BY <1>1, <1>5 DEF Contains
    <2>2. i + 1 \in 1 .. Len(s) /\ s[i + 1] = x /\ i + 1 # 1
      BY <1>1, <1>2, <2>1
    <2> QED BY <1>2, <1>3, <2>2 DEF Contains, Distinct
  <1>6. ASSUME NEW x, Contains(s, x), x # Head(s)
        PROVE  Contains(Tail(s), x)
    <2>1. PICK i \in 1 .. Len(s) : s[i] = x
      BY <1>6 DEF Contains
    <2>2. i - 1 \in 1 .. Len(s) - 1 /\ (i - 1) + 1 = i
      BY <1>2, <1>3, <1>6, <2>1
    <2>3. Tail(s)[i - 1] = x
      BY <1>1, <2>1, <2>2
    <2> QED BY <1>1, <2>2, <2>3 DEF Contains
  <1> QED BY <1>1, <1>3, <1>4, <1>5, <1>6

\* A sequence is empty when it contains nothing.
LEMMA EmptyContains ==
    ASSUME NEW S, NEW s \in Seq(S)
    PROVE  s = <<>> <=> \A x \in S : ~Contains(s, x)
  <1>1. ASSUME s # <<>>
        PROVE  \E x \in S : Contains(s, x)
    <2>1. Len(s) \in Nat \ {0} /\ \A i \in 1 .. Len(s) : s[i] \in S
      BY <1>1, EmptySeq, LenProperties, ElementOfSeq
    <2>2. 1 \in 1 .. Len(s)
      BY <2>1
    <2> QED BY <2>1, <2>2 DEF Contains
  <1>2. ASSUME NEW x \in S, s = <<>>, Contains(s, x)
        PROVE  FALSE
    BY <1>2 DEF Contains
  <1> QED BY <1>1, <1>2

\* The order in which operations were posted before run is left open.
LEMMA SetToSeqProperties ==
    ASSUME NEW S, IsFiniteSet(S)
    PROVE  /\ SetToSeq(S) \in Seq(S) /\ Distinct(SetToSeq(S))
           /\ \A x : Contains(SetToSeq(S), x) <=> x \in S
  <1> DEFINE n == Cardinality(S)
             f == SetToSeq(S)
  <1>1. n \in Nat /\ \E g \in Bijection(1 .. n, S) : TRUE
    BY FS_CardinalityType DEF ExistsBijection
  <1>2. \E g \in [1 .. n -> S] : IsInjective(g)
    BY <1>1 DEF Bijection, Injection, IsInjective
  <1>3. f \in [1 .. n -> S] /\ IsInjective(f)
    BY <1>2 DEF SetToSeq
  <1>4. f \in Injection(1 .. n, S)
    BY <1>3 DEF Injection
  <1>5. f \in Surjection(1 .. n, S)
    <2>1. IsFiniteSet(1 .. n) /\ Cardinality(1 .. n) = n
      BY <1>1, FS_Interval
    <2> HIDE DEF f
    <2> QED BY <1>4, <2>1, FS_Injection
  <1> HIDE DEF f
  <1>6. f \in Seq(S) /\ Len(f) = n /\ DOMAIN f = 1 .. n
    BY <1>1, <1>3
  <1>7. Distinct(f)
    BY <1>3, <1>6 DEF Distinct, IsInjective
  <1>8. \A x : Contains(f, x) <=> x \in S
    BY <1>3, <1>5, <1>6 DEF Surjection, Contains
  <1> QED BY <1>6, <1>7, <1>8 DEF f

\* A set without two elements counts as one or none.
LEMMA AtMostOne ==
    ASSUME NEW S, \A x, y \in S : x = y
    PROVE  Cardinality(S) \in {0, 1} /\ (S = {} => Cardinality(S) = 0)
  <1>1. CASE S = {}
    BY <1>1, FS_EmptySet
  <1>2. CASE S # {}
    <2>1. PICK x \in S : S = {x}
      BY <1>2
    <2> QED BY <1>2, <2>1, FS_Singleton
  <1> QED BY <1>1, <1>2

-----------------------------------------------------------------------------
(* The invariant.                                                          *)

\* The places an operation can be in: waiting for its socket, in op_queue, in
\* the variable of a thread that will call it, in a callback that will post it.
Waits(o) == Contains(ops[Target[o][1]][Target[o][2]], o)
Queued(o) == Contains(op_queue, o)
Held(t, o) == cur[t] = o /\ popped[t] /\ pc[t] \in {"more", "notify", "call"}
Promised(t, o) == Contains(posts[t], o)

\* The callback that posts the operation has been called.
Posted(o) == o \in First \/ \E p \in Ops : Contains(Follow[p], o) /\ runs[p] # 0

\* An operation is in one place or has been executed, and is nowhere before the
\* callback that posts it has been called.
Once(o) ==
    /\ runs[o] \in {0, 1}
    /\ runs[o] = 1 => ~Waits(o) /\ ~Queued(o)
    /\ ~(Waits(o) /\ Queued(o))
    /\ \A t \in Threads :
          Held(t, o) \/ Promised(t, o) => ~Waits(o) /\ ~Queued(o) /\ runs[o] = 0
    /\ \A t, u \in Threads :
          /\ ~(Held(t, o) /\ Promised(u, o))
          /\ Held(t, o) /\ Held(u, o) => t = u
          /\ Promised(t, o) /\ Promised(u, o) => t = u
    /\ Waits(o) \/ Queued(o) \/ runs[o] = 1 => Posted(o)
    /\ \A t \in Threads : Held(t, o) \/ Promised(t, o) => Posted(o)

OnePlace == \A o \in Ops : Once(o)

\* No queue has an operation twice, and operations wait for their own sockets.
Queues ==
    /\ Distinct(op_queue)
    /\ \A t \in Threads : Distinct(posts[t])
    /\ \A s \in Sockets, type \in Types :
          /\ Distinct(ops[s][type])
          /\ \A o \in Ops : Contains(ops[s][type], o) => Target[o] = <<s, type>>

\* A thread calls an operation it has popped, and posts while it is in the call.
Threading ==
    \A t \in Threads : /\ popped[t] => cur[t] \in Ops
                       /\ posts[t] # <<>> => pc[t] = "post"

\* A thread that has seen op_queue empty is not the one that will look again.
Underway ==
    op_queue # <<>> => \E t \in Threads : pc[t] \notin {"waiting", "wait", "enter", "loop", "check"}

IInv == HandlersMatch /\ OnePlace /\ Queues /\ Threading /\ Underway

-----------------------------------------------------------------------------
(* The invariant holds initially.                                          *)

\* An operation is for a socket and a type of event.
LEMMA TargetIsSocket ==
    ASSUME NEW o \in Ops
    PROVE  /\ Target[o][1] \in Sockets /\ Target[o][2] \in Types
           /\ Target[o] = <<Target[o][1], Target[o][2]>>
  BY OpsAssumption DEF Types

\* The first operations are the ones that are somewhere at the start.
LEMMA InitIInv == Init => IInv
  <1> SUFFICES ASSUME Init
               PROVE  IInv
    OBVIOUS
  <1> DEFINE Of(s, type) == {o \in First : Target[o] = <<s, type>>}
  <1>1. ASSUME NEW s \in Sockets, NEW type \in Types
        PROVE  /\ ops[s][type] \in Seq(Ops) /\ Distinct(ops[s][type])
               /\ \A o : Contains(ops[s][type], o) <=> o \in Of(s, type)
    <2>1. ops[s][type] = SetToSeq(Of(s, type))
      BY DEF Init, Waiting
    <2>2. IsFiniteSet(Of(s, type)) /\ Of(s, type) \subseteq Ops
      BY OpsAssumption, FS_Subset
    <2> HIDE DEF Of
    <2>3. /\ SetToSeq(Of(s, type)) \in Seq(Of(s, type)) /\ Distinct(SetToSeq(Of(s, type)))
          /\ \A o : Contains(SetToSeq(Of(s, type)), o) <=> o \in Of(s, type)
      BY <2>2, SetToSeqProperties
    <2>4. Seq(Of(s, type)) \subseteq Seq(Ops)
      BY <2>2
    <2> QED BY <2>1, <2>3, <2>4
  <1>2. ops \in [Sockets -> [Types -> Seq(Ops)]]
    <2>1. ops = [s \in Sockets |-> [type \in Types |-> ops[s][type]]]
      BY DEF Init, Waiting
    <2> QED BY <1>1, <2>1
  <1>3. cb = [s \in Sockets |-> {type \in Types : ops[s][type] # <<>>}]
    BY DEF Init
  <1>4. TypeOK
    <2>1. inloop = (holder # NoThread)
      BY DEF Init
    <2>2. present \subseteq Sockets
      BY TargetIsSocket, OpsAssumption DEF Init
    <2>3. cb \in [Sockets -> SUBSET Types]
      BY <1>3
    <2>4. pc \in [Threads -> Points] /\ \A t \in Threads : holder = t <=> pc[t] \in {"loop", "dispatch"}
      BY NullAssumption DEF Init, Points
    <2>5. /\ ready \in [Sockets -> SUBSET Types]
          /\ op_queue \in Seq(Ops) /\ todo \subseteq Sockets \X Types
          /\ cur \in [Threads -> Ops \cup {NoOp}] /\ posts \in [Threads -> Seq(Ops)]
          /\ popped \in [Threads -> BOOLEAN] /\ runs \in [Ops -> Nat]
          /\ holder \in Threads \cup {NoThread}
      BY DEF Init
    <2> QED BY <1>2, <2>1, <2>2, <2>3, <2>4, <2>5 DEF TypeOK
  <1>5. HandlersMatch
    <2> SUFFICES ASSUME NEW s \in Sockets
                 PROVE  s \in present <=> cb[s] # {}
      BY <1>3, <1>4 DEF HandlersMatch
    <2>1. ASSUME s \in present
          PROVE  cb[s] # {}
      <3>1. PICK o \in First : s = Target[o][1]
        BY <2>1 DEF Init
      <3>2. o \in Ops /\ Target[o][2] \in Types /\ o \in Of(s, Target[o][2])
        BY <3>1, TargetIsSocket, OpsAssumption
      <3>3. Contains(ops[s][Target[o][2]], o)
        BY <1>1, <3>2
      <3>4. ops[s][Target[o][2]] # <<>>
        BY <1>1, <3>2, <3>3, EmptyContains
      <3> QED BY <1>3, <3>2, <3>4
    <2>2. ASSUME cb[s] # {}
          PROVE  s \in present
      <3>1. PICK type \in Types : ops[s][type] # <<>>
        BY <1>3, <2>2
      <3>2. PICK o \in Ops : Contains(ops[s][type], o)
        BY <1>1, <3>1, EmptyContains
      <3>3. o \in First /\ Target[o] = <<s, type>>
        BY <1>1, <3>2
      <3> QED BY <3>3 DEF Init
    <2> QED BY <2>1, <2>2
  <1>6. OnePlace
    <2> SUFFICES ASSUME NEW o \in Ops
                 PROVE  Once(o)
      BY DEF OnePlace
    <2>1. /\ runs[o] = 0 /\ ~Queued(o)
          /\ \A t \in Threads : ~Held(t, o) /\ ~Promised(t, o)
      BY DEF Init, Queued, Held, Promised, Contains
    <2>2. Waits(o) => o \in First
      BY <1>1, TargetIsSocket DEF Waits
    <2> QED BY <2>1, <2>2 DEF Once, Posted
  <1>7. Queues
    <2>1. Distinct(op_queue) /\ \A t \in Threads : Distinct(posts[t])
      BY DEF Init, Distinct
    <2> QED BY <1>1, <2>1 DEF Queues
  <1>8. Threading /\ Underway
    BY DEF Init, Threading, Underway
  <1> QED BY <1>5, <1>6, <1>7, <1>8 DEF IInv

-----------------------------------------------------------------------------
(* Steps that leave a part of the state alone.                             *)

\* The thread that holds the mutex keeps it and no other gets it.
LEMMA SameMutex ==
    ASSUME TypeOK, NEW t \in Threads, NEW to \in Points, pc' = [pc EXCEPT ![t] = to],
           pc[t] \in {"loop", "dispatch"} <=> to \in {"loop", "dispatch"},
           UNCHANGED <<holder, inloop>>
    PROVE  /\ pc' \in [Threads -> Points]
           /\ \A u \in Threads : holder' = u <=> pc'[u] \in {"loop", "dispatch"}
           /\ holder' \in Threads \cup {NoThread} /\ inloop' = (holder' # NoThread)
  <1>1. inloop' = (holder' # NoThread) /\ holder' \in Threads \cup {NoThread}
    BY DEF TypeOK
  <1>2. pc' \in [Threads -> Points]
    BY DEF TypeOK
  <1>3. \A u \in Threads : holder' = u <=> pc'[u] \in {"loop", "dispatch"}
    BY DEF TypeOK
  <1> QED BY <1>1, <1>2, <1>3

\* An operation that gets to no new place is where it was, or executed as often.
LEMMA Stays ==
    ASSUME NEW o \in Ops, Once(o),
           Waits(o)' => Waits(o), Queued(o)' => Queued(o),
           \A t \in Threads : Held(t, o)' => Held(t, o),
           \A t \in Threads : Promised(t, o)' => Promised(t, o),
           runs'[o] = runs[o], Posted(o) => Posted(o)'
    PROVE  Once(o)'
  BY DEF Once

\* One thread goes on, and no operation is taken or passed on.
LEMMA GoStep ==
    ASSUME IInv, NEW t \in Threads, NEW to \in Points, pc' = [pc EXCEPT ![t] = to],
           UNCHANGED <<reactorVars, op_queue, cur, popped, posts, runs>>,
           to \in {"more", "notify", "call"} => pc[t] \in {"more", "notify", "call"},
           posts[t] # <<>> => to = "post",
           op_queue # <<>> /\ to \in {"waiting", "wait", "enter", "loop", "check"} =>
               pc[t] \in {"waiting", "wait", "enter", "loop", "check"},
           TypeOK'
    PROVE  IInv'
  <1>1. TypeOK /\ UNCHANGED <<ops, present, cb, op_queue, cur, popped, posts, runs>>
    BY DEF IInv, HandlersMatch, reactorVars
  <1>2. pc'[t] = to /\ \A u \in Threads \ {t} : pc'[u] = pc[u]
    BY <1>1 DEF TypeOK
  <1>3. HandlersMatch'
    BY <1>1 DEF IInv, HandlersMatch
  <1>4. OnePlace'
    <2> SUFFICES ASSUME NEW o \in Ops
                 PROVE  Once(o)'
      BY DEF OnePlace
    <2>1. Once(o)
      BY DEF IInv, OnePlace
    <2>2. \A u \in Threads : Held(u, o)' => Held(u, o)
      BY <1>1, <1>2 DEF Held
    <2>3. /\ Waits(o)' => Waits(o)
          /\ Queued(o)' => Queued(o)
          /\ \A u \in Threads : Promised(u, o)' => Promised(u, o)
          /\ runs'[o] = runs[o]
          /\ Posted(o) => Posted(o)'
      BY <1>1 DEF Waits, Queued, Promised, Posted
    <2> QED BY <2>1, <2>2, <2>3, Stays
  <1>5. Queues'
    BY <1>1 DEF IInv, Queues
  <1>6. Threading'
    BY <1>1, <1>2 DEF IInv, Threading
  <1>7. Underway'
    BY <1>1, <1>2 DEF IInv, Underway
  <1> QED BY <1>3, <1>4, <1>5, <1>6, <1>7 DEF IInv

-----------------------------------------------------------------------------
(* Every action preserves the invariant.                                   *)

\* Steps of run() that look, wait or return preserve the invariant.
LEMMA LookStep ==
    ASSUME IInv, NEW t \in Threads, Look(t) \/ Check(t) \/ More(t) \/ NoCall(t) \/ Return(t) \/ Wait(t) \/ Spurious(t)
    PROVE  IInv'
  <1>1. /\ TypeOK
        /\ UNCHANGED <<holder, inloop, reactorVars, op_queue, ready, todo, cur, popped, posts, runs>>
    BY DEF IInv, HandlersMatch, Look, Check, More, NoCall, Return, Wait, Spurious
  <1>2. PICK to \in Points :
            /\ pc' = [pc EXCEPT ![t] = to]
            /\ pc[t] \notin {"loop", "dispatch"} /\ to \notin {"loop", "dispatch"}
            /\ to \in {"more", "notify", "call"} => pc[t] \in {"more", "notify", "call"}
            /\ posts[t] # <<>> => pc[t] # "post"
            /\ op_queue # <<>> /\ to \in {"waiting", "wait", "enter", "loop", "check"} =>
                   pc[t] \in {"waiting", "wait", "enter", "loop", "check"}
    <2>1. CASE Look(t)
      BY <2>1 DEF Look, Goto, Choice, Points
    <2>2. CASE Check(t)
      BY <2>2 DEF Check, Goto, Points
    <2>3. CASE More(t)
      BY <2>3 DEF More, Goto, Points
    <2>4. CASE NoCall(t) \/ Return(t)
      BY <2>4 DEF NoCall, Return, Goto, Points
    <2>5. CASE Wait(t) \/ Spurious(t)
      BY <2>5 DEF Wait, Spurious, Goto, Points
    <2> QED BY <2>1, <2>2, <2>3, <2>4, <2>5
  <1>3. TypeOK'
    <2>1. /\ pc' \in [Threads -> Points]
          /\ \A u \in Threads : holder' = u <=> pc'[u] \in {"loop", "dispatch"}
          /\ holder' \in Threads \cup {NoThread} /\ inloop' = (holder' # NoThread)
      BY <1>1, <1>2, SameMutex
    <2> QED BY <1>1, <2>1 DEF TypeOK, reactorVars
  <1>4. posts[t] # <<>> => to = "post"
    BY <1>2 DEF IInv, Threading
  <1> QED BY <1>1, <1>2, <1>3, <1>4, GoStep

\* Entering the reactor, waiting in it and leaving it preserve the invariant.
LEMMA ReactorStep ==
    ASSUME IInv, NEW t \in Threads, Enter(t) \/ Listen(t) \/ Leave(t)
    PROVE  IInv'
  <1>1. TypeOK /\ UNCHANGED <<reactorVars, op_queue, ready, cur, popped, posts, runs>>
    BY DEF IInv, HandlersMatch, Enter, Listen, Leave
  <1>2. PICK to \in {"loop", "dispatch", "top"} :
            /\ pc' = [pc EXCEPT ![t] = to]
            /\ pc[t] \in {"enter", "loop", "dispatch"}
            /\ to = "loop" => pc[t] = "enter"
    BY DEF Enter, Listen, Leave, Goto
  <1>3. pc'[t] = to /\ \A u \in Threads \ {t} : pc'[u] = pc[u]
    BY <1>1, <1>2 DEF TypeOK
  <1>4. /\ holder' \in Threads \cup {NoThread}
        /\ \A u \in Threads : holder' = u <=> pc'[u] \in {"loop", "dispatch"}
    <2>1. CASE Enter(t)
      <3>1. holder = NoThread /\ holder' = t /\ pc'[t] = "loop"
        BY <1>1, <2>1 DEF Enter, Free, Goto, TypeOK
      <3> QED BY <1>1, <1>3, <3>1, NullAssumption DEF TypeOK
    <2>2. CASE Listen(t)
      <3>1. pc[t] = "loop" /\ pc'[t] = "dispatch" /\ holder' = holder
        BY <1>1, <2>2 DEF Listen, Goto, TypeOK
      <3> QED BY <1>1, <1>3, <3>1 DEF TypeOK
    <2>3. CASE Leave(t)
      <3>1. pc[t] = "dispatch" /\ pc'[t] = "top" /\ holder' = NoThread
        BY <1>1, <2>3 DEF Leave, Goto, TypeOK
      <3>2. holder = t
        BY <1>1, <3>1 DEF TypeOK
      <3> QED BY <1>1, <1>3, <3>1, <3>2, NullAssumption DEF TypeOK
    <2> QED BY <2>1, <2>2, <2>3
  <1>5. inloop' = (holder' # NoThread)
    <2>1. CASE Enter(t)
      <3>1. inloop' = TRUE /\ holder' # NoThread
        BY <2>1, NullAssumption DEF Enter
      <3> QED BY <3>1
    <2>2. CASE Listen(t)
      BY <1>1, <2>2 DEF Listen, TypeOK
    <2>3. CASE Leave(t)
      <3>1. inloop' = FALSE /\ ~(holder' # NoThread)
        BY <2>3 DEF Leave
      <3> QED BY <3>1
    <2> QED BY <2>1, <2>2, <2>3
  <1>6. todo' \subseteq Sockets \X Types
    BY <1>1 DEF Enter, Listen, Leave, Events, TypeOK
  <1>7. TypeOK'
    <2>1. pc' \in [Threads -> Points]
      BY <1>1, <1>2 DEF TypeOK, Points
    <2> QED BY <1>1, <1>4, <1>5, <1>6, <2>1 DEF TypeOK, reactorVars
  <1>8. posts[t] = <<>>
    BY <1>2 DEF IInv, Threading
  <1>9. to \in Points
    BY DEF Points
  <1> QED BY <1>1, <1>2, <1>7, <1>8, <1>9, GoStep

\* The thread that is woken tests op_queue again.
LEMMA NotifyStep ==
    ASSUME IInv, NEW t \in Threads, Notify(t)
    PROVE  IInv'
  <1>1. /\ TypeOK /\ pc[t] = "notify"
        /\ UNCHANGED <<holder, inloop, reactorVars, op_queue, ready, todo, cur, popped, posts, runs>>
    BY DEF IInv, HandlersMatch, Notify
  <1>2. CASE pc' = [pc EXCEPT ![t] = "call"]
    <2>1. "call" \in Points
      BY DEF Points
    <2>2. TypeOK'
      <3>1. /\ pc' \in [Threads -> Points]
            /\ \A v \in Threads : holder' = v <=> pc'[v] \in {"loop", "dispatch"}
            /\ holder' \in Threads \cup {NoThread} /\ inloop' = (holder' # NoThread)
        BY <1>1, <1>2, <2>1, SameMutex
      <3> QED BY <1>1, <3>1 DEF TypeOK, reactorVars
    <2>3. posts[t] = <<>>
      BY <1>1 DEF IInv, Threading
    <2> QED BY <1>1, <1>2, <2>1, <2>2, <2>3, GoStep
  <1>3. ASSUME NEW u \in Threads, pc[u] = "waiting", pc' = [pc EXCEPT ![t] = "call", ![u] = "wait"]
        PROVE  IInv'
    <2>1. /\ t # u /\ pc'[t] = "call" /\ pc'[u] = "wait" /\ pc' \in [Threads -> Points]
          /\ \A v \in Threads \ {t, u} : pc'[v] = pc[v]
      BY <1>1, <1>3 DEF TypeOK, Points
    <2>2. UNCHANGED <<ops, present, cb, op_queue, cur, popped, posts, runs>>
      BY <1>1 DEF reactorVars
    <2>3. \A v \in Threads : holder' = v <=> pc'[v] \in {"loop", "dispatch"}
      BY <1>1, <1>3, <2>1 DEF TypeOK
    <2>4. TypeOK'
      <3>1. inloop' = (holder' # NoThread)
        BY <1>1 DEF TypeOK
      <3> QED BY <1>1, <2>1, <2>3, <3>1 DEF TypeOK, reactorVars
    <2>5. HandlersMatch'
      BY <2>2, <2>4 DEF IInv, HandlersMatch
    <2>6. OnePlace'
      <3> SUFFICES ASSUME NEW o \in Ops
                   PROVE  Once(o)'
        BY DEF OnePlace
      <3>1. Once(o)
        BY DEF IInv, OnePlace
      <3>2. \A v \in Threads : Held(v, o)' => Held(v, o)
        BY <1>1, <2>1, <2>2 DEF Held
      <3>3. /\ Waits(o)' => Waits(o)
            /\ Queued(o)' => Queued(o)
            /\ \A v \in Threads : Promised(v, o)' => Promised(v, o)
            /\ runs'[o] = runs[o]
            /\ Posted(o) => Posted(o)'
        BY <2>2 DEF Waits, Queued, Promised, Posted
      <3> QED BY <3>1, <3>2, <3>3, Stays
    <2>7. Queues'
      BY <2>2 DEF IInv, Queues
    <2>8. Threading'
      BY <1>1, <1>3, <2>1, <2>2 DEF IInv, Threading
    <2>9. Underway'
      BY <2>1 DEF Underway
    <2> QED BY <2>5, <2>6, <2>7, <2>8, <2>9 DEF IInv
  <1> QED BY <1>2, <1>3 DEF Notify

\* A thread that finds op_queue empty has isPop false: what is in its variable
\* is not called again.
LEMMA PopStep ==
    ASSUME IInv, NEW t \in Threads, Pop(t)
    PROVE  IInv'
  <1>1. /\ TypeOK /\ Distinct(op_queue) /\ pc[t] = "pop" /\ pc' = [pc EXCEPT ![t] = "more"]
        /\ popped' = [popped EXCEPT ![t] = op_queue # <<>>]
        /\ UNCHANGED <<holder, inloop, ops, present, cb, ready, todo, posts, runs>>
    BY DEF IInv, HandlersMatch, Queues, Pop, Goto, reactorVars
  <1>2. /\ pc'[t] = "more" /\ \A u \in Threads \ {t} : pc'[u] = pc[u]
        /\ popped' \in [Threads -> BOOLEAN] /\ (popped'[t] <=> op_queue # <<>>)
        /\ \A u \in Threads \ {t} : popped'[u] = popped[u]
    <2>1. pc'[t] = "more" /\ \A u \in Threads \ {t} : pc'[u] = pc[u]
      BY <1>1 DEF TypeOK
    <2>2. popped \in [Threads -> BOOLEAN]
      BY <1>1 DEF TypeOK
    <2>3. popped' \in [Threads -> BOOLEAN] /\ popped'[t] = (op_queue # <<>>)
      BY <1>1, <2>2
    <2>4. \A u \in Threads \ {t} : popped'[u] = popped[u]
      BY <1>1, <2>2
    <2> QED BY <2>1, <2>3, <2>4
  <1>3. /\ "more" \in Points
        /\ cur' = [cur EXCEPT ![t] = IF op_queue # <<>> THEN Head(op_queue) ELSE @]
        /\ op_queue' = IF op_queue # <<>> THEN Tail(op_queue) ELSE op_queue
    BY DEF Pop, Points
  <1>4. op_queue # <<>> =>
            /\ Head(op_queue) \in Ops /\ Queued(Head(op_queue))
            /\ Tail(op_queue) \in Seq(Ops) /\ Distinct(Tail(op_queue))
            /\ \A x : Contains(Tail(op_queue), x) <=> Contains(op_queue, x) /\ x # Head(op_queue)
    <2>1. op_queue \in Seq(Ops)
      BY <1>1 DEF TypeOK
    <2> QED BY <1>1, <2>1, TailContains DEF Queued
  <1>5. /\ cur' \in [Threads -> Ops \cup {NoOp}] /\ op_queue' \in Seq(Ops) /\ Distinct(op_queue')
        /\ cur'[t] = IF op_queue # <<>> THEN Head(op_queue) ELSE cur[t]
        /\ \A u \in Threads \ {t} : cur'[u] = cur[u]
    BY <1>1, <1>3, <1>4 DEF TypeOK
  <1>6. TypeOK'
    <2>1. /\ pc' \in [Threads -> Points]
          /\ \A u \in Threads : holder' = u <=> pc'[u] \in {"loop", "dispatch"}
          /\ holder' \in Threads \cup {NoThread} /\ inloop' = (holder' # NoThread)
      BY <1>1, <1>3, SameMutex
    <2> QED BY <1>1, <1>2, <1>5, <2>1 DEF TypeOK
  <1>7. HandlersMatch'
    BY <1>1, <1>6 DEF IInv, HandlersMatch
  <1>8. OnePlace'
    <2> SUFFICES ASSUME NEW o \in Ops
                 PROVE  Once(o)'
      BY DEF OnePlace
    <2>1. Once(o)
      BY DEF IInv, OnePlace
    <2>2. /\ Waits(o)' <=> Waits(o)
          /\ \A u \in Threads : Promised(u, o)' <=> Promised(u, o)
          /\ runs'[o] = runs[o]
          /\ Posted(o) => Posted(o)'
      BY <1>1 DEF Waits, Promised, Posted
    <2>3. \A u \in Threads \ {t} : Held(u, o)' <=> Held(u, o)
      BY <1>2, <1>5 DEF Held
    <2>4. CASE op_queue # <<>> /\ o = Head(op_queue)
      <3>1. Queued(o) /\ ~Queued(o)'
        BY <1>3, <1>4, <2>4 DEF Queued
      <3> QED BY <2>1, <2>2, <2>3, <3>1 DEF Once
    <2>5. CASE ~(op_queue # <<>> /\ o = Head(op_queue))
      <3>1. ~Held(t, o)'
        BY <1>2, <1>5, <2>5 DEF Held
      <3>2. Queued(o)' => Queued(o)
        BY <1>3, <1>4 DEF Queued
      <3> QED BY <2>1, <2>2, <2>3, <3>1, <3>2, Stays
    <2> QED BY <2>4, <2>5
  <1>9. Queues'
    BY <1>1, <1>5 DEF IInv, Queues
  <1>10. Threading'
    BY <1>1, <1>2, <1>4, <1>5 DEF IInv, Threading
  <1>11. Underway'
    BY <1>2 DEF Underway
  <1> QED BY <1>7, <1>8, <1>9, <1>10, <1>11 DEF IInv

\* The operations a callback posts have not been posted before: the callback has
\* not been called.
LEMMA CallStep ==
    ASSUME IInv, NEW t \in Threads, Call(t)
    PROVE  IInv'
  <1> DEFINE c == cur[t]
  <1>1. /\ TypeOK /\ pc[t] = "call" /\ popped[t] /\ pc' = [pc EXCEPT ![t] = "post"]
        /\ runs' = [runs EXCEPT ![c] = @ + 1]
        /\ posts' = [posts EXCEPT ![t] = Follow[c]]
        /\ UNCHANGED <<holder, inloop, ops, present, cb, op_queue, todo, cur, popped>>
    BY DEF IInv, HandlersMatch, Call, MayCall, reactorVars
  <1>2. c \in Ops /\ Held(t, c) /\ "post" \in Points
    BY <1>1 DEF IInv, Threading, Held, Points
  <1>3. ready' \in [Sockets -> SUBSET Types]
    <2>1. Target[c][1] \in Sockets
      BY <1>2, TargetIsSocket
    <2>2. ready' \in {ready, [ready EXCEPT ![Target[c][1]] = @ \ {Target[c][2]}]}
      BY DEF Call
    <2>3. ready \in [Sockets -> SUBSET Types]
      BY <1>1 DEF TypeOK
    <2> HIDE DEF c
    <2>4. ready[Target[c][1]] \ {Target[c][2]} \in SUBSET Types
      BY <2>1, <2>3
    <2> QED BY <2>1, <2>2, <2>3, <2>4
  <1> HIDE DEF c
  <1>4. /\ pc'[t] = "post" /\ \A u \in Threads \ {t} : pc'[u] = pc[u]
        /\ runs'[c] = runs[c] + 1 /\ \A o \in Ops \ {c} : runs'[o] = runs[o]
        /\ posts'[t] = Follow[c] /\ \A u \in Threads \ {t} : posts'[u] = posts[u]
    BY <1>1, <1>2 DEF TypeOK
  <1>5. Once(c) /\ runs[c] = 0
    BY <1>2 DEF IInv, OnePlace, Once
  <1>6. runs' \in [Ops -> Nat] /\ posts' \in [Threads -> Seq(Ops)] /\ runs'[c] = 1
    <2>1. Follow[c] \in Seq(Ops) /\ runs[c] + 1 = 1
      BY <1>2, <1>5, OpsAssumption
    <2>2. runs \in [Ops -> Nat] /\ posts \in [Threads -> Seq(Ops)]
      BY <1>1 DEF TypeOK
    <2>3. runs' \in [Ops -> Nat] /\ runs'[c] = 1
      BY <1>1, <1>2, <2>1, <2>2
    <2> QED BY <1>1, <2>1, <2>2, <2>3
  <1>7. TypeOK'
    <2>1. /\ pc' \in [Threads -> Points]
          /\ \A u \in Threads : holder' = u <=> pc'[u] \in {"loop", "dispatch"}
          /\ holder' \in Threads \cup {NoThread} /\ inloop' = (holder' # NoThread)
      BY <1>1, <1>2, SameMutex
    <2> QED BY <1>1, <1>3, <1>6, <2>1 DEF TypeOK
  <1>8. HandlersMatch'
    BY <1>1, <1>7 DEF IInv, HandlersMatch
  <1>9. ASSUME NEW o \in Ops, Contains(Follow[c], o)
        PROVE  ~Posted(o)
    <2>1. PICK i \in 1 .. Len(Follow[c]) : Follow[c][i] = o
      BY <1>9 DEF Contains
    <2>2. \A p \in Ops : DOMAIN Follow[p] = 1 .. Len(Follow[p])
      BY OpsAssumption, LenProperties
    <2>3. o \notin First
      BY <1>2, <2>1, <2>2, PostedOnceAssumption
    <2>4. \A p \in Ops : Contains(Follow[p], o) => p = c
      BY <1>2, <2>1, <2>2, PostedOnceAssumption DEF Contains
    <2> QED BY <1>5, <2>3, <2>4 DEF Posted
  <1>10. ASSUME NEW o \in Ops, Posted(o)
         PROVE  Posted(o)'
    <2>1. CASE o \in First
      BY <2>1 DEF Posted
    <2>2. ASSUME NEW p \in Ops, Contains(Follow[p], o), runs[p] # 0
          PROVE  Posted(o)'
      <3>1. runs'[p] # 0
        BY <1>4, <1>5, <2>2
      <3> QED BY <2>2, <3>1 DEF Posted
    <2> QED BY <1>10, <2>1, <2>2 DEF Posted
  <1>11. OnePlace'
    <2> SUFFICES ASSUME NEW o \in Ops
                 PROVE  Once(o)'
      BY DEF OnePlace
    <2>1. Once(o)
      BY DEF IInv, OnePlace
    <2>2. (Waits(o)' <=> Waits(o)) /\ (Queued(o)' <=> Queued(o))
      BY <1>1 DEF Waits, Queued
    <2>3. /\ ~Held(t, o)'
          /\ \A u \in Threads \ {t} : Held(u, o)' <=> Held(u, o)
      BY <1>1, <1>4 DEF Held
    <2>4. /\ \A u \in Threads \ {t} : Promised(u, o)' <=> Promised(u, o)
          /\ Promised(t, o)' <=> Contains(Follow[c], o)
      BY <1>4 DEF Promised
    <2>5. CASE Contains(Follow[c], o)
      <3>1. ~Posted(o) /\ ~Waits(o) /\ ~Queued(o) /\ runs[o] = 0
        BY <1>9, <2>1, <2>5 DEF Once
      <3>2. \A u \in Threads : ~Held(u, o) /\ ~Promised(u, o)
        BY <2>1, <3>1 DEF Once
      <3>3. o # c
        BY <1>2, <3>2
      <3>4. Posted(o)'
        BY <1>2, <1>6, <2>5 DEF Posted
      <3> QED BY <1>4, <2>2, <2>3, <2>4, <3>1, <3>2, <3>3, <3>4 DEF Once
    <2>6. CASE ~Contains(Follow[c], o) /\ o = c
      <3>1. /\ ~Waits(o)' /\ ~Queued(o)'
            /\ \A u \in Threads : ~Held(u, o)' /\ ~Promised(u, o)'
        BY <1>2, <2>1, <2>2, <2>3, <2>4, <2>6 DEF Once
      <3>2. runs'[o] = 1
        BY <1>6, <2>6
      <3>3. Posted(o)'
        BY <1>2, <1>10, <2>1, <2>6 DEF Once
      <3> QED BY <3>1, <3>2, <3>3 DEF Once
    <2>7. CASE ~Contains(Follow[c], o) /\ o # c
      BY <1>4, <1>10, <2>1, <2>2, <2>3, <2>4, <2>7, Stays
    <2> QED BY <2>5, <2>6, <2>7
  <1>12. Queues'
    <2>1. Distinct(Follow[c])
      BY <1>2, PostedOnceAssumption DEF Distinct
    <2>2. \A u \in Threads : Distinct(posts'[u])
      BY <1>4, <2>1 DEF IInv, Queues
    <2> QED BY <1>1, <2>2 DEF IInv, Queues
  <1>13. Threading'
    BY <1>1, <1>4 DEF IInv, Threading
  <1>14. Underway'
    BY <1>4 DEF Underway
  <1> QED BY <1>8, <1>11, <1>12, <1>13, <1>14 DEF IInv

\* One queue of a socket, and the handlers of the socket, get new values.
Requeued(s, type, q, h) == ops' = [ops EXCEPT ![s][type] = q] /\ cb' = [cb EXCEPT ![s] = h]

\* An update of one queue leaves the others alone.
LEMMA OneQueue ==
    ASSUME TypeOK, NEW s \in Sockets, NEW type \in Types, NEW q \in Seq(Ops), NEW h \in SUBSET Types,
           Requeued(s, type, q, h)
    PROVE  /\ ops' \in [Sockets -> [Types -> Seq(Ops)]] /\ cb' \in [Sockets -> SUBSET Types]
           /\ ops'[s][type] = q /\ cb'[s] = h
           /\ \A u \in Types \ {type} : ops'[s][u] = ops[s][u]
           /\ \A r \in Sockets \ {s} : ops'[r] = ops[r] /\ cb'[r] = cb[r]
           /\ \A r \in Sockets, u \in Types : <<r, u>> # <<s, type>> => ops'[r][u] = ops[r][u]
  <1>1. /\ ops \in [Sockets -> [Types -> Seq(Ops)]] /\ cb \in [Sockets -> SUBSET Types]
        /\ ops[s] \in [Types -> Seq(Ops)]
    BY DEF TypeOK
  <1>2. [ops[s] EXCEPT ![type] = q] \in [Types -> Seq(Ops)]
    BY <1>1
  <1>3. /\ ops' \in [Sockets -> [Types -> Seq(Ops)]] /\ cb' \in [Sockets -> SUBSET Types]
        /\ ops'[s] = [ops[s] EXCEPT ![type] = q] /\ cb'[s] = h
        /\ \A r \in Sockets \ {s} : ops'[r] = ops[r] /\ cb'[r] = cb[r]
    BY <1>1, <1>2 DEF Requeued
  <1>4. ops'[s][type] = q /\ \A u \in Types \ {type} : ops'[s][u] = ops[s][u]
    BY <1>1, <1>3
  <1>5. ASSUME NEW r \in Sockets, NEW u \in Types, <<r, u>> # <<s, type>>
        PROVE  ops'[r][u] = ops[r][u]
    BY <1>3, <1>4, <1>5
  <1> QED BY <1>3, <1>4, <1>5

\* async_* called by a callback preserves the invariant.
LEMMA PostStep ==
    ASSUME IInv, NEW t \in Threads, Post(t)
    PROVE  IInv'
  <1> DEFINE o == Head(posts[t])
             s == Target[o][1]
             type == Target[o][2]
  <1>1. /\ TypeOK /\ pc[t] = "post" /\ posts[t] # <<>>
        /\ present' = present \cup {s}
        /\ ops' = [ops EXCEPT ![s][type] = Append(ops[s][type], o)]
        /\ cb' = [cb EXCEPT ![s] = cb[s] \cup {type}]
        /\ posts' = [posts EXCEPT ![t] = Tail(posts[t])]
        /\ UNCHANGED <<holder, inloop, op_queue, ready, todo, pc, cur, popped, runs>>
    BY DEF IInv, HandlersMatch, Post, Handlers
  <1>2. posts[t] \in Seq(Ops) /\ Distinct(posts[t])
    BY <1>1 DEF TypeOK, IInv, Queues
  <1>3. /\ o \in Ops /\ Contains(posts[t], o)
        /\ Tail(posts[t]) \in Seq(Ops) /\ Distinct(Tail(posts[t]))
        /\ \A x : Contains(Tail(posts[t]), x) <=> Contains(posts[t], x) /\ x # o
    BY <1>1, <1>2, TailContains
  <1> HIDE DEF o
  <1>4. s \in Sockets /\ type \in Types /\ Target[o] = <<s, type>>
    BY <1>3, TargetIsSocket
  <1>5. Once(o) /\ Promised(t, o) /\ ~Contains(ops[s][type], o)
    BY <1>3 DEF IInv, OnePlace, Once, Promised, Waits
  <1>6. /\ ops[s][type] \in Seq(Ops) /\ Distinct(ops[s][type])
        /\ cb[s] \cup {type} \in SUBSET Types
    BY <1>1, <1>4 DEF TypeOK, IInv, Queues
  <1> HIDE DEF s, type
  <1> DEFINE q == Append(ops[s][type], o)
  <1>7. /\ q \in Seq(Ops) /\ Distinct(q) /\ q # <<>>
        /\ \A x : Contains(q, x) <=> Contains(ops[s][type], x) \/ x = o
    <2>1. /\ q \in Seq(Ops) /\ Distinct(q)
          /\ \A x : Contains(q, x) <=> Contains(ops[s][type], x) \/ x = o
      BY <1>3, <1>5, <1>6, AppendContains
    <2> HIDE DEF q
    <2> QED BY <1>3, <2>1, EmptyContains
  <1>8. /\ ops' \in [Sockets -> [Types -> Seq(Ops)]] /\ cb' \in [Sockets -> SUBSET Types]
        /\ ops'[s][type] = q /\ cb'[s] = cb[s] \cup {type}
        /\ \A u \in Types \ {type} : ops'[s][u] = ops[s][u]
        /\ \A r \in Sockets \ {s} : ops'[r] = ops[r] /\ cb'[r] = cb[r]
        /\ \A r \in Sockets, u \in Types : <<r, u>> # <<s, type>> => ops'[r][u] = ops[r][u]
    <2> DEFINE h == cb[s] \cup {type}
    <2>1. Requeued(s, type, q, h) /\ TypeOK
      BY <1>1 DEF Requeued
    <2>2. q \in Seq(Ops) /\ h \in SUBSET Types
      BY <1>6, <1>7
    <2> HIDE DEF q, h
    <2>3. /\ ops' \in [Sockets -> [Types -> Seq(Ops)]] /\ cb' \in [Sockets -> SUBSET Types]
          /\ ops'[s][type] = q /\ cb'[s] = h
          /\ \A u \in Types \ {type} : ops'[s][u] = ops[s][u]
          /\ \A r \in Sockets \ {s} : ops'[r] = ops[r] /\ cb'[r] = cb[r]
          /\ \A r \in Sockets, u \in Types : <<r, u>> # <<s, type>> => ops'[r][u] = ops[r][u]
      BY ONLY <1>4, <2>1, <2>2, OneQueue
    <2> QED BY <2>3 DEF h
  <1> HIDE DEF q
  <1>9. /\ posts' \in [Threads -> Seq(Ops)] /\ posts'[t] = Tail(posts[t])
        /\ \A u \in Threads \ {t} : posts'[u] = posts[u]
    <2>1. posts \in [Threads -> Seq(Ops)]
      BY <1>1 DEF TypeOK
    <2> QED BY <1>1, <1>3, <2>1
  <1>10. TypeOK'
    <2>1. inloop' = (holder' # NoThread)
      BY <1>1 DEF TypeOK
    <2>2. present' \subseteq Sockets
      BY <1>1, <1>4 DEF TypeOK
    <2>3. UNCHANGED <<holder, op_queue, ready, todo, pc, cur, popped, runs>> /\ TypeOK
      BY <1>1
    <2> QED BY <1>8, <1>9, <2>1, <2>2, <2>3 DEF TypeOK
  <1>11. HandlersMatch'
    <2> SUFFICES ASSUME NEW r \in Sockets
                 PROVE  /\ cb'[r] = {u \in Types : ops'[r][u] # <<>>}
                        /\ r \in present' <=> cb'[r] # {}
      BY <1>10 DEF HandlersMatch
    <2>1. cb[r] = {u \in Types : ops[r][u] # <<>>} /\ (r \in present <=> cb[r] # {})
      BY DEF IInv, HandlersMatch
    <2>2. present' = present \cup {s}
      BY <1>1
    <2>3. CASE r = s
      <3>1. \A u \in Types : u \in cb'[s] <=> ops'[s][u] # <<>>
        <4> TAKE u \in Types
        <4>1. CASE u = type
          BY <1>7, <1>8, <4>1
        <4>2. CASE u # type
          <5>1. u \in cb[s] <=> ops[s][u] # <<>>
            BY <2>1, <2>3
          <5> QED BY <1>8, <4>2, <5>1
        <4> QED BY <4>1, <4>2
      <3>2. cb'[s] \subseteq Types /\ type \in cb'[s]
        BY <1>4, <1>8
      <3> QED BY <2>2, <2>3, <3>1, <3>2
    <2>4. CASE r # s
      BY <1>8, <2>1, <2>2, <2>4
    <2> QED BY <2>3, <2>4
  <1>12. OnePlace'
    <2> SUFFICES ASSUME NEW x \in Ops
                 PROVE  Once(x)'
      BY DEF OnePlace
    <2>1. Once(x)
      BY DEF IInv, OnePlace
    <2>2. /\ Queued(x)' <=> Queued(x)
          /\ \A u \in Threads : Held(u, x)' <=> Held(u, x)
          /\ runs'[x] = runs[x]
          /\ Posted(x) <=> Posted(x)'
      BY <1>1 DEF Queued, Held, Posted
    <2>3. \A u \in Threads \ {t} : Promised(u, x)' <=> Promised(u, x)
      BY <1>9 DEF Promised
    <2>4. Promised(t, x)' <=> Promised(t, x) /\ x # o
      BY <1>3, <1>9 DEF Promised
    <2>5. CASE x = o
      <3>1. \A u \in Threads : ~Held(u, x)' /\ ~Promised(u, x)'
        BY <1>5, <2>1, <2>2, <2>3, <2>4, <2>5 DEF Once
      <3>2. ~Queued(x)' /\ runs'[x] = 0 /\ Posted(x)'
        BY <1>5, <2>1, <2>2, <2>5 DEF Once
      <3> QED BY <3>1, <3>2 DEF Once
    <2>6. CASE x # o
      <3>1. Waits(x)' => Waits(x)
        <4>1. Target[x][1] \in Sockets /\ Target[x][2] \in Types
          BY TargetIsSocket
        <4>2. CASE <<Target[x][1], Target[x][2]>> = <<s, type>>
          BY <1>7, <1>8, <2>6, <4>2 DEF Waits
        <4>3. CASE <<Target[x][1], Target[x][2]>> # <<s, type>>
          BY <1>8, <4>1, <4>3 DEF Waits
        <4> QED BY <4>2, <4>3
      <3> QED BY <2>1, <2>2, <2>3, <2>4, <3>1, Stays
    <2> QED BY <2>5, <2>6
  <1>13. Queues'
    <2>1. Distinct(op_queue') /\ \A u \in Threads : Distinct(posts'[u])
      BY <1>1, <1>3, <1>9 DEF IInv, Queues
    <2>2. ASSUME NEW r \in Sockets, NEW u \in Types
          PROVE  /\ Distinct(ops'[r][u])
                 /\ \A x \in Ops : Contains(ops'[r][u], x) => Target[x] = <<r, u>>
      <3>1. CASE <<r, u>> = <<s, type>>
        BY <1>4, <1>7, <1>8, <3>1 DEF IInv, Queues
      <3>2. CASE <<r, u>> # <<s, type>>
        BY <1>8, <3>2 DEF IInv, Queues
      <3> QED BY <3>1, <3>2
    <2> QED BY <2>1, <2>2 DEF Queues
  <1>14. Threading'
    <2>1. \A u \in Threads : posts'[u] # <<>> => pc'[u] = "post"
      BY <1>1, <1>9 DEF IInv, Threading
    <2>2. UNCHANGED <<popped, cur>>
      BY <1>1
    <2> QED BY <2>1, <2>2 DEF IInv, Threading
  <1>15. Underway'
    <2>1. UNCHANGED <<op_queue, pc>>
      BY <1>1
    <2> QED BY <2>1 DEF IInv, Underway
  <1> QED BY <1>11, <1>12, <1>13, <1>14, <1>15 DEF IInv

\* The handler of the reactor passes the first operation on, and removes itself
\* when it was the last one of its queue.
LEMMA DispatchStep ==
    ASSUME IInv, NEW t \in Threads, NEW s \in Sockets, NEW type \in Types, Dispatch(t, s, type)
    PROVE  IInv'
  <1>1. /\ TypeOK /\ pc[t] = "dispatch" /\ todo' \subseteq todo
        /\ UNCHANGED <<holder, inloop, ready, pc, cur, popped, posts, runs>>
    BY DEF IInv, HandlersMatch, Dispatch, threadVars
  <1>2. CASE UNCHANGED <<reactorVars, op_queue>>
    <2>1. UNCHANGED <<ops, present, cb, op_queue>>
      BY <1>2 DEF reactorVars
    <2>2. TypeOK'
      <3>1. inloop' = (holder' # NoThread)
        BY <1>1 DEF TypeOK
      <3> QED BY <1>1, <2>1, <3>1 DEF TypeOK
    <2>3. HandlersMatch'
      BY <2>1, <2>2 DEF IInv, HandlersMatch
    <2>4. OnePlace'
      BY <1>1, <2>1 DEF IInv, OnePlace, Once, Waits, Queued, Held, Promised, Posted
    <2>5. Queues' /\ Threading' /\ Underway'
      BY <1>1, <2>1 DEF IInv, Queues, Threading, Underway
    <2> QED BY <2>3, <2>4, <2>5 DEF IInv
  <1>3. CASE ops[s][type] # <<>> /\ op_queue' = Append(op_queue, Head(ops[s][type]))
    <2> DEFINE old == ops[s][type]
               o == Head(old)
               q == Tail(old)
               h == IF q = <<>> THEN cb[s] \ {type} ELSE cb[s]
    <2>1. /\ Requeued(s, type, q, h)
          /\ present' = IF ops'[s]["rd"] = <<>> /\ ops'[s]["wr"] = <<>> THEN present \ {s} ELSE present
          /\ op_queue' = Append(op_queue, o)
      <3>1. op_queue' # op_queue
        <4>1. op_queue \in Seq(Ops) /\ Len(op_queue) \in Nat
          BY <1>1, LenProperties DEF TypeOK
        <4>2. Len(op_queue') = Len(op_queue) + 1
          BY <1>3, <4>1
        <4> QED BY <4>1, <4>2
      <3> QED BY <1>3, <3>1 DEF Dispatch, Left, Requeued
    <2>2. old \in Seq(Ops) /\ Distinct(old) /\ old # <<>>
      BY <1>1, <1>3 DEF TypeOK, IInv, Queues
    <2> HIDE DEF old
    <2>3. /\ o \in Ops /\ Contains(old, o)
          /\ q \in Seq(Ops) /\ Distinct(q)
          /\ \A x : Contains(q, x) <=> Contains(old, x) /\ x # o
      BY <2>2, TailContains
    <2>4. h \in SUBSET Types
      BY <1>1 DEF TypeOK
    <2> HIDE DEF o, q
    <2>5. Target[o] = <<s, type>>
      BY <2>3 DEF IInv, Queues, old
    <2>6. Once(o) /\ Waits(o) /\ ~Queued(o)
      BY <2>3, <2>5 DEF IInv, OnePlace, Once, Waits, old
    <2>7. /\ op_queue' \in Seq(Ops) /\ Distinct(op_queue')
          /\ \A x : Contains(op_queue', x) <=> Contains(op_queue, x) \/ x = o
      <3>1. op_queue \in Seq(Ops) /\ Distinct(op_queue) /\ ~Contains(op_queue, o)
        BY <1>1, <2>6 DEF TypeOK, IInv, Queues, Queued
      <3> QED BY <2>1, <2>3, <3>1, AppendContains
    <2>8. /\ ops' \in [Sockets -> [Types -> Seq(Ops)]] /\ cb' \in [Sockets -> SUBSET Types]
          /\ ops'[s][type] = q /\ cb'[s] = h
          /\ \A u \in Types \ {type} : ops'[s][u] = ops[s][u]
          /\ \A r \in Sockets \ {s} : ops'[r] = ops[r] /\ cb'[r] = cb[r]
          /\ \A r \in Sockets, u \in Types : <<r, u>> # <<s, type>> => ops'[r][u] = ops[r][u]
      <3> HIDE DEF h
      <3>1. s \in Sockets /\ type \in Types /\ TypeOK
        BY <1>1
      <3> QED BY ONLY <2>1, <2>3, <2>4, <3>1, OneQueue
    <2>9. TypeOK'
      <3>1. inloop' = (holder' # NoThread)
        BY <1>1 DEF TypeOK
      <3>2. present' \subseteq Sockets
        BY <1>1, <2>1 DEF TypeOK
      <3> HIDE DEF h
      <3> QED BY <1>1, <2>7, <2>8, <3>1, <3>2 DEF TypeOK
    <2>10. HandlersMatch'
      <3> SUFFICES ASSUME NEW r \in Sockets
                   PROVE  /\ cb'[r] = {u \in Types : ops'[r][u] # <<>>}
                          /\ r \in present' <=> cb'[r] # {}
        BY <2>9 DEF HandlersMatch
      <3>1. cb[r] = {u \in Types : ops[r][u] # <<>>} /\ (r \in present <=> cb[r] # {})
        BY DEF IInv, HandlersMatch
      <3>2. CASE r = s
        <4>1. type \in cb[s] /\ s \in present
          BY <2>2, <3>1, <3>2 DEF old
        <4>2. ASSUME NEW u \in Types
              PROVE  u \in cb'[s] <=> ops'[s][u] # <<>>
          <5>1. CASE u = type
            BY <2>8, <4>1, <5>1
          <5>2. CASE u # type
            <6>1. u \in cb[s] <=> ops[s][u] # <<>>
              BY <3>1, <3>2
            <6> QED BY <2>8, <5>2, <6>1
          <5> QED BY <5>1, <5>2
        <4>3. cb'[s] = {u \in Types : ops'[s][u] # <<>>}
          <5>1. cb'[s] \subseteq Types
            BY <2>4, <2>8
          <5> QED BY <4>2, <5>1
        <4>4. s \in present' <=> ~(ops'[s]["rd"] = <<>> /\ ops'[s]["wr"] = <<>>)
          BY <2>1, <4>1
        <4> QED BY <3>2, <4>3, <4>4 DEF Types
      <3>3. CASE r # s
        BY <2>1, <2>8, <3>1, <3>3
      <3> QED BY <3>2, <3>3
    <2> HIDE DEF h
    <2>11. OnePlace'
      <3> SUFFICES ASSUME NEW x \in Ops
                   PROVE  Once(x)'
        BY DEF OnePlace
      <3>1. Once(x)
        BY DEF IInv, OnePlace
      <3>2. /\ \A u \in Threads : Held(u, x)' <=> Held(u, x)
            /\ \A u \in Threads : Promised(u, x)' <=> Promised(u, x)
            /\ runs'[x] = runs[x]
            /\ Posted(x) <=> Posted(x)'
        BY <1>1 DEF Held, Promised, Posted
      <3>3. CASE x = o
        <4>1. ~Waits(x)'
          BY <2>3, <2>5, <2>8, <3>3 DEF Waits
        <4> QED BY <2>6, <3>1, <3>2, <3>3, <4>1 DEF Once
      <3>4. CASE x # o
        <4>1. Queued(x)' => Queued(x)
          BY <2>7, <3>4 DEF Queued
        <4>2. Waits(x)' => Waits(x)
          <5>1. Target[x][1] \in Sockets /\ Target[x][2] \in Types
            BY TargetIsSocket
          <5>2. CASE <<Target[x][1], Target[x][2]>> = <<s, type>>
            BY <2>3, <2>8, <5>2 DEF Waits, old
          <5>3. CASE <<Target[x][1], Target[x][2]>> # <<s, type>>
            BY <2>8, <5>1, <5>3 DEF Waits
          <5> QED BY <5>2, <5>3
        <4> QED BY <3>1, <3>2, <4>1, <4>2, Stays
      <3> QED BY <3>3, <3>4
    <2>12. Queues'
      <3>1. ASSUME NEW r \in Sockets, NEW u \in Types
            PROVE  /\ Distinct(ops'[r][u])
                   /\ \A x \in Ops : Contains(ops'[r][u], x) => Target[x] = <<r, u>>
        <4>1. CASE <<r, u>> = <<s, type>>
          BY <2>3, <2>8, <4>1 DEF IInv, Queues, old
        <4>2. CASE <<r, u>> # <<s, type>>
          BY <2>8, <4>2 DEF IInv, Queues
        <4> QED BY <4>1, <4>2
      <3>2. \A u \in Threads : Distinct(posts'[u])
        BY <1>1 DEF IInv, Queues
      <3> QED BY <2>7, <3>1, <3>2 DEF Queues
    <2>13. Threading'
      BY <1>1 DEF IInv, Threading
    <2>14. Underway'
      BY <1>1 DEF Underway
    <2> QED BY <2>10, <2>11, <2>12, <2>13, <2>14 DEF IInv
  <1> QED BY <1>2, <1>3 DEF Dispatch

\* A descriptor becomes ready, or nothing happens.
LEMMA ReadyStep ==
    ASSUME IInv, (\E s \in Sockets, type \in Types : BecomeReady(s, type)) \/ UNCHANGED vars
    PROVE  IInv'
  <1>1. /\ TypeOK
        /\ UNCHANGED <<holder, inloop, ops, present, cb, op_queue, todo, pc, cur, popped, posts, runs>>
    BY DEF IInv, HandlersMatch, BecomeReady, vars, threadVars, reactorVars
  <1>2. ready' \in [Sockets -> SUBSET Types]
    <2>1. ASSUME NEW s \in Sockets, NEW type \in Types, ready' = [ready EXCEPT ![s] = @ \cup {type}]
          PROVE  ready' \in [Sockets -> SUBSET Types]
      <3>1. ready \in [Sockets -> SUBSET Types]
        BY <1>1 DEF TypeOK
      <3>2. ready[s] \cup {type} \in SUBSET Types
        BY <3>1
      <3> QED BY <2>1, <3>1, <3>2
    <2>2. CASE UNCHANGED ready
      BY <1>1, <2>2 DEF TypeOK
    <2> QED BY <2>1, <2>2 DEF BecomeReady, vars
  <1>3. TypeOK'
    <2>1. inloop' = (holder' # NoThread)
      BY <1>1 DEF TypeOK
    <2> QED BY <1>1, <1>2, <2>1 DEF TypeOK
  <1>4. HandlersMatch'
    BY <1>1, <1>3 DEF IInv, HandlersMatch
  <1>5. OnePlace'
    BY <1>1 DEF IInv, OnePlace, Once, Waits, Queued, Held, Promised, Posted
  <1>6. Queues' /\ Threading' /\ Underway'
    BY <1>1 DEF IInv, Queues, Threading, Underway
  <1> QED BY <1>4, <1>5, <1>6 DEF IInv

\* IInv is inductive.
LEMMA NextIInv == IInv /\ [Next]_vars => IInv'
  <1> SUFFICES ASSUME IInv, [Next]_vars
               PROVE  IInv'
    OBVIOUS
  <1>1. ASSUME NEW t \in Threads, Run(t) \/ Spurious(t)
        PROVE  IInv'
    BY <1>1, LookStep, PopStep, NotifyStep, CallStep, PostStep, ReactorStep, DispatchStep DEF Run
  <1>2. CASE (\E s \in Sockets, type \in Types : BecomeReady(s, type)) \/ UNCHANGED vars
    BY <1>2, ReadyStep
  <1> QED BY <1>1, <1>2 DEF Next

\* IInv holds in every state of the threads.
LEMMA Invariance == Spec => []IInv
  BY InitIInv, NextIInv, PTL DEF Spec

-----------------------------------------------------------------------------
(* The theorems.                                                           *)

\* The reactor has a handler exactly for the queues that are not empty, although
\* handlers remove themselves and callbacks in other threads post.
THEOREM HandlersAlwaysMatch == Spec => []HandlersMatch
  <1>1. IInv => HandlersMatch
    BY DEF IInv
  <1> QED BY <1>1, Invariance, PTL

\* While op_queue is not empty some thread is on its way to it, or is held up by
\* the thread that waits for descriptors with the mutex; no other wait strands an
\* operation, although notify_one may come before threads that have seen the
\* queue empty wait.
THEOREM NoOpStranded == Spec => []NoStrandedOp
  <1>1. IInv => NoStrandedOp
    <2> SUFFICES ASSUME IInv, op_queue # <<>>
                 PROVE  \/ \E t \in Threads : OnItsWay(t)
                        \/ Listening /\ \E t \in Threads : pc[t] \in {"notify", "post"}
      BY DEF NoStrandedOp
    <2>1. TypeOK
      BY DEF IInv, HandlersMatch
    <2>2. PICK t \in Threads : pc[t] \in {"top", "pop", "more", "notify", "call", "post", "dispatch"}
      <3>1. PICK t \in Threads : pc[t] \notin {"waiting", "wait", "enter", "loop", "check"}
        BY DEF IInv, Underway
      <3>2. pc[t] \in Points
        BY <2>1 DEF TypeOK
      <3> QED BY <3>1, <3>2 DEF Points
    <2>3. CASE pc[t] \in {"top", "pop", "more", "call", "dispatch"}
      BY <2>3 DEF OnItsWay
    <2>4. CASE pc[t] \in {"notify", "post"} /\ holder = NoThread
      BY <2>4 DEF OnItsWay, Free
    <2>5. CASE pc[t] \in {"notify", "post"} /\ holder # NoThread
      <3>1. holder \in Threads /\ pc[holder] \in {"loop", "dispatch"}
        BY <2>1, <2>5 DEF TypeOK
      <3>2. Listening \/ OnItsWay(holder)
        BY <3>1 DEF OnItsWay
      <3> QED BY <2>5, <3>1, <3>2
    <2> QED BY <2>2, <2>3, <2>4, <2>5
  <1> QED BY <1>1, Invariance, PTL

\* No operation is executed twice or is in two places, whichever threads race
\* for it.
THEOREM OpsExecutedOnce == Spec => []ExecutedOnce
  <1>1. IInv => ExecutedOnce
    <2> SUFFICES ASSUME IInv, NEW o \in Ops
                 PROVE  runs[o] + Places(o) <= 1
      BY DEF ExecutedOnce
    <2> DEFINE W == {s \in Sockets : \E type \in Types : Contains(ops[s][type], o)}
               Q == {i \in DOMAIN op_queue : op_queue[i] = o}
               H == {t \in Threads : cur[t] = o /\ popped[t] /\ pc[t] \in {"more", "notify", "call"}}
    <2>1. Once(o)
      BY DEF IInv, OnePlace
    <2>2. (\A x, y \in W : x = y) /\ (W # {} => Waits(o))
      <3>1. ASSUME NEW s \in W
            PROVE  s = Target[o][1] /\ Waits(o)
        <4>1. PICK type \in Types : Contains(ops[s][type], o)
          OBVIOUS
        <4>2. Target[o] = <<s, type>>
          BY <4>1 DEF IInv, Queues
        <4> QED BY <4>1, <4>2 DEF Waits
      <3> QED BY <3>1
    <2>3. (\A x, y \in Q : x = y) /\ (Q # {} => Queued(o))
      <3>1. DOMAIN op_queue = 1 .. Len(op_queue)
        BY LenProperties DEF IInv, HandlersMatch, TypeOK
      <3> QED BY <3>1 DEF IInv, Queues, Distinct, Queued, Contains
    <2>4. (\A x, y \in H : x = y) /\ \A t \in H : t \in Threads /\ Held(t, o)
      BY <2>1 DEF Once, Held
    <2> HIDE DEF W, Q, H
    <2>5. /\ Cardinality(W) \in {0, 1} /\ (W = {} => Cardinality(W) = 0)
          /\ Cardinality(Q) \in {0, 1} /\ (Q = {} => Cardinality(Q) = 0)
          /\ Cardinality(H) \in {0, 1} /\ (H = {} => Cardinality(H) = 0)
      BY <2>2, <2>3, <2>4, AtMostOne
    <2>6. \/ W = {} /\ Q = {} /\ H = {}
          \/ runs[o] = 0 /\ ((W = {} /\ Q = {}) \/ (W = {} /\ H = {}) \/ (Q = {} /\ H = {}))
      BY <2>1, <2>2, <2>3, <2>4 DEF Once
    <2>7. Places(o) = Cardinality(W) + Cardinality(Q) + Cardinality(H)
      BY DEF Places, W, Q, H
    <2>8. runs[o] \in {0, 1}
      BY <2>1 DEF Once
    <2> QED BY <2>5, <2>6, <2>7, <2>8
  <1> QED BY <1>1, Invariance, PTL

=============================================================================
