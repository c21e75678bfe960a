-------------------------- MODULE ThreadPoolProofs ---------------------------
(***************************************************************************)
(* Proofs about ThreadPool for every number of tasks and threads, however  *)
(* the pool is resized and stopped and whatever a stale flag reads as.     *)
(***************************************************************************)
EXTENDS ThreadPool, FiniteSetTheorems, SequenceTheorems, TLAPS

Distinct(s) == \A i, j \in DOMAIN s : i # j => s[i] # s[j]

-----------------------------------------------------------------------------
(* Queues without duplicates, and sets with at most one element.           *)

\* A task is in the queue or not.
LEMMA ContainsIsBoolean == \A s, x : Contains(s, x) \in BOOLEAN
  BY DEF Contains

\* push adds a task that the queue did not have.
LEMMA AppendContains ==
    ASSUME NEW S, NEW s \in Seq(S), NEW e \in S
    PROVE  /\ Append(s, e) \in Seq(S)
           /\ \A x : Contains(Append(s, e), x) <=> Contains(s, x) \/ x = e
           /\ Distinct(s) /\ ~Contains(s, e) => Distinct(Append(s, e))
  <1>1. /\ Append(s, e) \in Seq(S)
        /\ Len(Append(s, e)) = Len(s) + 1
        /\ \A i \in 1 .. Len(s) : Append(s, e)[i] = s[i]
        /\ Append(s, e)[Len(s) + 1] = e
    BY AppendProperties
  <1>2. /\ DOMAIN s = 1 .. Len(s) /\ Len(s) \in Nat
        /\ DOMAIN Append(s, e) = 1 .. Len(s) + 1
    BY <1>1, LenProperties
  <1>3. \A x : Contains(Append(s, e), x) <=> Contains(s, x) \/ x = e
    BY <1>1, <1>2 DEF Contains
  <1>4. Distinct(s) /\ ~Contains(s, e) => Distinct(Append(s, e))
    BY <1>1, <1>2 DEF Contains, Distinct
  <1> QED BY <1>1, <1>3, <1>4

\* pop takes the first one out, for good.
LEMMA TailContains ==
    ASSUME NEW S, NEW s \in Seq(S), s # <<>>, Distinct(s)
    PROVE  /\ Head(s) \in S /\ Contains(s, Head(s))
           /\ Tail(s) \in Seq(S) /\ Distinct(Tail(s))
           /\ \A x : Contains(Tail(s), x) <=> Contains(s, x) /\ x # Head(s)
  <1>1. /\ Head(s) \in S
        /\ Tail(s) \in Seq(S)
        /\ Len(Tail(s)) = Len(s) - 1
        /\ \A i \in 1 .. Len(Tail(s)) : Tail(s)[i] = s[i + 1]
    BY HeadTailProperties
  <1>2. /\ DOMAIN s = 1 .. Len(s)
        /\ Len(s) \in Nat \ {0}
        /\ DOMAIN Tail(s) = 1 .. Len(s) - 1
    BY <1>1, LenProperties, EmptySeq
  <1>3. Head(s) = s[1] /\ Contains(s, Head(s))
    BY <1>2 DEF Contains
  <1>4. Distinct(Tail(s))
    BY <1>1, <1>2 DEF Distinct
  <1>5. ASSUME NEW x, Contains(Tail(s), x)
        PROVE  Contains(s, x) /\ x # Head(s)
    <2>1. PICK i \in 1 .. Len(s) - 1 : Tail(s)[i] = x
      BY <1>1, <1>5 DEF Contains
    <2>2. i + 1 \in 1 .. Len(s) /\ s[i + 1] = x /\ i + 1 # 1
      BY <1>1, <1>2, <2>1
    <2> QED BY <1>2, <1>3, <2>2 DEF Contains, Distinct
  <1>6. ASSUME NEW x, Contains(s, x), x # Head(s)
        PROVE  Contains(Tail(s), x)
    <2>1. PICK i \in 1 .. Len(s) : s[i] = x
      BY <1>6 DEF Contains
    <2>2. i - 1 \in 1 .. Len(s) - 1 /\ (i - 1) + 1 = i
      BY <1>2, <1>3, <1>6, <2>1
    <2>3. Tail(s)[i - 1] = x
      BY <1>1, <2>1, <2>2
    <2> QED BY <1>1, <2>2, <2>3 DEF Contains
  <1> QED BY <1>1, <1>3, <1>4, <1>5, <1>6

\* A sequence is empty when it contains nothing.
LEMMA EmptyContains ==
    ASSUME NEW S, NEW s \in Seq(S)
    PROVE  s = <<>> <=> \A x \in S : ~Contains(s, x)
  <1>1. ASSUME s # <<>>
        PROVE  \E x \in S : Contains(s, x)
    <2>1. Len(s) \in Nat \ {0} /\ \A i \in 1 .. Len(s) : s[i] \in S
      BY <1>1, EmptySeq, LenProperties, ElementOfSeq
    <2>2. 1 \in 1 .. Len(s)
      BY <2>1
    <2> QED BY <2>1, <2>2 DEF Contains
  <1>2. ASSUME NEW x \in S, s = <<>>, Contains(s, x)
        PROVE  FALSE
    BY <1>2 DEF Contains
  <1> QED BY <1>1, <1>2

\* A set without two elements counts as one or none.
LEMMA AtMostOne ==
    ASSUME NEW S, \A x, y \in S : x = y
    PROVE  Cardinality(S) = IF S = {} THEN 0 ELSE 1
  <1>1. CASE S = {}
    BY <1>1, FS_EmptySet
  <1>2. CASE S # {}
    <2>1. PICK x \in S : S = {x}
      BY <1>2
    <2> QED BY <1>2, <2>1, FS_Singleton
  <1> QED BY <1>1, <1>2

-----------------------------------------------------------------------------
(* The invariant.                                                          *)

\* A task is in one place, and has been pushed exactly when it is in one.
Once(t) ==
    /\ ran[t] \in {0, 1}
    /\ Contains(taskQue, t) => ran[t] = 0 /\ t \notin dropped
    /\ ran[t] = 1 => t \notin dropped
    /\ \A w \in Workers :
          held[w] = t => ran[t] = 0 /\ t \notin dropped /\ ~Contains(taskQue, t)
    /\ \A w, v \in Workers : held[w] = t /\ held[v] = t => w = v
    /\ t \in pushed <=> \/ Contains(taskQue, t)
                        \/ \E w \in Workers : held[w] = t
                        \/ ran[t] = 1
                        \/ t \in dropped

OnePlace ==
    /\ Distinct(taskQue)
    /\ \A t \in Tasks : Once(t)
    /\ \A w \in Workers : held[w] # NoTask <=> wpc[w] = "run"

\* The workers that will look into the queue before they can end or wait.
Looking == {w \in Workers : wpc[w] \in {"pop", "lock", "test"}}

\* While a worker waits, each task in the queue has a worker that will look for
\* it, or is the one whose notification is still to come.
Counted ==
    /\ IsFiniteSet({w \in Workers : wpc[w] # "none"})
    /\ Waiting # {} =>
          Len(taskQue) \leq Cardinality(Looking) + (IF opc = "notify" THEN 1 ELSE 0)

\* The predicate is evaluated with the mutex; what has been pushed since the
\* queue was seen empty has not been notified.
Guarded ==
    \A w \in Workers :
       /\ wpc[w] \in {"test", "decide"} => mutex = w
       /\ wpc[w] = "decide" =>
             taskQue = <<>> \/ (opc = "notify" /\ Len(taskQue) = 1)

IInv == TypeOK /\ OnePlace /\ Counted /\ Guarded

-----------------------------------------------------------------------------
(* Types.                                                                  *)

Flag == {{}, {TRUE}, {FALSE}}

\* What FlagNext, StopFlag and Spawn write into the vector keeps its length.
LEMMA FlagWritten ==
    ASSUME NEW i \in 1 .. Len(flags), NEW b \in Flag, flags \in Seq(Flag)
    PROVE  /\ [flags EXCEPT ![i] = b] \in Seq(Flag)
           /\ Len([flags EXCEPT ![i] = b]) = Len(flags)
  BY ExceptSeq

\* resize keeps a prefix of both vectors.
LEMMA KeptIsPrefix == TypeOK => Kept \in 0 .. Len(flags)
  <1> SUFFICES ASSUME TypeOK
               PROVE  Kept \in 0 .. Len(flags)
    OBVIOUS
  <1>1. Len(flags) \in Nat /\ DOMAIN flags = 1 .. Len(flags)
    <2>1. flags \in Seq(Flag)
      BY DEF TypeOK, Flag
    <2> QED BY ONLY <2>1, LenProperties
  <1>2. IsFiniteSet(1 .. Len(flags)) /\ Cardinality(1 .. Len(flags)) = Len(flags)
    <2> DEFINE n == Len(flags)
    <2>1. n \in Nat
      BY <1>1
    <2> HIDE DEF n
    <2>2. IsFiniteSet(1 .. n) /\ Cardinality(1 .. n) = n
      BY ONLY <2>1, FS_Interval
    <2> QED BY <2>2 DEF n
  <1>3. {i \in DOMAIN flags : flags[i] # {TRUE}} \subseteq 1 .. Len(flags)
    BY <1>1
  <1>4. /\ Cardinality({i \in DOMAIN flags : flags[i] # {TRUE}}) \in Nat
        /\ Cardinality({i \in DOMAIN flags : flags[i] # {TRUE}}) \leq Len(flags)
    BY <1>2, <1>3, FS_Subset, FS_CardinalityType
  <1> QED BY <1>1, <1>4 DEF Kept

\* A notification leaves workers where workers can be.
LEMMA WokenType ==
    ASSUME TypeOK, NEW ws
    PROVE  Woken(ws) \in [Workers -> {"none", "pop", "run", "flag", "lock", "test", "decide",
                                      "wait", "exit"}]
  BY DEF TypeOK, Woken

\* What a worker that asks for a task does to the types.
LEMMA PopType ==
    ASSUME TypeOK, NEW w \in Workers, NEW found, NEW empty, Pop(w, found, empty),
           {found, empty} \subseteq {"run", "lock", "decide"}
    PROVE  /\ taskQue' \in Seq(Tasks)
           /\ wpc' \in [Workers -> {"none", "pop", "run", "flag", "lock", "test", "decide",
                                    "wait", "exit"}]
           /\ held' \in [Workers -> Tasks \cup {NoTask}]
  <1>1. CASE taskQue = <<>>
    BY <1>1 DEF Pop, TypeOK
  <1>2. CASE taskQue # <<>>
    <2>1. Head(taskQue) \in Tasks /\ Tail(taskQue) \in Seq(Tasks)
      BY <1>2, HeadTailProperties DEF TypeOK
    <2> QED BY <1>2, <2>1 DEF Pop, TypeOK
  <1> QED BY <1>1, <1>2

\* The types at the start.
LEMMA InitType == Init => TypeOK
  <1> SUFFICES ASSUME Init
               PROVE  TypeOK
    OBVIOUS
  <1>1. /\ taskQue \in Seq(Tasks) /\ threads \in Seq(Workers)
        /\ flags \in Seq({{}, {TRUE}, {FALSE}})
        /\ Len(threads) = 0 /\ Len(flags) = 0
    BY DEF Init
  <1>2. at \in Nat \ {0} /\ resizes \in 0 .. MaxResizes /\ at > Len(flags)
    BY <1>1, SizeAssumption DEF Init
  <1> QED BY <1>1, <1>2 DEF Init, TypeOK

\* Every step keeps the types, the loops inside the vectors, and the two
\* vectors of one length.
LEMMA NextType == IInv /\ [Next]_vars => TypeOK'
  <1> SUFFICES ASSUME IInv, [Next]_vars
               PROVE  TypeOK'
    OBVIOUS
  <1>0. TypeOK /\ Len(flags) \in Nat /\ Len(threads) \in Nat /\ crashed' \in BOOLEAN
    <2>1. TypeOK
      BY DEF IInv
    <2>2. crashed' = crashed \/ crashed' = TRUE
      BY DEF Next, OwnerCall, OwnerStep, WorkerStep, Goes, Crash, vars
    <2> QED BY <2>1, <2>2, LenProperties DEF TypeOK
  <1>1. ASSUME NEW t \in Tasks, Push(t)
        PROVE  TypeOK'
    <2>1. Append(taskQue, t) \in Seq(Tasks)
      BY <1>0, AppendProperties DEF TypeOK
    <2> QED BY <1>0, <1>1, <2>1 DEF Push, AfterPush, TypeOK, poolVars, workerVars
  <1>2. ASSUME NEW n \in Sizes, Resize(n)
        PROVE  TypeOK'
    BY <1>0, <1>2, SizeAssumption DEF Resize, TypeOK, queueVars, poolVars, workerVars
  <1>3. ASSUME NEW isWait \in Stops, Stop(isWait)
        PROVE  TypeOK'
    BY <1>0, <1>3, ValueAssumption DEF Stop, TypeOK, queueVars, workerVars
  <1>4. CASE NotifyOne
    <2>1. PICK ws \in ToldOne : wpc' = Woken(ws)
      BY <1>4 DEF NotifyOne
    <2> QED BY <1>0, <1>4, <2>1, WokenType DEF NotifyOne, TypeOK, queueVars, poolVars
  <1>5. CASE Moved
    <2> DEFINE nulls == [i \in 1 .. at - Len(flags) |-> {}]
    <2>1. at - Len(flags) \in Nat \ {0}
      BY <1>0, <1>5 DEF Moved, TypeOK
    <2>2. nulls \in Seq(Flag) /\ Len(nulls) = at - Len(flags)
      <3> DEFINE m == at - Len(flags)
      <3>1. m \in Nat /\ {} \in Flag
        BY <2>1 DEF Flag
      <3> HIDE DEF m
      <3>2. [i \in 1 .. m |-> {}] \in Seq(Flag) /\ Len([i \in 1 .. m |-> {}]) = m
        BY ONLY <3>1
      <3> QED BY <3>2 DEF m
    <2>3. flags \in Seq(Flag)
      BY <1>0 DEF TypeOK, Flag
    <2> HIDE DEF nulls
    <2>4. flags \o nulls \in Seq(Flag) /\ Len(flags \o nulls) = Len(flags) + Len(nulls)
      BY ONLY <2>2, <2>3, ConcatProperties
    <2>5. flags' \in Seq(Flag) /\ Len(flags') = at
      BY <1>0, <1>5, <2>1, <2>2, <2>4 DEF Moved, nulls, TypeOK
    <2> QED BY <1>0, <1>5, <2>1, <2>5 DEF Moved, TypeOK, Flag, queueVars, workerVars
  <1>6. ASSUME NEW w \in Workers, Spawn(w)
        PROVE  TypeOK'
    <2>1. at \in 1 .. Len(flags) /\ flags \in Seq(Flag) /\ {FALSE} \in Flag
      BY <1>0, <1>6 DEF Spawn, TypeOK, Flag
    <2>2. flags' \in Seq(Flag) /\ Len(flags') = Len(flags)
      BY <1>6, <2>1, FlagWritten DEF Spawn
    <2>3. threads' \in Seq(Workers) /\ Len(threads') = Len(threads) + 1
      BY <1>0, <1>6, AppendProperties DEF Spawn, TypeOK
    <2>4. /\ at' \in Nat \ {0}
          /\ opc' \in {"spawn", "idle"}
          /\ opc' = "spawn" => at' \leq Len(flags')
          /\ Len(threads') = IF opc' = "spawn" THEN at' - 1 ELSE Len(flags')
      <3>1. /\ at \in Nat \ {0} /\ at' = at + 1 /\ Len(threads) = at - 1
            /\ at \leq Len(flags) /\ Len(flags) \in Nat
            /\ opc' = IF at = Len(flags) THEN "idle" ELSE "spawn"
        BY <1>0, <1>6 DEF Spawn, TypeOK
      <3>2. CASE at = Len(flags)
        BY <2>2, <2>3, <3>1, <3>2
      <3>3. CASE at # Len(flags)
        BY <2>2, <2>3, <3>1, <3>3
      <3> QED BY <3>2, <3>3
    <2>5. wpc' \in [Workers -> {"none", "pop", "run", "flag", "lock", "test", "decide",
                                "wait", "exit"}]
          /\ ix' \in [Workers -> Nat]
      BY <1>0, <1>6, <2>1 DEF Spawn, TypeOK
    <2> QED BY <1>0, <1>6, <2>2, <2>3, <2>4, <2>5 DEF Spawn, TypeOK, Flag, queueVars
  <1>7. CASE FlagNext
    <2>1. at \in 1 .. Len(flags) /\ flags \in Seq(Flag) /\ {TRUE} \in Flag
      BY <1>0, <1>7 DEF FlagNext, TypeOK, Flag
    <2>2. flags' \in Seq(Flag) /\ Len(flags') = Len(flags)
      BY <1>7, <2>1, FlagWritten DEF FlagNext
    <2> QED BY <1>0, <1>7, <2>1, <2>2 DEF FlagNext, TypeOK, Flag, queueVars, workerVars
  <1>8. CASE Cut
    <2> DEFINE k == Kept
    <2>1. k \in 0 .. Len(flags) /\ Len(threads) = Len(flags)
      BY <1>0, <1>8, KeptIsPrefix DEF Cut, TypeOK
    <2>2. /\ \A i \in 1 .. k : flags[i] \in Flag
          /\ \A i \in 1 .. k : threads[i] \in Workers
      <3>1. flags \in Seq(Flag) /\ threads \in Seq(Workers)
        BY <1>0 DEF TypeOK, Flag
      <3>2. /\ \A i \in 1 .. Len(flags) : flags[i] \in Flag
            /\ \A i \in 1 .. Len(threads) : threads[i] \in Workers
        BY ONLY <3>1, ElementOfSeq
      <3> QED BY <1>0, <2>1, <3>2
    <2> HIDE DEF k
    <2>3. k \in Int /\ 1 \in Int
      BY <2>1
    <2>4. SubSeq(flags, 1, k) \in Seq(Flag) /\ Len(SubSeq(flags, 1, k)) = k
      BY <2>1, <2>2, <2>3, SubSeqProperties
    <2>5. SubSeq(threads, 1, k) \in Seq(Workers) /\ Len(SubSeq(threads, 1, k)) = k
      BY <2>1, <2>2, <2>3, SubSeqProperties
    <2>6. /\ flags' \in Seq(Flag) /\ threads' \in Seq(Workers)
          /\ Len(flags') = Len(threads')
      BY <1>8, <2>4, <2>5 DEF Cut, k
    <2> QED BY <1>0, <1>8, <2>6 DEF Cut, TypeOK, Flag, queueVars, workerVars
  <1>9. CASE StopFlag
    <2>1. at \in 1 .. Len(flags) /\ flags \in Seq(Flag) /\ {TRUE} \in Flag
      BY <1>0, <1>9 DEF StopFlag, TypeOK, Flag
    <2>2. flags' \in Seq(Flag) /\ Len(flags') = Len(flags)
      BY <1>9, <2>1, FlagWritten DEF StopFlag
    <2> QED BY <1>0, <1>9, <2>1, <2>2 DEF StopFlag, TypeOK, Flag, queueVars, workerVars
  <1>10. ASSUME Clear
         PROVE  /\ taskQue' \in Seq(Tasks) /\ pushed' \subseteq Tasks /\ dropped' \subseteq Tasks
                /\ ran' \in [Tasks -> Nat]
    <2>1. ToSet(taskQue) \subseteq Tasks
      BY <1>0, ElementOfSeq, LenProperties DEF ToSet, TypeOK
    <2> QED BY <1>0, <1>10, <2>1 DEF Clear, TypeOK
  <1>11. CASE StopFlagged
    BY <1>0, <1>10, <1>11 DEF StopFlagged, TypeOK, poolVars, workerVars
  <1>12. CASE NotifyAll
    <2>1. PICK ws \in ToldAll : wpc' = Woken(ws)
      BY <1>12 DEF NotifyAll
    <2> QED BY <1>0, <1>12, <2>1, WokenType DEF NotifyAll, TypeOK, queueVars, poolVars
  <1>13. CASE Joined
    <2>1. /\ threads' \in Seq(Workers) /\ flags' \in Seq({{}, {TRUE}, {FALSE}})
          /\ Len(threads') = 0 /\ Len(flags') = 0
      BY <1>13 DEF Joined
    <2> QED BY <1>0, <1>10, <1>13, <2>1 DEF Joined, TypeOK, workerVars
  <1>14. ASSUME NEW w \in Workers, WorkerStep(w)
         PROVE  TypeOK'
    <2>1. CASE PopTask(w)
      <3>1. Pop(w, "run", "lock")
        BY <2>1 DEF PopTask
      <3> QED BY <1>0, <2>1, <3>1, PopType DEF PopTask, TypeOK, poolVars, ownerVars
    <2>2. CASE RunTask(w)
      <3>1. held[w] \in Tasks
        BY <1>0, <2>2 DEF RunTask, IInv, OnePlace, TypeOK
      <3> QED BY <1>0, <2>2, <3>1 DEF RunTask, TypeOK, poolVars, ownerVars
    <2>3. CASE AfterTask(w)
      BY <1>0, <2>3 DEF AfterTask, TypeOK, queueVars, poolVars, ownerVars
    <2>4. CASE Acquire(w)
      BY <1>0, <2>4 DEF Acquire, TypeOK, queueVars, poolVars, ownerVars
    <2>5. CASE Test(w)
      <3>1. Pop(w, "run", "decide")
        BY <2>5 DEF Test, WithTask
      <3> QED BY <1>0, <2>5, <3>1, PopType DEF Test, TypeOK, poolVars, ownerVars
    <2>6. CASE Decide(w)
      BY <1>0, <2>6 DEF Decide, TypeOK, queueVars, poolVars, ownerVars
    <2> QED BY <1>14, <2>1, <2>2, <2>3, <2>4, <2>5, <2>6 DEF WorkerStep
  <1>15. ASSUME NEW w \in Workers, SpuriousWakeup(w)
         PROVE  TypeOK'
    BY <1>0, <1>15, WokenType DEF SpuriousWakeup, TypeOK, queueVars, poolVars, ownerVars
  <1>16. ASSUME NEW w \in Workers, Crash(w)
         PROVE  TypeOK'
    BY <1>0, <1>16 DEF Crash, TypeOK, queueVars, poolVars, ownerVars, workerVars
  <1>17. CASE UNCHANGED vars
    BY <1>0, <1>17 DEF TypeOK, vars, queueVars, poolVars, ownerVars, workerVars
  <1> QED
    BY <1>1, <1>2, <1>3, <1>4, <1>5, <1>6, <1>7, <1>8, <1>9, <1>11, <1>12, <1>13, <1>14,
       <1>15, <1>17, <1>16 DEF Next, OwnerCall, OwnerStep

-----------------------------------------------------------------------------
(* A task is in one place.                                                 *)

\* A notification wakes workers that wait.
LEMMA ToldWait == /\ \A ws \in ToldOne : ws \subseteq Waiting
                  /\ \A ws \in ToldAll : ws \subseteq Waiting
  BY DEF ToldOne, ToldAll

\* No task is anywhere at the start.
LEMMA InitPlaces == Init => OnePlace
  <1> SUFFICES ASSUME Init
               PROVE  OnePlace
    OBVIOUS
  <1>1. Distinct(taskQue) /\ \A t \in Tasks : ~Contains(taskQue, t)
    BY DEF Init, Distinct, Contains
  <1>2. \A t \in Tasks : Once(t)
    BY <1>1, NullAssumption DEF Init, Once
  <1> QED BY <1>1, <1>2 DEF Init, OnePlace

\* Steps that touch no task.
LEMMA SamePlaces ==
    ASSUME TypeOK, OnePlace, UNCHANGED <<queueVars, held>>,
           \A w \in Workers : wpc'[w] = "run" <=> wpc[w] = "run"
    PROVE  OnePlace'
  <1>1. UNCHANGED <<taskQue, pushed, ran, dropped, held>>
    BY DEF queueVars
  <1>2. Distinct(taskQue')
    BY <1>1 DEF OnePlace
  <1>3. ASSUME NEW t \in Tasks
        PROVE  Once(t)'
    BY <1>1 DEF OnePlace, Once
  <1> QED BY <1>1, <1>2, <1>3 DEF OnePlace

\* push.
LEMMA PushPlaces ==
    ASSUME TypeOK, OnePlace, NEW e \in Tasks, Push(e)
    PROVE  OnePlace'
  <1>1. /\ e \notin pushed /\ taskQue' = Append(taskQue, e) /\ pushed' = pushed \cup {e}
        /\ UNCHANGED <<ran, dropped, wpc, held>>
    BY DEF Push, workerVars
  <1>2. taskQue \in Seq(Tasks)
    BY DEF TypeOK
  <1>3. Once(e)
    BY DEF OnePlace
  <1>4. ~Contains(taskQue, e) /\ ran[e] = 0 /\ e \notin dropped
        /\ \A w \in Workers : held[w] # e
    BY <1>1, <1>3 DEF Once
  <1>5. /\ \A x : Contains(taskQue', x) <=> Contains(taskQue, x) \/ x = e
        /\ Distinct(taskQue')
    BY <1>1, <1>2, <1>4, AppendContains DEF OnePlace
  <1>6. ASSUME NEW t \in Tasks
        PROVE  Once(t)'
    <2>1. Once(t)
      BY DEF OnePlace
    <2>2. CASE t = e
      BY <1>1, <1>4, <1>5, <2>2 DEF Once
    <2>3. CASE t # e
      <3>1. Contains(taskQue', t) <=> Contains(taskQue, t)
        BY <1>5, <2>3
      <3> QED BY <1>1, <2>1, <2>3, <3>1 DEF Once
    <2> QED BY <2>2, <2>3
  <1> QED BY <1>1, <1>5, <1>6 DEF OnePlace

\* clear_task_queue.
LEMMA ClearPlaces ==
    ASSUME TypeOK, OnePlace, Clear, UNCHANGED <<wpc, held>>
    PROVE  OnePlace'
  <1>1. /\ taskQue' = <<>> /\ dropped' = dropped \cup ToSet(taskQue)
        /\ UNCHANGED <<pushed, ran, wpc, held>>
    BY DEF Clear
  <1>2. taskQue \in Seq(Tasks) /\ DOMAIN taskQue = 1 .. Len(taskQue)
    BY LenProperties DEF TypeOK
  <1>3. \A t : t \in ToSet(taskQue) <=> Contains(taskQue, t)
    BY <1>2 DEF ToSet, Contains
  <1>4. Distinct(taskQue') /\ \A t : ~Contains(taskQue', t)
    BY <1>1 DEF Distinct, Contains
  <1>5. ASSUME NEW t \in Tasks
        PROVE  Once(t)'
    <2>1. Once(t)
      BY DEF OnePlace
    <2>2. t \in dropped' <=> t \in dropped \/ Contains(taskQue, t)
      BY <1>1, <1>3
    <2>3. ~Contains(taskQue', t)
      BY <1>4
    <2> QED BY <1>1, <2>1, <2>2, <2>3 DEF Once
  <1> QED BY <1>1, <1>4, <1>5 DEF OnePlace

\* pop, in a worker's loop and in the predicate.
LEMMA PopPlaces ==
    ASSUME TypeOK, OnePlace, NEW u \in Workers, NEW empty \in {"lock", "decide"},
           wpc[u] \in {"pop", "test"}, Pop(u, "run", empty), UNCHANGED <<pushed, ran, dropped>>
    PROVE  OnePlace'
  <1>1. CASE taskQue = <<>>
    <2>1. UNCHANGED <<queueVars, held>>
      BY <1>1 DEF Pop, queueVars
    <2>2. \A w \in Workers : wpc'[w] = "run" <=> wpc[w] = "run"
      BY <1>1 DEF Pop, TypeOK
    <2> QED BY <2>1, <2>2, SamePlaces
  <1>2. CASE taskQue # <<>>
    <2> DEFINE e == Head(taskQue)
    <2>1. /\ taskQue' = Tail(taskQue)
          /\ wpc' = [wpc EXCEPT ![u] = "run"] /\ held' = [held EXCEPT ![u] = e]
      BY <1>2 DEF Pop
    <2>2. taskQue \in Seq(Tasks) /\ Distinct(taskQue)
      BY DEF TypeOK, OnePlace
    <2>3. /\ e \in Tasks /\ Contains(taskQue, e)
          /\ Distinct(taskQue')
          /\ \A x : Contains(taskQue', x) <=> Contains(taskQue, x) /\ x # e
      BY <1>2, <2>1, <2>2, TailContains
    <2> HIDE DEF e
    <2>4. held[u] = NoTask
      BY DEF OnePlace
    <2>5. /\ held'[u] = e /\ wpc'[u] = "run"
          /\ \A w \in Workers : w # u => held'[w] = held[w] /\ wpc'[w] = wpc[w]
      BY <2>1 DEF TypeOK
    <2>6. e # NoTask
      BY <2>3, NullAssumption
    <2>7. ASSUME NEW t \in Tasks
          PROVE  Once(t)'
      <3>1. Once(t) /\ t # NoTask
        BY NullAssumption DEF OnePlace
      <3>2. CASE t = e
        <4>1. ran[t] = 0 /\ t \notin dropped /\ t \in pushed /\ \A w \in Workers : held[w] # t
          BY <2>3, <3>1, <3>2 DEF Once
        <4>2. \A w \in Workers : held'[w] = t => w = u
          BY <2>5, <4>1
        <4> QED BY <2>3, <2>5, <3>2, <4>1, <4>2 DEF Once
      <3>3. CASE t # e
        <4>1. Contains(taskQue', t) <=> Contains(taskQue, t)
          BY <2>3, <3>3
        <4>2. \A w \in Workers : held'[w] = t <=> held[w] = t
          BY <2>4, <2>5, <3>1, <3>3
        <4> QED BY <3>1, <4>1, <4>2 DEF Once
      <3> QED BY <3>2, <3>3
    <2>8. \A w \in Workers : held'[w] # NoTask <=> wpc'[w] = "run"
      BY <2>5, <2>6 DEF OnePlace
    <2> QED BY <2>3, <2>7, <2>8 DEF OnePlace
  <1> QED BY <1>1, <1>2

\* The task is executed.
LEMMA RunPlaces ==
    ASSUME TypeOK, OnePlace, NEW u \in Workers, RunTask(u)
    PROVE  OnePlace'
  <1> DEFINE e == held[u]
  <1>1. e \in Tasks /\ wpc[u] = "run"
    BY DEF RunTask, OnePlace, TypeOK
  <1>2. /\ ran' = [ran EXCEPT ![e] = @ + 1] /\ held' = [held EXCEPT ![u] = NoTask]
        /\ wpc' = [wpc EXCEPT ![u] = "flag"]
        /\ UNCHANGED <<taskQue, pushed, dropped>>
    BY DEF RunTask
  <1>3. Once(e)
    BY <1>1 DEF OnePlace
  <1>4. /\ ran[e] = 0 /\ e \notin dropped /\ ~Contains(taskQue, e) /\ e \in pushed
        /\ \A w \in Workers : held[w] = e => w = u
    BY <1>3 DEF Once
  <1>5. /\ ran'[e] = 1 /\ \A t \in Tasks : t # e => ran'[t] = ran[t]
        /\ held'[u] = NoTask /\ wpc'[u] = "flag"
        /\ \A w \in Workers : w # u => held'[w] = held[w] /\ wpc'[w] = wpc[w]
    BY <1>1, <1>2, <1>4 DEF TypeOK
  <1> HIDE DEF e
  <1>6. ASSUME NEW t \in Tasks
        PROVE  Once(t)'
    <2>1. Once(t) /\ t # NoTask
      BY NullAssumption DEF OnePlace
    <2>2. CASE t = e
      <3>1. \A w \in Workers : held'[w] # t
        BY <1>4, <1>5, <2>1, <2>2
      <3> QED BY <1>2, <1>4, <1>5, <2>2, <3>1 DEF Once
    <2>3. CASE t # e
      <3>1. \A w \in Workers : held'[w] = t <=> held[w] = t
        BY <1>5, <2>1, <2>3 DEF e
      <3>2. ran'[t] = ran[t]
        BY <1>5, <2>3
      <3> QED BY <1>2, <2>1, <3>1, <3>2 DEF Once
    <2> QED BY <2>2, <2>3
  <1>7. \A w \in Workers : held'[w] # NoTask <=> wpc'[w] = "run"
    BY <1>5 DEF OnePlace
  <1>8. Distinct(taskQue')
    BY <1>2 DEF OnePlace
  <1> QED BY <1>6, <1>7, <1>8 DEF OnePlace

\* Every step leaves each task in one place.
LEMMA NextPlaces == IInv /\ [Next]_vars => OnePlace'
  <1> SUFFICES ASSUME TypeOK, OnePlace, [Next]_vars
               PROVE  OnePlace'
    BY DEF IInv
  <1>0. ASSUME NEW ws \in SUBSET Waiting, wpc' = Woken(ws)
        PROVE  \A w \in Workers : wpc'[w] = "run" <=> wpc[w] = "run"
    BY <1>0 DEF Woken, Waiting
  <1>1. CASE \E t \in Tasks : Push(t)
    BY <1>1, PushPlaces
  <1>2. CASE \/ \E n \in Sizes : Resize(n)
             \/ \E isWait \in Stops : Stop(isWait)
             \/ Moved
             \/ FlagNext
             \/ Cut
             \/ StopFlag
             \/ \E w \in Workers : Crash(w)
             \/ UNCHANGED vars
    <2>1. UNCHANGED <<queueVars, held, wpc>>
      BY <1>2 DEF Crash, Resize, Stop, Moved, FlagNext, Cut, StopFlag, vars, workerVars
    <2> QED BY <2>1, SamePlaces
  <1>3. CASE NotifyOne \/ NotifyAll
    <2>1. PICK ws \in SUBSET Waiting : wpc' = Woken(ws)
      BY <1>3, ToldWait DEF NotifyOne, NotifyAll
    <2>2. UNCHANGED <<queueVars, held>>
      BY <1>3 DEF NotifyOne, NotifyAll
    <2> QED BY <1>0, <2>1, <2>2, SamePlaces
  <1>4. ASSUME NEW w \in Workers, Spawn(w)
        PROVE  OnePlace'
    <2>1. UNCHANGED <<queueVars, held>>
      BY <1>4 DEF Spawn
    <2>2. \A v \in Workers : wpc'[v] = "run" <=> wpc[v] = "run"
      BY <1>4 DEF Spawn, TypeOK
    <2> QED BY <2>1, <2>2, SamePlaces
  <1>5. CASE StopFlagged \/ Joined
    <2>1. Clear /\ UNCHANGED <<wpc, held>>
      BY <1>5 DEF StopFlagged, Joined, workerVars
    <2> QED BY <2>1, ClearPlaces
  <1>6. ASSUME NEW w \in Workers, PopTask(w) \/ Test(w)
        PROVE  OnePlace'
    <2>1. /\ wpc[w] \in {"pop", "test"}
          /\ \E empty \in {"lock", "decide"} : Pop(w, "run", empty)
          /\ UNCHANGED <<pushed, ran, dropped>>
      BY <1>6 DEF PopTask, Test, WithTask
    <2> QED BY <2>1, PopPlaces
  <1>7. ASSUME NEW w \in Workers, RunTask(w)
        PROVE  OnePlace'
    BY <1>7, RunPlaces
  <1>8. ASSUME NEW w \in Workers, AfterTask(w) \/ Acquire(w) \/ Decide(w)
        PROVE  OnePlace'
    <2>1. UNCHANGED <<queueVars, held>>
      BY <1>8 DEF AfterTask, Acquire, Decide
    <2>2. \E s \in {"exit", "pop", "test", "wait"} : wpc' = [wpc EXCEPT ![w] = s]
      BY <1>8 DEF AfterTask, Acquire, Decide
    <2>3. wpc[w] # "run"
      BY <1>8 DEF AfterTask, Acquire, Decide
    <2>4. \A v \in Workers : wpc'[v] = "run" <=> wpc[v] = "run"
      BY <2>2, <2>3 DEF TypeOK
    <2> QED BY <2>1, <2>4, SamePlaces
  <1>9. ASSUME NEW w \in Workers, SpuriousWakeup(w)
        PROVE  OnePlace'
    <2>1. {w} \in SUBSET Waiting /\ wpc' = Woken({w}) /\ UNCHANGED <<queueVars, held>>
      BY <1>9 DEF SpuriousWakeup, Waiting
    <2> QED BY <1>0, <2>1, SamePlaces
  <1> QED
    BY <1>1, <1>2, <1>3, <1>4, <1>5, <1>6, <1>7, <1>8, <1>9 
    DEF Next, OwnerCall, OwnerStep, WorkerStep

-----------------------------------------------------------------------------
(* The predicate is evaluated with the mutex.                              *)

\* Every step preserves Guarded.
LEMMA NextGuarded == IInv /\ [Next]_vars => Guarded'
  <1> SUFFICES ASSUME TypeOK, Guarded, [Next]_vars
               PROVE  Guarded'
    BY DEF IInv
  <1> USE DEF Guarded
  <1>0. ASSUME NEW ws, wpc' = Woken(ws)
        PROVE  \A w \in Workers : wpc'[w] \in {"test", "decide"} => wpc'[w] = wpc[w]
    BY <1>0 DEF Woken
  <1>1. ASSUME NEW t \in Tasks, Push(t)
        PROVE  Guarded'
    <2>1. /\ opc = "idle" /\ opc' = "notify" /\ UNCHANGED <<mutex, wpc>>
          /\ taskQue' = Append(taskQue, t)
      BY <1>1 DEF Push, AfterPush, workerVars
    <2>2. taskQue = <<>> => Len(taskQue') = 1
      BY <2>1
    <2> QED BY <2>1, <2>2
  <1>2. CASE \/ \E n \in Sizes : Resize(n)
             \/ \E isWait \in Stops : Stop(isWait)
    <2>1. opc = "idle" /\ UNCHANGED <<taskQue, mutex, wpc>>
      BY <1>2 DEF Resize, Stop, queueVars, workerVars
    <2> QED BY <2>1
  <1>3. CASE NotifyOne \/ NotifyAll
    <2>1. PICK ws : wpc' = Woken(ws)
      BY <1>3 DEF NotifyOne, NotifyAll
    <2>2. mutex = Nobody /\ UNCHANGED <<taskQue, mutex>>
      BY <1>3 DEF NotifyOne, NotifyAll, MayNotify, queueVars
    <2>3. \A w \in Workers : wpc'[w] \notin {"test", "decide"}
      BY <1>0, <2>1, <2>2, NullAssumption
    <2> QED BY <2>3
  <1>4. CASE Moved \/ FlagNext \/ Cut \/ StopFlag
    <2>1. opc # "notify" /\ UNCHANGED <<taskQue, mutex, wpc>>
      BY <1>4 DEF Moved, FlagNext, Cut, StopFlag, queueVars, workerVars
    <2> QED BY <2>1
  <1>5. ASSUME NEW u \in Workers, Spawn(u)
        PROVE  Guarded'
    <2>1. opc # "notify" /\ UNCHANGED <<taskQue, mutex>>
      BY <1>5 DEF Spawn, queueVars
    <2>2. \A w \in Workers : wpc'[w] \in {"test", "decide"} => wpc'[w] = wpc[w]
      BY <1>5 DEF Spawn, TypeOK
    <2> QED BY <2>1, <2>2
  <1>6. CASE StopFlagged \/ Joined
    <2>1. taskQue' = <<>> /\ UNCHANGED <<mutex, wpc>>
      BY <1>6 DEF StopFlagged, Joined, Clear, workerVars
    <2> QED BY <2>1
  <1>7. ASSUME NEW u \in Workers, WorkerStep(u)
        PROVE  Guarded'
    <2>0. opc' = opc
      BY <1>7 DEF WorkerStep, PopTask, RunTask, AfterTask, Acquire, Test, Decide, ownerVars
    <2>1. CASE PopTask(u)
      <3>1. /\ wpc[u] = "pop" /\ UNCHANGED mutex
            /\ taskQue' = IF taskQue = <<>> THEN <<>> ELSE Tail(taskQue)
        BY <2>1 DEF PopTask, Pop
      <3>2. \A w \in Workers : wpc'[w] \in {"test", "decide"} => wpc'[w] = wpc[w]
        BY <2>1 DEF PopTask, Pop, TypeOK
      <3>3. Len(taskQue) = 1 => taskQue' = <<>>
        <4>1. taskQue \in Seq(Tasks)
          BY DEF TypeOK
        <4> QED BY <3>1, <4>1, HeadTailProperties, EmptySeq
      <3> QED BY <2>0, <3>1, <3>2, <3>3
    <2>2. CASE RunTask(u) \/ AfterTask(u)
      <3>1. UNCHANGED <<taskQue, mutex>>
        BY <2>2 DEF RunTask, AfterTask, queueVars
      <3>2. \A w \in Workers : wpc'[w] \in {"test", "decide"} => wpc'[w] = wpc[w]
        BY <2>2 DEF RunTask, AfterTask, TypeOK
      <3> QED BY <2>0, <3>1, <3>2
    <2>3. CASE Acquire(u)
      <3>1. \A w \in Workers : wpc[w] \notin {"test", "decide"}
        BY <2>3, NullAssumption DEF Acquire
      <3> QED BY <2>3, <3>1 DEF Acquire, TypeOK
    <2>4. CASE Test(u)
      <3>1. mutex = u /\ \A w \in Workers : wpc[w] \in {"test", "decide"} => w = u
        BY <2>4 DEF Test
      <3>2. CASE taskQue = <<>>
        BY <2>4, <3>1, <3>2 DEF Test, Pop, TypeOK
      <3>3. CASE taskQue # <<>>
        BY <2>4, <3>1, <3>3 DEF Test, Pop, WithTask, TypeOK
      <3> QED BY <3>2, <3>3
    <2>5. CASE Decide(u)
      <3>1. mutex = u /\ \A w \in Workers : wpc[w] \in {"test", "decide"} => w = u
        BY <2>5 DEF Decide
      <3>2. wpc'[u] \in {"exit", "wait"} /\ \A w \in Workers : w # u => wpc'[w] = wpc[w]
        BY <2>5 DEF Decide, TypeOK
      <3> QED BY <3>1, <3>2
    <2> QED BY <1>7, <2>1, <2>2, <2>3, <2>4, <2>5 DEF WorkerStep
  <1>8. ASSUME NEW u \in Workers, SpuriousWakeup(u)
        PROVE  Guarded'
    <2>1. wpc' = Woken({u}) /\ UNCHANGED <<taskQue, mutex, opc>>
      BY <1>8 DEF SpuriousWakeup, queueVars, ownerVars
    <2> QED BY <1>0, <2>1
  <1>9. CASE (\E w \in Workers : Crash(w)) \/ UNCHANGED vars
    BY <1>9 DEF Crash, vars, queueVars, ownerVars, workerVars
  <1> QED
    BY <1>1, <1>2, <1>3, <1>4, <1>5, <1>6, <1>7, <1>8, <1>9
    DEF Next, OwnerCall, OwnerStep

-----------------------------------------------------------------------------
(* Tasks in the queue are counted against workers that look for one.       *)

Started == {w \in Workers : wpc[w] # "none"}
Due == IF opc = "notify" THEN 1 ELSE 0

\* Counted, with its parts named.
LEMMA CountedParts ==
    /\ Counted <=> /\ IsFiniteSet(Started)
                   /\ Waiting # {} => Len(taskQue) \leq Cardinality(Looking) + Due
    /\ Counted' <=> /\ IsFiniteSet(Started')
                    /\ Waiting' # {} => Len(taskQue') \leq Cardinality(Looking') + Due'
    /\ Due \in Nat /\ Due' \in Nat
  BY DEF Counted, Started, Due

\* Workers that look are started, so they can be counted.
LEMMA LookingFinite ==
    /\ IsFiniteSet(Started) => IsFiniteSet(Looking) /\ Cardinality(Looking) \in Nat
    /\ IsFiniteSet(Started') => IsFiniteSet(Looking') /\ Cardinality(Looking') \in Nat
  <1>1. Looking \in SUBSET Started /\ Looking' \in SUBSET Started'
    BY DEF Looking, Started
  <1> QED BY <1>1, FS_Subset, FS_CardinalityType

\* At most one worker is started in a step.
LEMMA StartedFinite ==
    ASSUME Counted, NEW u \in Workers, \A w \in Workers \ {u} : wpc'[w] # "none" => wpc[w] # "none"
    PROVE  IsFiniteSet(Started')
  <1>1. IsFiniteSet(Started)
    BY CountedParts
  <1>2. Started' \in SUBSET (Started \cup {u})
    BY DEF Started
  <1> QED BY <1>1, <1>2, FS_AddElement, FS_Subset

\* A step that takes no task away, and no worker from looking.
LEMMA CountedKept ==
    ASSUME TypeOK, TypeOK', Counted, IsFiniteSet(Started'),
           Looking \subseteq Looking', Waiting' # {} => Waiting # {},
           Len(taskQue') \leq Len(taskQue), opc = "notify" => opc' = "notify"
    PROVE  Counted'
  <1>1. Cardinality(Looking) \leq Cardinality(Looking')
    BY LookingFinite, FS_Subset
  <1>2. Cardinality(Looking) \in Nat /\ Cardinality(Looking') \in Nat
    BY CountedParts, LookingFinite
  <1>3. Due \leq Due'
    BY DEF Due
  <1>4. Len(taskQue) \in Nat /\ Len(taskQue') \in Nat
    BY LenProperties DEF TypeOK
  <1> QED BY <1>1, <1>2, <1>3, <1>4, CountedParts

\* A task popped takes one task and one worker away.
LEMMA CountedPop ==
    ASSUME TypeOK, Counted, NEW u \in Looking, taskQue # <<>>,
           taskQue' = Tail(taskQue), wpc' = [wpc EXCEPT ![u] = "run"], opc' = opc
    PROVE  Counted'
  <1>1. u \in Workers
    BY DEF Looking
  <1>2. /\ Looking' = Looking \ {u}
        /\ Waiting' = Waiting
        /\ IsFiniteSet(Started')
    BY <1>1, StartedFinite DEF Looking, Waiting, TypeOK
  <1>3. IsFiniteSet(Looking) /\ Cardinality(Looking) \in Nat
    BY CountedParts, LookingFinite
  <1>4. Cardinality(Looking') = Cardinality(Looking) - 1
    BY <1>2, <1>3, FS_RemoveElement
  <1>5. Len(taskQue') = Len(taskQue) - 1 /\ Len(taskQue) \in Nat
    BY HeadTailProperties, LenProperties DEF TypeOK
  <1>6. Due' = Due
    BY DEF Due
  <1> QED BY <1>2, <1>3, <1>4, <1>5, <1>6, CountedParts

\* notify_one: a worker that waits, if there is one, looks now.
LEMMA CountedNotifyOne ==
    ASSUME TypeOK, TypeOK', Counted, NotifyOne
    PROVE  Counted'
  <1>1. opc = "notify" /\ opc' = "idle" /\ UNCHANGED taskQue
    BY DEF NotifyOne, queueVars
  <1>2. PICK ws \in ToldOne : wpc' = Woken(ws)
    BY DEF NotifyOne
  <1>3. CASE Waiting = {}
    <2>1. ws = {}
      BY <1>2, <1>3 DEF ToldOne
    <2>2. wpc' = wpc
      BY <1>2, <2>1 DEF Woken, TypeOK
    <2>3. Waiting' = {} /\ Started' = Started
      BY <1>3, <2>2 DEF Waiting, Started
    <2> QED BY <2>3, CountedParts
  <1>4. CASE Waiting # {}
    <2>1. PICK u \in Waiting : ws = {u}
      BY <1>2, <1>4 DEF ToldOne
    <2>2. u \in Workers /\ wpc[u] = "wait"
      BY DEF Waiting
    <2>3. \A w \in Workers : wpc'[w] = IF w = u THEN "lock" ELSE wpc[w]
      BY <1>2, <2>1 DEF Woken
    <2>4. u \notin Looking /\ Looking' = Looking \cup {u} /\ IsFiniteSet(Started')
      BY <2>2, <2>3, StartedFinite DEF Looking
    <2>5. IsFiniteSet(Looking) /\ Cardinality(Looking) \in Nat
      BY CountedParts, LookingFinite
    <2>6. Cardinality(Looking') = Cardinality(Looking) + 1
      BY <2>4, <2>5, FS_AddElement
    <2>7. Due = 1 /\ Due' = 0
      BY <1>1 DEF Due
    <2>8. Len(taskQue) \in Nat
      BY LenProperties DEF TypeOK
    <2> QED BY <1>1, <1>4, <2>4, <2>5, <2>6, <2>7, <2>8, CountedParts
  <1> QED BY <1>3, <1>4

\* Every step preserves Counted.
LEMMA NextCounted == IInv /\ [Next]_vars => Counted'
  <1> SUFFICES ASSUME TypeOK, TypeOK', Counted, Guarded, [Next]_vars
               PROVE  Counted'
    BY NextType DEF IInv
  <1>0. taskQue \in Seq(Tasks) /\ Len(taskQue) \in Nat
    BY LenProperties DEF TypeOK
  <1>1. ASSUME UNCHANGED wpc
        PROVE  /\ Looking' = Looking /\ Waiting' = Waiting /\ Started' = Started
               /\ IsFiniteSet(Started')
    BY <1>1, CountedParts DEF Looking, Waiting, Started
  <1>2. ASSUME NEW u \in Workers, NEW s \in {"pop", "lock", "flag", "test", "exit"},
               wpc' = [wpc EXCEPT ![u] = s], wpc[u] \in {"none", "pop", "run", "flag", "lock", "wait"},
               u \in Looking => s \in {"pop", "lock", "test"},
               UNCHANGED taskQue, opc = "notify" => opc' = "notify"
        PROVE  Counted'
    <2>1. IsFiniteSet(Started')
      BY <1>2, StartedFinite DEF TypeOK
    <2>2. Looking \subseteq Looking' /\ Waiting' \subseteq Waiting
      BY <1>2 DEF Looking, Waiting, TypeOK
    <2> QED BY <1>0, <1>2, <2>1, <2>2, CountedKept
  <1>3. ASSUME NEW t \in Tasks, Push(t)
        PROVE  Counted'
    <2>1. /\ opc = "idle" /\ opc' = "notify" /\ UNCHANGED wpc
          /\ taskQue' = Append(taskQue, t)
      BY <1>3 DEF Push, AfterPush, workerVars
    <2>2. Len(taskQue') = Len(taskQue) + 1
      BY <1>0, <2>1, AppendProperties
    <2>3. Due = 0 /\ Due' = 1
      BY <2>1 DEF Due
    <2>4. Cardinality(Looking) \in Nat
      BY CountedParts, LookingFinite
    <2> QED BY <1>0, <1>1, <2>1, <2>2, <2>3, <2>4, CountedParts
  <1>4. CASE \/ \E n \in Sizes : Resize(n)
             \/ \E isWait \in Stops : Stop(isWait)
             \/ Moved
             \/ FlagNext
             \/ Cut
             \/ StopFlag
             \/ \E w \in Workers : Crash(w)
             \/ UNCHANGED vars
    <2>1. UNCHANGED <<taskQue, wpc>> /\ (opc = "notify" => opc' = "notify")
      BY <1>4 DEF Crash, Resize, Stop, Moved, FlagNext, Cut, StopFlag, vars, queueVars, ownerVars,
                  workerVars
    <2> QED BY <1>0, <1>1, <2>1, CountedKept
  <1>5. CASE NotifyOne
    BY <1>5, CountedNotifyOne
  <1>6. CASE NotifyAll
    <2>1. wpc' = Woken(Waiting)
      BY <1>6 DEF NotifyAll, ToldAll
    <2>2. Waiting' = {} /\ Started' = Started
      BY <2>1 DEF Woken, Waiting, Started
    <2> QED BY <2>2, CountedParts
  <1>7. ASSUME NEW u \in Workers, Spawn(u)
        PROVE  Counted'
    <2>1. /\ wpc[u] = "none" /\ wpc' = [wpc EXCEPT ![u] = "pop"] /\ UNCHANGED taskQue
          /\ opc = "spawn"
      BY <1>7 DEF Spawn, queueVars
    <2> QED BY <1>2, <2>1
  <1>8. CASE StopFlagged \/ Joined
    <2>1. taskQue' = <<>> /\ UNCHANGED wpc /\ opc # "notify"
      BY <1>8 DEF StopFlagged, Joined, Clear, workerVars
    <2>2. Len(taskQue') \leq Len(taskQue)
      BY <1>0, <2>1
    <2> QED BY <1>1, <2>1, <2>2, CountedKept
  <1>9. ASSUME NEW u \in Workers, PopTask(u) \/ Test(u), taskQue # <<>>
        PROVE  Counted'
    <2>1. /\ u \in Looking /\ taskQue' = Tail(taskQue)
          /\ wpc' = [wpc EXCEPT ![u] = "run"] /\ opc' = opc
      BY <1>9 DEF PopTask, Test, Pop, WithTask, Looking, ownerVars
    <2> QED BY <1>9, <2>1, CountedPop
  <1>10. ASSUME NEW u \in Workers, PopTask(u), taskQue = <<>>
         PROVE  Counted'
    <2>1. /\ wpc[u] = "pop" /\ UNCHANGED <<taskQue, opc>> /\ wpc' = [wpc EXCEPT ![u] = "lock"]
      BY <1>10 DEF PopTask, Pop, ownerVars
    <2> QED BY <1>2, <2>1
  <1>11. ASSUME NEW u \in Workers, Test(u), taskQue = <<>>
         PROVE  Counted'
    <2>1. wpc' = [wpc EXCEPT ![u] = "decide"] /\ wpc[u] = "test" /\ taskQue' = <<>>
      BY <1>11 DEF Test, Pop
    <2>2. IsFiniteSet(Started')
      BY <2>1, StartedFinite DEF TypeOK
    <2>3. Len(taskQue') = 0 /\ Cardinality(Looking') \in Nat
      BY <2>1, <2>2, LookingFinite
    <2> QED BY <2>2, <2>3, CountedParts
  <1>12. ASSUME NEW u \in Workers, RunTask(u) \/ AfterTask(u) \/ Acquire(u)
         PROVE  Counted'
    <2>1. /\ wpc[u] \in {"run", "flag", "lock"}
          /\ UNCHANGED <<taskQue, opc>>
      BY <1>12 DEF RunTask, AfterTask, Acquire, queueVars, ownerVars
    <2>2. \E s \in {"flag", "exit", "pop", "test"} :
             /\ wpc' = [wpc EXCEPT ![u] = s]
             /\ wpc[u] = "lock" => s = "test"
      BY <1>12 DEF RunTask, AfterTask, Acquire
    <2>3. u \in Looking => wpc[u] = "lock"
      BY <2>1 DEF Looking
    <2> QED BY <1>2, <2>1, <2>2, <2>3
  <1>13. ASSUME NEW u \in Workers, Decide(u)
         PROVE  Counted'
    <2>1. /\ wpc[u] = "decide" /\ UNCHANGED <<taskQue, opc>>
          /\ \E s \in {"exit", "wait"} : wpc' = [wpc EXCEPT ![u] = s]
      BY <1>13 DEF Decide, queueVars, ownerVars
    <2>2. IsFiniteSet(Started')
      BY <2>1, StartedFinite DEF TypeOK
    <2>3. Len(taskQue') \leq Due'
      <3>1. taskQue = <<>> \/ (opc = "notify" /\ Len(taskQue) = 1)
        BY <2>1 DEF Guarded
      <3>2. CASE taskQue = <<>>
        <4>1. Len(taskQue') = 0
          BY <2>1, <3>2
        <4> QED BY <4>1, CountedParts
      <3>3. CASE opc = "notify" /\ Len(taskQue) = 1
        BY <2>1, <3>3 DEF Due
      <3> QED BY <3>1, <3>2, <3>3
    <2>4. Cardinality(Looking') \in Nat
      BY <2>2, LookingFinite
    <2>5. Len(taskQue') \in Nat
      BY <1>0, <2>1
    <2> QED BY <2>2, <2>3, <2>4, <2>5, CountedParts
  <1>14. ASSUME NEW u \in Workers, SpuriousWakeup(u)
         PROVE  Counted'
    <2>1. wpc' = Woken({u}) /\ wpc[u] = "wait" /\ UNCHANGED <<taskQue, opc>>
      BY <1>14 DEF SpuriousWakeup, queueVars, ownerVars
    <2>2. wpc' = [wpc EXCEPT ![u] = "lock"]
      BY <2>1 DEF Woken, TypeOK
    <2> QED BY <1>2, <2>1, <2>2
  <1> QED
    BY <1>3, <1>4, <1>5, <1>6, <1>7, <1>8, <1>9, <1>10, <1>11, <1>12, <1>13, <1>14
    DEF Next, OwnerCall, OwnerStep, WorkerStep

-----------------------------------------------------------------------------
(* The theorems.                                                           *)

\* The invariant at the start.
LEMMA InitIInv == Init => IInv
  <1> SUFFICES ASSUME Init
               PROVE  IInv
    OBVIOUS
  <1>1. Started = {} /\ Waiting = {}
    BY DEF Init, Started, Waiting
  <1>2. Counted
    BY <1>1, CountedParts, FS_EmptySet
  <1>3. Guarded
    BY DEF Init, Guarded
  <1> QED BY <1>2, <1>3, InitType, InitPlaces DEF IInv

\* The invariant holds in every reachable state.
LEMMA Invariance == Spec => []IInv
  <1>1. IInv /\ [Next]_vars => IInv'
    BY NextType, NextPlaces, NextCounted, NextGuarded DEF IInv
  <1> QED BY InitIInv, <1>1, PTL DEF Spec

\* A task in one place is counted once.
LEMMA OnceIsCounted ==
    ASSUME IInv, NEW t \in Tasks
    PROVE  Occurrences(t) = IF t \in pushed THEN 1 ELSE 0
  <1> DEFINE I == {i \in DOMAIN taskQue : taskQue[i] = t}
             W == {w \in Workers : held[w] = t /\ wpc[w] # "exit"}
             D == IF t \in dropped THEN 1 ELSE 0
  <1>1. Once(t) /\ t # NoTask
    BY NullAssumption DEF IInv, OnePlace
  <1>2. I # {} <=> Contains(taskQue, t)
    <2>1. DOMAIN taskQue = 1 .. Len(taskQue)
      BY LenProperties DEF IInv, TypeOK
    <2> QED BY <2>1 DEF Contains
  <1>3. W # {} <=> \E w \in Workers : held[w] = t
    <2>1. \A w \in Workers : held[w] = t => wpc[w] = "run"
      BY <1>1 DEF IInv, OnePlace
    <2> QED BY <2>1
  <1>4. Cardinality(I) = IF I = {} THEN 0 ELSE 1
    <2>1. \A i, j \in I : i = j
      BY DEF IInv, OnePlace, Distinct
    <2> HIDE DEF I
    <2> QED BY ONLY <2>1, AtMostOne
  <1>5. Cardinality(W) = IF W = {} THEN 0 ELSE 1
    <2>1. \A v, w \in W : v = w
      BY <1>1 DEF Once
    <2> HIDE DEF W
    <2> QED BY ONLY <2>1, AtMostOne
  <1>6. Occurrences(t) = Cardinality(I) + Cardinality(W) + ran[t] + D
    BY DEF Occurrences
  <1> DEFINE i == IF I = {} THEN 0 ELSE 1
             w == IF W = {} THEN 0 ELSE 1
  <1>7. Occurrences(t) = i + w + ran[t] + D
    BY <1>4, <1>5, <1>6
  <1>8. /\ i \in {0, 1} /\ w \in {0, 1} /\ ran[t] \in {0, 1} /\ D \in {0, 1}
        /\ i = 1 => w = 0 /\ ran[t] = 0 /\ D = 0
        /\ w = 1 => i = 0 /\ ran[t] = 0 /\ D = 0
        /\ ran[t] = 1 => D = 0
        /\ t \in pushed <=> i = 1 \/ w = 1 \/ ran[t] = 1 \/ D = 1
    BY <1>1, <1>2, <1>3 DEF Once
  <1> HIDE DEF I, W, D, i, w
  <1>9. CASE t \in pushed
    BY <1>7, <1>8, <1>9
  <1>10. CASE t \notin pushed
    BY <1>7, <1>8, <1>10
  <1> QED BY <1>9, <1>10

\* Every task pushed is in the queue, in one worker's hands, executed once or
\* deleted by stop, and the vectors keep one length and are never left by the
\* loops over them, for any number of tasks and threads, any sizes and whatever
\* a stale flag reads as.
THEOREM TasksConserved == Spec => []TaskConserved
  <1>1. IInv => TaskConserved
    BY OnceIsCounted DEF TaskConserved, IInv
  <1> QED BY Invariance, <1>1, PTL

\* push never loses a wakeup: while tasks are queued and a worker waits, a
\* worker will look into the queue or the notification is still to come.
THEOREM NoTaskStranded == Spec => []NoStrandedTask
  <1>1. IInv => NoStrandedTask
    <2> SUFFICES ASSUME IInv, taskQue # <<>>, Waiting # {}, opc # "notify"
                 PROVE  \E w \in Workers : wpc[w] \in {"pop", "run", "flag", "lock", "test"}
      BY DEF NoStrandedTask
    <2>1. Len(taskQue) \in Nat \ {0}
      BY EmptySeq, LenProperties DEF IInv, TypeOK
    <2>2. Len(taskQue) \leq Cardinality(Looking) /\ Cardinality(Looking) \in Nat
      <3>1. Counted
        BY DEF IInv
      <3>2. Due = 0
        BY DEF Due
      <3>3. IsFiniteSet(Started) /\ Len(taskQue) \leq Cardinality(Looking) + Due
        BY <3>1, CountedParts
      <3>4. Cardinality(Looking) \in Nat
        BY <3>3, LookingFinite
      <3> QED BY <2>1, <3>2, <3>3, <3>4
    <2>3. Looking # {}
      <3>1. Cardinality({}) = 0
        BY FS_EmptySet
      <3> QED BY <2>1, <2>2, <3>1
    <2> QED BY <2>3 DEF Looking
  <1> QED BY Invariance, <1>1, PTL
=============================================================================
