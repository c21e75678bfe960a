------------------------- MODULE HttpDispatchProofs -------------------------
(***************************************************************************)
(* Proofs about HttpDispatch for every number of workers, every set of     *)
(* descriptors and every eventfd capacity.                                 *)
(***************************************************************************)
EXTENDS HttpDispatch, SequenceTheorems, TLAPS

USE SizeAssumption, MaxCountAssumption, NoFdAssumption

-----------------------------------------------------------------------------
(* Sequences without duplicates and the sets of their elements.            *)

\* Pushing on a lock_queue adds one element and keeps it free of duplicates if
\* the element is new.
LEMMA AppendToSet ==
    ASSUME NEW S, NEW s \in Seq(S), NEW e \in S
    PROVE  /\ ToSet(Append(s, e)) = ToSet(s) \cup {e}
           /\ IsInjective(s) /\ e \notin ToSet(s) => IsInjective(Append(s, e))
  <1>1. /\ Append(s, e) \in Seq(S)
        /\ Len(Append(s, e)) = Len(s) + 1
        /\ \A i \in 1 .. Len(s) : Append(s, e)[i] = s[i]
        /\ Append(s, e)[Len(s) + 1] = e
    BY AppendProperties
  <1>2. /\ DOMAIN s = 1 .. Len(s)
        /\ Len(s) \in Nat
        /\ DOMAIN Append(s, e) = 1 .. Len(s) + 1
    BY <1>1, LenProperties
  <1>3. ToSet(Append(s, e)) = ToSet(s) \cup {e}
    BY <1>1, <1>2 DEF ToSet
  <1>4. IsInjective(s) /\ e \notin ToSet(s) => IsInjective(Append(s, e))
    BY <1>1, <1>2 DEF ToSet, IsInjective
  <1> QED BY <1>3, <1>4

\* Popping from a lock_queue removes its front, which then is no longer in it.
LEMMA TailToSet ==
    ASSUME NEW S, NEW s \in Seq(S), s # <<>>
    PROVE  /\ Head(s) \in ToSet(s)
           /\ Head(s) \in S
           /\ Tail(s) \in Seq(S)
           /\ IsInjective(s) => /\ IsInjective(Tail(s))
                                /\ ToSet(Tail(s)) = ToSet(s) \ {Head(s)}
  <1>1. /\ Head(s) \in S
        /\ Tail(s) \in Seq(S)
        /\ Len(Tail(s)) = Len(s) - 1
        /\ \A i \in 1 .. Len(Tail(s)) : Tail(s)[i] = s[i + 1]
    BY HeadTailProperties
  <1>2. /\ DOMAIN s = 1 .. Len(s)
        /\ Len(s) \in Nat \ {0}
        /\ DOMAIN Tail(s) = 1 .. Len(s) - 1
    BY <1>1, LenProperties, EmptySeq
  <1>3. Head(s) = s[1]
    BY <1>2
  <1>4. Head(s) \in ToSet(s)
    BY <1>2, <1>3 DEF ToSet
  <1>5. ASSUME IsInjective(s)
        PROVE  IsInjective(Tail(s))
    BY <1>1, <1>2, <1>5 DEF IsInjective
  <1>6. ASSUME IsInjective(s)
        PROVE  ToSet(Tail(s)) = ToSet(s) \ {Head(s)}
    <2>1. ASSUME NEW i \in 1 .. Len(s) - 1
          PROVE  Tail(s)[i] \in ToSet(s) \ {Head(s)}
      BY <1>1, <1>2, <1>3, <1>6 DEF ToSet, IsInjective
    <2>2. ASSUME NEW i \in 1 .. Len(s), s[i] # Head(s)
          PROVE  s[i] \in ToSet(Tail(s))
      <3>1. i - 1 \in 1 .. Len(s) - 1
        BY <1>2, <1>3, <2>2
      <3>2. Tail(s)[i - 1] = s[i]
        BY <1>1, <1>2, <3>1
      <3> QED BY <1>2, <3>1, <3>2 DEF ToSet
    <2> QED BY <1>2, <2>1, <2>2 DEF ToSet
  <1> QED BY <1>1, <1>4, <1>5, <1>6

\* Only descriptors are queued.
LEMMA ToSetType ==
    ASSUME NEW S, NEW s \in Seq(S)
    PROVE  ToSet(s) \subseteq S
  BY LenProperties DEF ToSet

-----------------------------------------------------------------------------
(* Type correctness and the program counters.                              *)

\* The main thread holds a descriptor between accept and push, and a worker has
\* a closed but unreleased connection between ::close and release_connection.
PcOK ==
    /\ apc = "push" <=> accfd # NoFd
    /\ \A t \in Threads : /\ wpc[t] = "release" <=> closing[t] # NoFd
                          /\ closing[t] # NoFd => closing[t] \in hash[t]

\* TypeOK alone is not inductive: PushClient appends accfd, a descriptor only
\* because of PcOK.
LEMMA TypeStep == TypeOK /\ PcOK /\ [Next]_vars => TypeOK' /\ PcOK'
  <1> SUFFICES ASSUME TypeOK, PcOK, [Next]_vars
               PROVE  TypeOK' /\ PcOK'
    OBVIOUS
  <1> USE DEF TypeOK, PcOK, acceptorVars, Goto
  <1>1. ASSUME NEW fd \in Fds, Accept(fd) \/ AcceptUnnamed(fd)
        PROVE  TypeOK' /\ PcOK'
    BY <1>1 DEF Accept, AcceptUnnamed
  <1>2. CASE PushClient
    <2>1. accfd \in Fds /\ clientQueue[index] \in Seq(Fds)
      BY <1>2 DEF PushClient
    <2>2. Append(clientQueue[index], accfd) \in Seq(Fds)
      BY <2>1, AppendProperties
    <2> QED BY <1>2, <2>2 DEF PushClient
  <1>3. CASE Wakeup
    BY <1>3, SMTT(30) DEF Wakeup, Threads
  <1>4. ASSUME NEW t \in Threads, WorkerStep(t)
        PROVE  TypeOK' /\ PcOK'
    <2>1. CASE PopClient(t)
      <3>1. Head(clientQueue[t]) \in Fds /\ Tail(clientQueue[t]) \in Seq(Fds)
        BY <2>1, TailToSet DEF PopClient
      <3> QED BY <2>1, <3>1 DEF PopClient
    <2>2. CASE ReadEventfd(t)
      BY <2>2 DEF ReadEventfd
    <2>3. CASE ReleaseConnection(t)
      <3>1. UNCHANGED <<open, leaked, apc, accfd, index, clientQueue, eventfd>>
        BY <2>3 DEF ReleaseConnection
      <3>2. TypeOK'
        BY <2>3, <3>1 DEF ReleaseConnection
      <3>3. PcOK'
        BY <2>3, <3>1 DEF ReleaseConnection
      <3> QED BY <3>2, <3>3
    <2>4. CASE Listen(t) \/ WakeupNothing(t) \/ WakeupClients(t) \/ DrainDone(t)
      <3>1. UNCHANGED <<open, leaked, apc, accfd, index, clientQueue, eventfd, closing, hash>>
        BY <2>4 DEF Listen, WakeupNothing, WakeupClients, DrainDone
      <3>2. \E to \in {"listen", "wakeup", "read", "drain"} :
                /\ wpc[t] # "release"
                /\ wpc' = [wpc EXCEPT ![t] = to]
        BY <2>4 DEF Listen, WakeupNothing, WakeupClients, DrainDone
      <3> QED BY <3>1, <3>2
    <2> QED BY <1>4, <2>1, <2>2, <2>3, <2>4 DEF WorkerStep
  <1>5. ASSUME NEW t \in Threads, NEW fd \in Fds, CloseFd(t, fd)
        PROVE  TypeOK' /\ PcOK'
    BY <1>5 DEF CloseFd
  <1>6. CASE UNCHANGED vars
    BY <1>6 DEF vars
  <1> QED BY <1>1, <1>2, <1>3, <1>4, <1>5, <1>6 DEF Next, HandOver

\* The state after http_multithread_server::init is of the right types.
LEMMA TypeInit == Init => TypeOK /\ PcOK
  BY DEF Init, TypeOK, PcOK, Threads

\* Every variable keeps its type, in particular the eventfd counters stay within
\* the capacity whatever the interleaving of http_thread::wakeup with the workers.
THEOREM TypeCorrect == Spec => []TypeOK
  BY TypeInit, TypeStep, PTL DEF Spec

-----------------------------------------------------------------------------
(* The wakeup protocol.                                                    *)

\* No wakeup is lost: a queued connection is always about to be noticed, for any
\* number of workers and any eventfd capacity, although http_thread::wakeup
\* ignores a write that fails.
THEOREM NoLostWakeup == Spec => []NoForgottenClient
  <1>1. Init => NoForgottenClient
    BY DEF Init, NoForgottenClient
  <1>2. TypeOK /\ NoForgottenClient /\ [Next]_vars => NoForgottenClient'
    <2> SUFFICES ASSUME TypeOK, NoForgottenClient, [Next]_vars
                 PROVE  NoForgottenClient'
      OBVIOUS
    <2> USE DEF TypeOK, NoForgottenClient, acceptorVars, Goto
    <2>1. ASSUME NEW fd \in Fds, Accept(fd) \/ AcceptUnnamed(fd)
          PROVE  NoForgottenClient'
      BY <2>1 DEF Accept, AcceptUnnamed
    <2>2. CASE PushClient
      BY <2>2 DEF PushClient
    <2>3. CASE Wakeup
      BY <2>3 DEF Wakeup
    <2>4. ASSUME NEW t \in Threads, WorkerStep(t)
          PROVE  NoForgottenClient'
      BY <2>4 DEF WorkerStep, Listen, WakeupNothing, WakeupClients, ReadEventfd,
                  PopClient, DrainDone, ReleaseConnection
    <2>5. ASSUME NEW t \in Threads, NEW fd \in Fds, CloseFd(t, fd)
          PROVE  NoForgottenClient'
      BY <2>5 DEF CloseFd
    <2>6. CASE UNCHANGED vars
      BY <2>6 DEF vars
    <2> QED BY <2>1, <2>2, <2>3, <2>4, <2>5, <2>6 DEF Next, HandOver
  <1> QED BY <1>1, <1>2, TypeInit, TypeStep, PTL DEF Spec

-----------------------------------------------------------------------------
(* Ownership of descriptors.                                               *)

Ownership == SingleOwner /\ OpenIsHeld

\* What the proof needs of SingleOwner and OpenIsHeld in the state before a step.
LEMMA Placement ==
    ASSUME TypeOK, PcOK, Ownership
    PROVE  /\ \A x : x \in open <=> \/ x = accfd /\ accfd # NoFd
                                    \/ x \in leaked
                                    \/ \E t \in Threads : x \in ToSet(clientQueue[t]) \/ x \in Serving(t)
           /\ \A t \in Threads : clientQueue[t] \in Seq(Fds) /\ ToSet(clientQueue[t]) \subseteq Fds
  <1>1. \A t \in Threads : clientQueue[t] \in Seq(Fds)
    BY DEF TypeOK
  <1>2. \A t \in Threads : ToSet(clientQueue[t]) \subseteq Fds
    BY <1>1, ToSetType
  <1> QED BY <1>1, <1>2 DEF Ownership, OpenIsHeld, InHand

\* A step that leaves the places of descriptors alone keeps Ownership.
LEMMA Elsewhere ==
    ASSUME Ownership, UNCHANGED <<open, leaked, accfd, clientQueue, closing, hash>>
    PROVE  Ownership'
  BY DEF Ownership, SingleOwner, OpenIsHeld, Serving, InHand

\* No step gives a descriptor a second owner or loses one.
LEMMA OwnershipStep == TypeOK /\ PcOK /\ Ownership /\ [Next]_vars => Ownership'
  <1> SUFFICES ASSUME TypeOK, PcOK, Ownership, [Next]_vars
               PROVE  Ownership'
    OBVIOUS
  <1> DEFINE Q(t) == ToSet(clientQueue[t])
  <1>0. /\ \A x : x \in open <=> \/ x = accfd /\ accfd # NoFd
                                 \/ x \in leaked
                                 \/ \E t \in Threads : x \in Q(t) \/ x \in Serving(t)
        /\ \A t \in Threads : clientQueue[t] \in Seq(Fds) /\ Q(t) \subseteq Fds
    BY Placement
  <1>1. ASSUME NEW fd \in Fds, Accept(fd)
        PROVE  Ownership'
    <2>1. /\ open' = open \cup {fd} /\ accfd' = fd /\ accfd = NoFd
          /\ UNCHANGED <<leaked, clientQueue, closing, hash>>
          /\ fd \notin open
      BY <1>1 DEF Accept, PcOK
    <2>2. /\ InHand = {} /\ InHand' = {fd}
          /\ \A t \in Threads : Serving(t)' = Serving(t)
      BY <2>1 DEF InHand, Serving
    <2>3. SingleOwner'
      <3>1. /\ fd \notin leaked
            /\ \A t \in Threads : fd \notin Q(t) /\ fd \notin Serving(t)
        BY <1>0, <2>1
      <3> QED BY <2>1, <2>2, <3>1 DEF Ownership, SingleOwner
    <2>4. OpenIsHeld'
      BY <1>0, <2>1, <2>2 DEF Ownership, OpenIsHeld
    <2> QED BY <2>3, <2>4 DEF Ownership
  <1>2. ASSUME NEW fd \in Fds, AcceptUnnamed(fd)
        PROVE  Ownership'
    <2>1. /\ open' = open \cup {fd} /\ leaked' = leaked \cup {fd}
          /\ UNCHANGED <<accfd, clientQueue, closing, hash>>
          /\ fd \notin open
      BY <1>2 DEF AcceptUnnamed, acceptorVars
    <2>2. /\ InHand' = InHand /\ fd \notin InHand
          /\ \A t \in Threads : Serving(t)' = Serving(t)
      BY <1>0, <2>1 DEF InHand, Serving
    <2>3. SingleOwner'
      BY <1>0, <2>1, <2>2 DEF Ownership, SingleOwner
    <2>4. OpenIsHeld'
      BY <1>0, <2>1, <2>2 DEF Ownership, OpenIsHeld
    <2> QED BY <2>3, <2>4 DEF Ownership
  <1>3. CASE PushClient
    <2>1. /\ accfd \in Fds /\ accfd' = NoFd /\ index \in Threads
          /\ clientQueue' = [clientQueue EXCEPT ![index] = Append(@, accfd)]
          /\ UNCHANGED <<open, leaked, closing, hash>>
      BY <1>3 DEF PushClient, PcOK, TypeOK
    <2>2. /\ InHand = {accfd} /\ InHand' = {}
          /\ \A t \in Threads : Serving(t)' = Serving(t)
      BY <2>1 DEF InHand, Serving
    <2>3. accfd \notin Q(index) /\ IsInjective(clientQueue[index])
      BY <2>1, <2>2 DEF Ownership, SingleOwner
    <2>4. /\ Q(index)' = Q(index) \cup {accfd}
          /\ IsInjective(clientQueue'[index])
          /\ \A t \in Threads : t # index => clientQueue'[t] = clientQueue[t]
      <3>1. clientQueue'[index] = Append(clientQueue[index], accfd)
        BY <2>1 DEF TypeOK
      <3>2. index' = index
        BY <1>3 DEF PushClient
      <3>3. \A t \in Threads : t # index => clientQueue'[t] = clientQueue[t]
        BY <2>1 DEF TypeOK
      <3> QED BY <1>0, <2>1, <2>3, <3>1, <3>2, <3>3, AppendToSet
    <2>5. /\ ToSet(clientQueue'[index]) = Q(index) \cup {accfd}
          /\ \A t \in Threads : t # index => ToSet(clientQueue'[t]) = Q(t)
      <3>1. index' = index
        BY <1>3 DEF PushClient
      <3> QED BY <2>4, <3>1
    <2> HIDE DEF Q
    <2>6. SingleOwner'
      <3>1. \A t \in Threads :
                /\ Q(t) \cap (InHand \cup leaked) = {}
                /\ Serving(t) \cap (InHand \cup leaked) = {}
                /\ IsInjective(clientQueue[t])
        BY DEF Ownership, SingleOwner, Q
      <3>2. \A t, u \in Threads : Q(t) \cap Serving(u) = {}
        BY DEF Ownership, SingleOwner, Q
      <3>3. \A t, u \in Threads : t # u =>
                Q(t) \cap Q(u) = {} /\ Serving(t) \cap Serving(u) = {}
        BY DEF Ownership, SingleOwner, Q
      <3>4. InHand \cap leaked = {}
        BY DEF Ownership, SingleOwner
      <3> QED BY <2>1, <2>2, <2>4, <2>5, <3>1, <3>2, <3>3, <3>4 DEF SingleOwner
    <2>7. OpenIsHeld'
      BY <1>0, <2>1, <2>2, <2>5 DEF OpenIsHeld
    <2> QED BY <2>6, <2>7 DEF Ownership
  <1>4. CASE Wakeup
    BY <1>4, Elsewhere DEF Wakeup
  <1>5. ASSUME NEW t \in Threads, PopClient(t)
        PROVE  Ownership'
    <2> DEFINE fd == Head(clientQueue[t])
    <2>1. /\ clientQueue[t] # <<>> /\ closing[t] = NoFd
          /\ clientQueue' = [clientQueue EXCEPT ![t] = Tail(@)]
          /\ hash' = [hash EXCEPT ![t] = @ \cup {fd}]
          /\ open' = IF fd \in hash[t] THEN open \ {fd} ELSE open
          /\ UNCHANGED <<leaked, accfd, closing>>
      BY <1>5 DEF PopClient, PcOK, acceptorVars
    <2>2. /\ fd \in Q(t) /\ fd \in Fds /\ IsInjective(Tail(clientQueue[t]))
          /\ ToSet(Tail(clientQueue[t])) = Q(t) \ {fd}
      BY <1>0, <2>1, TailToSet DEF Ownership, SingleOwner
    <2>3. /\ IsInjective(clientQueue'[t])
          /\ ToSet(clientQueue'[t]) = Q(t) \ {fd}
          /\ \A u \in Threads : u # t => clientQueue'[u] = clientQueue[u]
      BY <2>1, <2>2 DEF TypeOK
    <2>4. fd \notin hash[t]
      BY <2>1, <2>2 DEF Ownership, SingleOwner, Serving
    <2>5. /\ Serving(t)' = Serving(t) \cup {fd}
          /\ \A u \in Threads : u # t => Serving(u)' = Serving(u)
          /\ InHand' = InHand /\ open' = open
      BY <2>1, <2>2, <2>4 DEF Serving, InHand, TypeOK
    <2> HIDE DEF fd, Q
    <2>6. SingleOwner'
      <3>1. \A u \in Threads :
                /\ Q(u) \cap (InHand \cup leaked) = {}
                /\ Serving(u) \cap (InHand \cup leaked) = {}
                /\ IsInjective(clientQueue[u])
        BY DEF Ownership, SingleOwner, Q
      <3>2. \A u, v \in Threads : Q(u) \cap Serving(v) = {}
        BY DEF Ownership, SingleOwner, Q
      <3>3. \A u, v \in Threads : u # v =>
                Q(u) \cap Q(v) = {} /\ Serving(u) \cap Serving(v) = {}
        BY DEF Ownership, SingleOwner, Q
      <3>4. InHand \cap leaked = {}
        BY DEF Ownership, SingleOwner
      <3>5. \A u \in Threads : u # t => ToSet(clientQueue'[u]) = Q(u)
        BY <2>3 DEF Q
      <3> QED BY <2>1, <2>2, <2>3, <2>5, <3>1, <3>2, <3>3, <3>4, <3>5 DEF SingleOwner
    <2>7. OpenIsHeld'
      <3>1. \A u \in Threads : u # t => ToSet(clientQueue'[u]) = Q(u)
        BY <2>3 DEF Q
      <3> QED BY <1>0, <2>1, <2>2, <2>3, <2>5, <3>1 DEF OpenIsHeld, InHand
    <2> QED BY <2>6, <2>7 DEF Ownership
  <1>6. ASSUME NEW t \in Threads, NEW fd \in Fds, CloseFd(t, fd)
        PROVE  Ownership'
    <2>1. /\ closing[t] = NoFd /\ fd \in hash[t]
          /\ open' = open \ {fd}
          /\ closing' = [closing EXCEPT ![t] = fd]
          /\ UNCHANGED <<leaked, accfd, clientQueue, hash>>
      BY <1>6 DEF CloseFd, PcOK, Goto, acceptorVars
    <2>2. /\ fd \in Serving(t) /\ InHand' = InHand
          /\ Serving(t)' = Serving(t) \ {fd}
          /\ \A u \in Threads : u # t => Serving(u)' = Serving(u)
      BY <2>1 DEF Serving, InHand, TypeOK
    <2>3. SingleOwner'
      BY <2>1, <2>2 DEF Ownership, SingleOwner
    <2>4. OpenIsHeld'
      <3>1. /\ fd \notin InHand /\ fd \notin leaked
            /\ \A u \in Threads : fd \notin Q(u) /\ (u # t => fd \notin Serving(u))
        BY <2>2 DEF Ownership, SingleOwner
      <3> HIDE DEF Q
      <3>2. \A u \in Threads : ToSet(clientQueue'[u]) = Q(u)
        BY <2>1 DEF Q
      <3> QED BY <1>0, <2>1, <2>2, <3>1, <3>2 DEF OpenIsHeld, InHand
    <2> QED BY <2>3, <2>4 DEF Ownership
  <1>7. ASSUME NEW t \in Threads, ReleaseConnection(t)
        PROVE  Ownership'
    <2>1. \A u \in Threads : Serving(u)' = Serving(u)
      BY <1>7 DEF ReleaseConnection, Goto, Serving, TypeOK, PcOK
    <2>2. UNCHANGED <<open, leaked, accfd, clientQueue>>
      BY <1>7 DEF ReleaseConnection, acceptorVars
    <2>3. SingleOwner'
      BY <2>1, <2>2 DEF Ownership, SingleOwner, InHand
    <2>4. OpenIsHeld'
      BY <2>1, <2>2 DEF Ownership, OpenIsHeld, InHand
    <2> QED BY <2>3, <2>4 DEF Ownership
  <1>8. ASSUME NEW t \in Threads, WorkerStep(t), ~PopClient(t), ~ReleaseConnection(t)
        PROVE  Ownership'
    BY <1>8, Elsewhere DEF WorkerStep, Listen, WakeupNothing, WakeupClients,
                           ReadEventfd, DrainDone, acceptorVars
  <1>9. CASE UNCHANGED vars
    BY <1>9, Elsewhere DEF vars
  <1> QED BY <1>1, <1>2, <1>3, <1>4, <1>5, <1>6, <1>7, <1>8, <1>9 DEF Next, HandOver

\* There is no descriptor to own before the first accept.
LEMMA OwnershipInit == Init => Ownership
  <1>1. ToSet(<< >>) = {} /\ IsInjective(<< >>)
    BY DEF ToSet, IsInjective
  <1> QED BY <1>1 DEF Init, Ownership, SingleOwner, OpenIsHeld, Serving, InHand

\* SingleOwner and OpenIsHeld always hold.
LEMMA OwnershipInv == Spec => []Ownership
  BY TypeInit, TypeStep, OwnershipInit, OwnershipStep, PTL DEF Spec

\* A descriptor is never in two hands, so the threads of the server never operate
\* on one descriptor and hashConnections[fd] = conn never replaces a connection,
\* although another thread may accept the number between ::close and release.
THEOREM OneOwner == Spec => []SingleOwner
  BY OwnershipInv, PTL DEF Ownership

\* The hand-over loses no connection: what is open is held, what is held is open.
THEOREM NoneLost == Spec => []OpenIsHeld
  BY OwnershipInv, PTL DEF Ownership

-----------------------------------------------------------------------------
(* Refinement of Handoff.                                                  *)

\* Every step of the server is a step of Handoff or leaves its variables alone.
LEMMA HandoffStep ==
    TypeOK /\ PcOK /\ Ownership /\ [Next]_vars => [H!Next]_(H!vars)
  <1> SUFFICES ASSUME TypeOK, PcOK, Ownership, [Next]_vars
               PROVE  H!Next \/ UNCHANGED H!vars
    BY DEF H!vars
  <1> DEFINE turn == IF apc = "wake" THEN (index + 1) % Size ELSE index
             serving == [t \in Threads |-> Serving(t)]
  <1> USE DEF H!vars, H!Threads, Threads
  <1>1. ASSUME NEW fd \in Fds, Accept(fd) \/ AcceptUnnamed(fd)
        PROVE  UNCHANGED H!vars
    BY <1>1 DEF Accept, AcceptUnnamed, acceptorVars, Serving
  <1>2. CASE PushClient
    <2>1. accfd \in Fds
      BY <1>2 DEF PushClient, PcOK, TypeOK
    <2>2. accfd \notin H!Busy
      <3>1. \A t \in Threads : H!ToSet(clientQueue[t]) = ToSet(clientQueue[t])
        BY DEF ToSet, H!ToSet
      <3>2. \A t \in Threads : accfd \notin ToSet(clientQueue[t]) /\ accfd \notin Serving(t)
        BY <2>1 DEF Ownership, SingleOwner, InHand
      <3> QED BY <3>1, <3>2 DEF H!Busy
    <2>3. H!Give(accfd)
      BY <1>2, <2>2 DEF H!Give, PushClient, Serving
    <2> QED BY <2>1, <2>3 DEF H!Next
  <1>3. CASE Wakeup
    BY <1>3 DEF Wakeup, Serving
  <1>4. ASSUME NEW t \in Threads, PopClient(t)
        PROVE  H!Next
    <2> DEFINE fd == Head(clientQueue[t])
    <2>1. closing[t] = NoFd /\ fd \in Fds
      <3>1. clientQueue[t] \in Seq(Fds) /\ clientQueue[t] # <<>>
        BY <1>4 DEF TypeOK, PopClient
      <3> QED BY <1>4, <3>1, TailToSet DEF PopClient, PcOK
    <2>2. /\ Serving(t)' = Serving(t) \cup {fd}
          /\ \A u \in Threads : u # t => Serving(u)' = Serving(u)
      BY <1>4, <2>1 DEF PopClient, Serving, TypeOK
    <2>3. serving' = [serving EXCEPT ![t] = @ \cup {fd}]
      BY <2>2
    <2>4. H!Adopt(t)
      BY <1>4, <2>3 DEF H!Adopt, PopClient, acceptorVars
    <2> QED BY <2>4 DEF H!Next
  <1>5. ASSUME NEW t \in Threads, NEW fd \in Fds, CloseFd(t, fd)
        PROVE  H!Next
    <2>1. /\ closing[t] = NoFd /\ fd \in hash[t]
          /\ closing' = [closing EXCEPT ![t] = fd]
          /\ UNCHANGED <<apc, index, clientQueue, hash>>
      BY <1>5 DEF CloseFd, PcOK, Goto, acceptorVars
    <2>2. /\ fd \in Serving(t) /\ Serving(t)' = Serving(t) \ {fd}
          /\ \A u \in Threads : u # t => Serving(u)' = Serving(u)
      BY <2>1 DEF Serving, TypeOK
    <2>3. serving' = [serving EXCEPT ![t] = @ \ {fd}]
      BY <2>2
    <2>4. H!Finish(t, fd)
      BY <2>1, <2>2, <2>3 DEF H!Finish
    <2> QED BY <2>4 DEF H!Next
  <1>6. ASSUME NEW t \in Threads, ReleaseConnection(t)
        PROVE  UNCHANGED H!vars
    <2>1. \A u \in Threads : Serving(u)' = Serving(u)
      BY <1>6 DEF ReleaseConnection, Goto, Serving, TypeOK, PcOK
    <2>2. UNCHANGED <<apc, index, clientQueue>>
      BY <1>6 DEF ReleaseConnection, acceptorVars
    <2> QED BY <2>1, <2>2
  <1>7. ASSUME NEW t \in Threads, WorkerStep(t), ~PopClient(t), ~ReleaseConnection(t)
        PROVE  UNCHANGED H!vars
    BY <1>7 DEF WorkerStep, Listen, WakeupNothing, WakeupClients, ReadEventfd,
                DrainDone, acceptorVars, Serving
  <1>8. CASE UNCHANGED vars
    BY <1>8 DEF vars, Serving
  <1> QED BY <1>1, <1>2, <1>3, <1>4, <1>5, <1>6, <1>7, <1>8 DEF Next, HandOver

\* The server does what Handoff promises, fairness aside: workers take turns and
\* adopt their connections in order, and a connection is given to one worker only.
THEOREM DispatchImplementsHandoff == Spec => H!SafeSpec
  <1>1. Init => H!Init
    BY DEF Init, H!Init, H!Threads, Threads, Serving
  <1> QED BY <1>1, HandoffStep, TypeInit, TypeStep, OwnershipInit, OwnershipStep, PTL
          DEF Spec, H!SafeSpec
=============================================================================
