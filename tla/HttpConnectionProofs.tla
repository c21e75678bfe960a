------------------------ MODULE HttpConnectionProofs -------------------------
(***************************************************************************)
(* Proofs about HttpConnection for every number of clients, descriptors,   *)
(* connection objects and pieces, and however often epoll_wait fails.      *)
(***************************************************************************)
EXTENDS HttpConnection, FiniteSetTheorems, SequenceTheorems, TLAPS

Distinct(s) == \A i, j \in DOMAIN s : i # j => s[i] # s[j]

-----------------------------------------------------------------------------
(* Queues without duplicates, and sets with at most one element.           *)

\* An element is in a sequence or not.
LEMMA ContainsIsBoolean == \A s, x : Contains(s, x) \in BOOLEAN
  BY DEF Contains

\* Adding an element that the sequence did not have.
LEMMA AppendContains ==
    ASSUME NEW S, NEW s \in Seq(S), NEW e \in S
    PROVE  /\ Append(s, e) \in Seq(S)
           /\ \A x : Contains(Append(s, e), x) <=> Contains(s, x) \/ x = e
           /\ Distinct(s) /\ ~Contains(s, e) => Distinct(Append(s, e))
  <1>1. /\ Append(s, e) \in Seq(S)
        /\ Len(Append(s, e)) = Len(s) + 1
        /\ \A i \in 1 .. Len(s) : Append(s, e)[i] = s[i]
        /\ Append(s, e)[Len(s) + 1] = e
    BY AppendProperties
  <1>2. /\ DOMAIN s = 1 .. Len(s) /\ Len(s) \in Nat
        /\ DOMAIN Append(s, e) = 1 .. Len(s) + 1
    BY <1>1, LenProperties
  <1>3. \A x : Contains(Append(s, e), x) <=> Contains(s, x) \/ x = e
    BY <1>1, <1>2 DEF Contains
  <1>4. Distinct(s) /\ ~Contains(s, e) => Distinct(Append(s, e))
    BY <1>1, <1>2 DEF Contains, Distinct
  <1> QED BY <1>1, <1>3, <1>4

\* Taking the first one out, for good.
LEMMA TailContains ==
    ASSUME NEW S, NEW s \in Seq(S), s # <<>>, Distinct(s)
    PROVE  /\ Head(s) \in S /\ Contains(s, Head(s))
           /\ Tail(s) \in Seq(S) /\ Distinct(Tail(s))
           /\ \A x : Contains(Tail(s), x) <=> Contains(s, x) /\ x # Head(s)
  <1>1. /\ Head(s) \in S
        /\ Tail(s) \in Seq(S)
        /\ Len(Tail(s)) = Len(s) - 1
        /\ \A i \in 1 .. Len(Tail(s)) : Tail(s)[i] = s[i + 1]
    BY HeadTailProperties
  <1>2. /\ DOMAIN s = 1 .. Len(s)
        /\ Len(s) \in Nat \ {0}
        /\ DOMAIN Tail(s) = 1 .. Len(s) - 1
    BY <1>1, LenProperties, EmptySeq
  <1>3. Head(s) = s[1] /\ Contains(s, Head(s))
    BY <1>2 DEF Contains
  <1>4. Distinct(Tail(s))
    BY <1>1, <1>2 DEF Distinct
  <1>5. ASSUME NEW x, Contains(Tail(s), x)
        PROVE  Contains(s, x) /\ x # Head(s)
    <2>1. PICK i \in 1 .. Len(s) - 1 : Tail(s)[i] = x
      BY <1>1, <1>5 DEF Contains
    <2>2. i + 1 \in 1 .. Len(s) /\ s[i + 1] = x /\ i + 1 # 1
      BY <1>1, <1>2, <2>1
    <2> QED BY <1>2, <1>3, <2>2 DEF Contains, Distinct
  <1>6. ASSUME NEW x, Contains(s, x), x # Head(s)
        PROVE  Contains(Tail(s), x)
    <2>1. PICK i \in 1 .. Len(s) : s[i] = x
      BY <1>6 DEF Contains
    <2>2. i - 1 \in 1 .. Len(s) - 1 /\ (i - 1) + 1 = i
      BY <1>2, <1>3, <1>6, <2>1
    <2>3. Tail(s)[i - 1] = x
      BY <1>1, <2>1, <2>2
    <2> QED BY <1>1, <2>2, <2>3 DEF Contains
  <1> QED BY <1>1, <1>3, <1>4, <1>5, <1>6

\* A set without two elements counts as one or none.
LEMMA AtMostOne ==
    ASSUME NEW S, \A x, y \in S : x = y
    PROVE  Cardinality(S) = IF S = {} THEN 0 ELSE 1
  <1>1. CASE S = {}
    BY <1>1, FS_EmptySet
  <1>2. CASE S # {}
    <2>1. PICK x \in S : S = {x}
      BY <1>2
    <2> QED BY <1>2, <2>1, FS_Singleton
  <1> QED BY <1>1, <1>2

-----------------------------------------------------------------------------
(* The invariant.                                                          *)

\* Channels and objects belong together, and an object without descriptor is as
\* a new one.
Linked ==
    /\ \A fd \in Fds : chan[fd] # NoConn => conn[chan[fd]].fd = fd
    /\ \A k \in Conns : IF conn[k].fd = NoFd
                        THEN conn[k] = Unmade
                        ELSE chan[conn[k].fd] = k /\ conn[k].status # "CLOSED"
    /\ Distinct(pool)
    /\ \A k \in Conns : Contains(pool, k) => conn[k].fd = NoFd

\* A descriptor that is open has a client of its own; it is served or queued.
Sockets ==
    /\ Distinct(queue)
    /\ \A fd \in Fds :
          /\ chan[fd] # NoConn \/ Contains(queue, fd) => sock[fd] # NoClient
          /\ Contains(queue, fd) => chan[fd] = NoConn
          /\ sock[fd] # NoClient => peer[sock[fd]] \in {"up", "half", "reset", "gone"}
    /\ \A fd, g \in Fds : sock[fd] = sock[g] /\ sock[fd] # NoClient => fd = g

\* The descriptor being dispatched has its channel and is dispatched once.
Busy ==
    /\ cur # NoFd <=> pc \in {"parse", "write"}
    /\ cur # NoFd => chan[cur] # NoConn /\ cur \notin todo

\* The map events is right for fd.
Known(fd) == io.ker[fd] = io.ev[fd]

\* Where it is wrong, it says reading and the kernel has nothing.
Registers ==
    \A fd \in Fds :
       /\ ~Known(fd) => io.ker[fd] = {} /\ io.ev[fd] = {"rd"}
       /\ io.ker[fd] # {} => chan[fd] # NoConn

\* As long as epoll_wait works, only descriptors for which events is right are
\* dispatched, and nothing is buffered for the others.
Fresh ==
    errors = 0 =>
       /\ \A fd \in Fds : fd \in todo \/ fd = cur => chan[fd] # NoConn /\ Known(fd)
       /\ \A k \in Conns : conn[k].fd # NoFd /\ ~Known(conn[k].fd) => conn[k].wbuf = <<>>

\* UnsentIsArmed and UnwatchedIsStale, for the object k.
ArmedAt(k) ==
    conn[k].fd # NoFd =>
       /\ conn[k].wbuf # <<>> /\ peer[sock[conn[k].fd]] \in {"up", "half"} =>
             "wr" \in io.ker[conn[k].fd] \/ ~Known(conn[k].fd)
       /\ conn[k].status = "CONNECTED" /\ ~Aborted(sock[conn[k].fd]) =>
             "rd" \in io.ker[conn[k].fd] \/ ~Known(conn[k].fd)

Armed == \A k \in Conns : ArmedAt(k)

\* The first n replies of client c.
FirstReplies(c, n) == [i \in 1 .. n |-> <<c, i>>]

\* The client of the object k sent what is in its read buffer, was answered with
\* what was written followed by what is in its write buffer, and was not
\* answered more often than it has sent.
OrderedAt(k) ==
    conn[k].fd # NoFd =>
       LET c == sock[conn[k].fd]
       IN  /\ \A i \in DOMAIN conn[k].rbuf : conn[k].rbuf[i][1] = c
           /\ got[c] \o conn[k].wbuf = FirstReplies(c, answered[c])
           /\ answered[c] + Len(inflight[c]) + Len(conn[k].rbuf) \leq sent[c]

Ordered ==
    /\ \A k \in Conns : OrderedAt(k)
    /\ \A c \in Clients :
          /\ \A i \in DOMAIN inflight[c] : inflight[c][i][1] = c
          /\ answered[c] + Len(inflight[c]) \leq sent[c]
          /\ Serving(c) = {} => got[c] = FirstReplies(c, answered[c])

Structure == Linked /\ Sockets /\ Busy
Kernel == Registers /\ Fresh /\ Armed

IInv == TypeOK /\ Structure /\ Kernel /\ Ordered

-----------------------------------------------------------------------------
(* epoll::add and epoll::remove.                                           *)

EpollState == [ev : [Fds -> SUBSET RDWR], ker : [Fds -> SUBSET RDWR]]

\* From e to new, the registration of f becomes X, if events is right for f;
\* else nothing changes.
Becomes(e, new, f, X) ==
    /\ new \in EpollState
    /\ \A g \in Fds : g # f => new.ev[g] = e.ev[g] /\ new.ker[g] = e.ker[g]
    /\ e.ker[f] = e.ev[f] => new.ev[f] = X /\ new.ker[f] = X
    /\ e.ker[f] # e.ev[f] => new.ev[f] = e.ev[f] /\ new.ker[f] = e.ker[f]

\* Where events is wrong.
Wrong(e, f) == e.ker[f] # e.ev[f] => e.ker[f] = {} /\ e.ev[f] = {"rd"}

\* Both maps get the same value at f.
Both(e, f, X) == [ev |-> [e.ev EXCEPT ![f] = X], ker |-> [e.ker EXCEPT ![f] = X]]

\* Both changes the two maps at f only.
LEMMA SetBoth ==
    ASSUME NEW e \in EpollState, NEW f \in Fds, NEW X \in SUBSET RDWR
    PROVE  /\ Both(e, f, X) \in EpollState
           /\ \A g \in Fds : g # f => /\ Both(e, f, X).ev[g] = e.ev[g]
                                     /\ Both(e, f, X).ker[g] = e.ker[g]
           /\ Both(e, f, X).ev[f] = X /\ Both(e, f, X).ker[f] = X
  BY DEF EpollState, Both

\* epoll::add registers type, or changes nothing where events is wrong.
LEMMA AddBecomes ==
    ASSUME NEW e \in EpollState, NEW f \in Fds, NEW type \in RDWR, Wrong(e, f)
    PROVE  Becomes(e, AddEvent(e, f, type), f, e.ev[f] \cup {type})
  <1> DEFINE X == e.ev[f] \cup {type}
             new == AddEvent(e, f, type)
  <1>0. X \in SUBSET RDWR /\ e.ev[f] \in SUBSET RDWR
    BY DEF EpollState
  <1>1. CASE e.ker[f] # e.ev[f]
    <2>1. (e.ev[f] = {}) # (e.ker[f] = {})
      BY <1>1 DEF Wrong
    <2>2. new = e
      BY <2>1 DEF AddEvent
    <2> QED BY <1>1, <2>2 DEF Becomes
  <1>2. CASE e.ker[f] = e.ev[f] /\ type \in e.ev[f]
    <2>1. e.ev[f] = RDWR \/ e.ev[f] = {type}
      BY <1>0, <1>2 DEF RDWR
    <2>2. new = e /\ X = e.ev[f]
      BY <1>2, <2>1 DEF AddEvent
    <2> QED BY <1>2, <2>2 DEF Becomes
  <1>3. CASE e.ker[f] = e.ev[f] /\ type \notin e.ev[f]
    <2>1. /\ e.ev[f] # RDWR /\ e.ev[f] # {type}
          /\ ~((e.ev[f] = {}) # (e.ker[f] = {}))
      BY <1>3
    <2>2. new = Both(e, f, X)
      BY <2>1 DEF AddEvent, Both
    <2>3. /\ new \in EpollState
          /\ \A g \in Fds : g # f => new.ev[g] = e.ev[g] /\ new.ker[g] = e.ker[g]
          /\ new.ev[f] = X /\ new.ker[f] = X
      BY <1>0, <2>2, SetBoth
    <2> QED BY <1>3, <2>3 DEF Becomes
  <1> QED BY <1>1, <1>2, <1>3

\* epoll::remove unregisters type, or changes nothing where events is wrong.
LEMMA RemoveBecomes ==
    ASSUME NEW e \in EpollState, NEW f \in Fds, NEW type \in RDWR, Wrong(e, f)
    PROVE  Becomes(e, RemoveEvent(e, f, type), f, e.ev[f] \ {type})
  <1> DEFINE X == e.ev[f] \ {type}
             new == RemoveEvent(e, f, type)
  <1>0. X \in SUBSET RDWR /\ e.ev[f] \in SUBSET RDWR
    BY DEF EpollState
  <1>1. CASE e.ker[f] # e.ev[f]
    <2>1. new = e
      BY <1>1 DEF RemoveEvent, Wrong
    <2> QED BY <1>1, <2>1 DEF Becomes
  <1>2. CASE e.ker[f] = e.ev[f] /\ type \notin e.ev[f]
    <2>1. new = e /\ X = e.ev[f]
      BY <1>2 DEF RemoveEvent
    <2> QED BY <1>2, <2>1 DEF Becomes
  <1>3. CASE e.ker[f] = e.ev[f] /\ type \in e.ev[f]
    <2>1. e.ker[f] # {}
      BY <1>3
    <2>2. new = Both(e, f, X)
      BY <1>3, <2>1 DEF RemoveEvent, Both
    <2>3. /\ new \in EpollState
          /\ \A g \in Fds : g # f => new.ev[g] = e.ev[g] /\ new.ker[g] = e.ker[g]
          /\ new.ev[f] = X /\ new.ker[f] = X
      BY <1>0, <2>2, SetBoth
    <2> QED BY <1>3, <2>3 DEF Becomes
  <1> QED BY <1>1, <1>2, <1>3

\* Two calls after each other.
LEMMA BecomesTwice ==
    ASSUME NEW e \in EpollState, NEW f \in Fds, Wrong(e, f), NEW d, NEW X,
           Becomes(e, d, f, X), NEW Y, NEW Z, NEW new, Becomes(d, new, f, Y),
           e.ker[f] = e.ev[f] => Y = Z
    PROVE  Becomes(e, new, f, Z) /\ Wrong(d, f) /\ d \in EpollState
  BY DEF Becomes, Wrong

-----------------------------------------------------------------------------
(* What the callbacks do to an object and its registration.                *)

Object == [fd : Fds \cup {NoFd}, status : {"CONNECTED", "CLOSING", "CLOSED"},
           rbuf : Seq(Pieces), wbuf : Seq(Replies)]

\* The object k gets a status and buffers; the other objects stay as they are.
Updates(k, status, rbuf, wbuf) ==
    /\ conn' \in [Conns -> Object]
    /\ conn'[k].fd = conn[k].fd /\ conn'[k].status = status
    /\ conn'[k].rbuf = rbuf /\ conn'[k].wbuf = wbuf
    /\ \A j \in Conns : j # k => conn'[j] = conn[j]

\* What is known of a descriptor f with a channel.
Served(f) ==
    /\ f \in Fds /\ chan[f] \in Conns
    /\ conn[chan[f]] \in Object /\ conn[chan[f]].fd = f
    /\ conn[chan[f]].status \in {"CONNECTED", "CLOSING"}
    /\ sock[f] \in Clients /\ peer[sock[f]] \in {"up", "half", "reset", "gone"}
    /\ inflight[sock[f]] \in Seq(Pieces)
    /\ io \in EpollState /\ io.ev[f] \in SUBSET RDWR /\ Wrong(io, f)

\* A descriptor with a channel has an object and a client of its own.
LEMMA HasChannel ==
    ASSUME IInv, NEW f \in Fds, chan[f] # NoConn
    PROVE  Served(f)
  <1>1. TypeOK /\ Linked /\ Sockets /\ Registers
    BY DEF IInv, Structure, Kernel
  <1>2. chan[f] \in Conns
    BY <1>1 DEF TypeOK
  <1>3. /\ conn[chan[f]] \in Object /\ conn[chan[f]].fd = f
        /\ conn[chan[f]].status \in {"CONNECTED", "CLOSING"}
    <2>1. conn[chan[f]].fd = f
      BY <1>1 DEF Linked
    <2>2. f # NoFd
      BY NullAssumption
    <2>3. conn[chan[f]].status # "CLOSED"
      BY <1>1, <1>2, <2>1, <2>2 DEF Linked
    <2>4. conn[chan[f]] \in Object
      BY <1>1, <1>2 DEF TypeOK, Object
    <2>5. conn[chan[f]].status \in {"CONNECTED", "CLOSING", "CLOSED"}
      BY <2>4 DEF Object
    <2> QED BY <2>1, <2>3, <2>4, <2>5
  <1>4. sock[f] \in Clients /\ peer[sock[f]] \in {"up", "half", "reset", "gone"}
    BY <1>1 DEF TypeOK, Sockets
  <1>5. inflight[sock[f]] \in Seq(Pieces)
    BY <1>1, <1>4 DEF TypeOK
  <1>6. io \in EpollState /\ io.ev[f] \in SUBSET RDWR
    BY <1>1 DEF TypeOK, EpollState
  <1>7. Wrong(io, f)
    BY <1>1 DEF Registers, Known, Wrong
  <1> QED BY <1>2, <1>3, <1>4, <1>5, <1>6, <1>7 DEF Served

\* The descriptor whose callback runs.
LEMMA CurrentServed ==
    ASSUME IInv, pc \in {"parse", "write"}
    PROVE  Served(cur)
  <1>1. cur \in Fds /\ chan[cur] # NoConn
    BY DEF IInv, TypeOK, Structure, Busy
  <1> QED BY <1>1, HasChannel

\* Nothing is registered or unregistered.
LEMMA SameIo ==
    ASSUME NEW f, Served(f), io' = io
    PROVE  Becomes(io, io', f, io.ev[f])
  BY DEF Becomes, Served

\* The objects stay as they are.
LEMMA SameObject ==
    ASSUME TypeOK, NEW k \in Conns, conn' = conn
    PROVE  Updates(k, conn[k].status, conn[k].rbuf, conn[k].wbuf)
  BY DEF Updates, TypeOK, Object

\* read() returns pieces: they go to the end of the read buffer of the object.
LEMMA ReadDataEffect ==
    ASSUME IInv, NEW fd \in Fds, NEW n \in 1 .. MaxSend, ReadData(fd, n)
    PROVE  /\ Served(fd) /\ n \in 1 .. Len(inflight[sock[fd]])
           /\ Updates(chan[fd], conn[chan[fd]].status,
                      conn[chan[fd]].rbuf \o SubSeq(inflight[sock[fd]], 1, n), conn[chan[fd]].wbuf)
           /\ inflight' = [inflight EXCEPT ![sock[fd]] = SubSeq(@, n + 1, Len(@))]
           /\ SubSeq(inflight[sock[fd]], 1, n) \in Seq(Pieces)
           /\ SubSeq(inflight[sock[fd]], n + 1, Len(inflight[sock[fd]])) \in Seq(Pieces)
           /\ Becomes(io, io', fd, io.ev[fd])
  <1>1. Served(fd)
    BY HasChannel DEF ReadData, ReadCallback
  <1> DEFINE s == inflight[sock[fd]]
             k == chan[fd]
  <1>2. n \in 1 .. Len(s) /\ s \in Seq(Pieces) /\ Len(s) \in Nat /\ n \in Nat
    BY <1>1, LenProperties DEF ReadData, Served
  <1>3. /\ SubSeq(s, 1, n) \in Seq(Pieces)
        /\ SubSeq(s, n + 1, Len(s)) \in Seq(Pieces)
    <2> HIDE DEF s
    <2>1. \A i \in 1 .. Len(s) : s[i] \in Pieces
      BY <1>2, ElementOfSeq
    <2>2. (\A i \in 1 .. n : s[i] \in Pieces) /\ (\A i \in n + 1 .. Len(s) : s[i] \in Pieces)
      BY <1>2, <2>1
    <2> QED BY <1>2, <2>2, SubSeqProperties
  <1> DEFINE rbuf == conn[k].rbuf \o SubSeq(s, 1, n)
  <1>4. rbuf \in Seq(Pieces)
    <2>1. conn[k].rbuf \in Seq(Pieces)
      BY <1>1 DEF Served, Object
    <2> HIDE DEF s
    <2> QED BY <1>3, <2>1, ConcatProperties
  <1>5. conn' = [conn EXCEPT ![k].rbuf = rbuf]
    BY DEF ReadData
  <1> HIDE DEF rbuf
  <1>6. Updates(k, conn[k].status, rbuf, conn[k].wbuf)
    BY <1>1, <1>4, <1>5 DEF Updates, Served, IInv, TypeOK, Object
  <1>7. Becomes(io, io', fd, io.ev[fd])
    BY <1>1, SameIo DEF ReadData
  <1> QED BY <1>1, <1>2, <1>3, <1>6, <1>7 DEF ReadData, rbuf

\* read() returns 0: the object is closing and reading is unregistered.
LEMMA ReadEofEffect ==
    ASSUME IInv, NEW fd \in Fds, ReadEof(fd)
    PROVE  /\ Served(fd)
           /\ Updates(chan[fd], "CLOSING", conn[chan[fd]].rbuf, conn[chan[fd]].wbuf)
           /\ Becomes(io, io', fd, io.ev[fd] \ {"rd"})
  <1>1. Served(fd)
    BY HasChannel DEF ReadEof, ReadCallback
  <1>2. Updates(chan[fd], "CLOSING", conn[chan[fd]].rbuf, conn[chan[fd]].wbuf)
    BY <1>1 DEF ReadEof, Updates, Served, IInv, TypeOK, Object
  <1>3. Becomes(io, io', fd, io.ev[fd] \ {"rd"})
    <2>1. io' = RemoveEvent(io, fd, "rd") /\ "rd" \in RDWR
      BY DEF ReadEof, RDWR
    <2> QED BY <1>1, <2>1, RemoveBecomes DEF Served
  <1> QED BY <1>1, <1>2, <1>3

\* read() fails: the objects stay, and reading is unregistered or not.
LEMMA ReadErrorEffect ==
    ASSUME IInv, NEW fd \in Fds, ReadError(fd)
    PROVE  /\ Served(fd)
           /\ Updates(chan[fd], conn[chan[fd]].status, conn[chan[fd]].rbuf, conn[chan[fd]].wbuf)
           /\ \/ /\ peer[sock[fd]] = "reset" /\ peer' = [peer EXCEPT ![sock[fd]] = "gone"]
                 /\ Becomes(io, io', fd, io.ev[fd] \ {"rd"})
              \/ peer' = peer /\ Becomes(io, io', fd, io.ev[fd])
  <1>1. Served(fd)
    BY HasChannel DEF ReadError, ReadCallback
  <1>2. Updates(chan[fd], conn[chan[fd]].status, conn[chan[fd]].rbuf, conn[chan[fd]].wbuf)
    BY <1>1, SameObject DEF ReadError, Served, IInv
  <1>3. CASE /\ io' = RemoveEvent(io, fd, "rd") /\ peer' = [peer EXCEPT ![sock[fd]] = "gone"]
             /\ peer[sock[fd]] = "reset"
    <2>1. "rd" \in RDWR
      BY DEF RDWR
    <2>2. Becomes(io, io', fd, io.ev[fd] \ {"rd"})
      BY <1>1, <1>3, <2>1, RemoveBecomes DEF Served
    <2> QED BY <1>1, <1>2, <1>3, <2>2
  <1>4. CASE io' = io /\ peer' = peer
    BY <1>1, <1>2, <1>4, SameIo
  <1> QED BY <1>3, <1>4 DEF ReadError

\* OrderedAt, for the object of a descriptor.
LEMMA ServedOrder ==
    ASSUME IInv, NEW f, Served(f)
    PROVE  /\ \A i \in DOMAIN conn[chan[f]].rbuf : conn[chan[f]].rbuf[i][1] = sock[f]
           /\ got[sock[f]] \o conn[chan[f]].wbuf = FirstReplies(sock[f], answered[sock[f]])
           /\ answered[sock[f]] + Len(inflight[sock[f]]) + Len(conn[chan[f]].rbuf)
                 \leq sent[sock[f]]
  <1>1. OrderedAt(chan[f]) /\ conn[chan[f]].fd = f /\ f # NoFd
    BY NullAssumption DEF IInv, Ordered, Served
  <1> QED BY <1>1 DEF OrderedAt

\* The piece at the front of the read buffer.
LEMMA FrontPiece ==
    ASSUME IInv, NEW f, Served(f), conn[chan[f]].rbuf # <<>>
    PROVE  LET c == sock[f]
               rbuf == conn[chan[f]].rbuf
           IN  /\ rbuf[1][1] = c
               /\ Tail(rbuf) \in Seq(Pieces) /\ Len(Tail(rbuf)) = Len(rbuf) - 1
               /\ \A i \in DOMAIN Tail(rbuf) : Tail(rbuf)[i][1] = c
               /\ Len(rbuf) \in Nat \ {0}
               /\ answered[c] \in Nat /\ answered[c] + 1 \in 1 .. MaxSend
  <1> DEFINE c == sock[f]
             rbuf == conn[chan[f]].rbuf
  <1>1. /\ rbuf \in Seq(Pieces) /\ inflight[c] \in Seq(Pieces)
        /\ answered[c] \in Nat /\ sent[c] \in Nat /\ sent[c] \leq MaxSend
    BY BoundsAssumption DEF Served, Object, IInv, TypeOK
  <1>2. /\ \A i \in DOMAIN rbuf : rbuf[i][1] = c
        /\ answered[c] + Len(inflight[c]) + Len(rbuf) \leq sent[c]
    BY ServedOrder
  <1>3. rbuf # <<>>
    OBVIOUS
  <1> HIDE DEF rbuf
  <1>4. /\ Len(rbuf) \in Nat \ {0} /\ Len(inflight[c]) \in Nat
        /\ DOMAIN rbuf = 1 .. Len(rbuf)
    BY <1>1, <1>3, LenProperties, EmptySeq
  <1>5. /\ Tail(rbuf) \in Seq(Pieces) /\ Len(Tail(rbuf)) = Len(rbuf) - 1
        /\ \A i \in 1 .. Len(Tail(rbuf)) : Tail(rbuf)[i] = rbuf[i + 1]
    BY <1>1, <1>3, HeadTailProperties
  <1>6. rbuf[1][1] = c
    BY <1>2, <1>4
  <1>7. \A i \in DOMAIN Tail(rbuf) : Tail(rbuf)[i][1] = c
    <2>1. DOMAIN Tail(rbuf) = 1 .. Len(rbuf) - 1
      BY <1>5, LenProperties
    <2> QED BY <1>2, <1>4, <1>5, <2>1
  <1>8. answered[c] + 1 \in 1 .. MaxSend
    <2> DEFINE x == Len(rbuf)
               y == Len(inflight[c])
               n == answered[c]
               z == sent[c]
    <2>1. /\ x \in Nat /\ x # 0 /\ y \in Nat /\ n \in Nat /\ z \in Nat /\ MaxSend \in Nat
          /\ n + y + x \leq z /\ z \leq MaxSend
      BY <1>1, <1>2, <1>4, BoundsAssumption
    <2> HIDE DEF x, y, n, z
    <2>2. n + 1 \in 1 .. MaxSend
      BY ONLY <2>1
    <2> QED BY <2>2 DEF n
  <1> QED BY <1>1, <1>4, <1>5, <1>6, <1>7, <1>8 DEF rbuf

\* send_reply, with what add_write leaves registered.
LEMMA ReplyEffect ==
    ASSUME IInv, pc = "parse", conn[Current].rbuf # <<>>, NEW registered, NEW status,
           status \in {conn[Current].status, "CLOSING"}, NEW X,
           Becomes(io, registered, cur, X), Reply(registered, status)
    PROVE  /\ Served(cur)
           /\ answered' = [answered EXCEPT ![sock[cur]] = @ + 1]
           /\ Updates(chan[cur], status, Tail(conn[chan[cur]].rbuf),
                      Append(conn[chan[cur]].wbuf, <<sock[cur], answered[sock[cur]] + 1>>))
           /\ Becomes(io, io', cur, X \cup {"wr"})
  <1>1. Served(cur)
    BY CurrentServed
  <1> DEFINE k == chan[cur]
             c == sock[cur]
             reply == <<c, answered[c] + 1>>
             wbuf == Append(conn[k].wbuf, reply)
             rbuf == Tail(conn[k].rbuf)
  <1>2. /\ conn[k].rbuf[1][1] = c /\ rbuf \in Seq(Pieces)
        /\ answered[c] \in Nat /\ answered[c] + 1 \in 1 .. MaxSend
    BY <1>1, FrontPiece DEF Current
  <1>3. answered' = [answered EXCEPT ![c] = @ + 1]
    BY <1>2 DEF Reply, Current
  <1>4. answered'[c] = answered[c] + 1
    BY <1>1, <1>3 DEF IInv, TypeOK, Served
  <1>5. wbuf \in Seq(Replies)
    <2>1. conn[k].wbuf \in Seq(Replies)
      BY <1>1 DEF Served, Object
    <2>2. reply \in Replies
      BY <1>1, <1>2 DEF Replies, Served
    <2> HIDE DEF reply
    <2> QED BY <2>1, <2>2, AppendProperties
  <1>6. conn' = [conn EXCEPT ![k].rbuf = rbuf, ![k].wbuf = wbuf, ![k].status = status]
    BY <1>2, <1>4 DEF Reply, Current
  <1>7. status \in {"CONNECTED", "CLOSING"}
    BY <1>1 DEF Served, Current
  <1> HIDE DEF rbuf, wbuf
  <1>8. Updates(k, status, rbuf, wbuf)
    BY <1>1, <1>2, <1>5, <1>6, <1>7 DEF Updates, Served, IInv, TypeOK, Object
  <1>9. Becomes(io, io', cur, X \cup {"wr"})
    <2>1. io' = AddEvent(registered, cur, "wr") /\ "wr" \in RDWR
      BY DEF Reply, RDWR
    <2>2. io \in EpollState /\ cur \in Fds /\ Wrong(io, cur)
      BY <1>1 DEF Served
    <2>3. registered \in EpollState /\ Wrong(registered, cur)
      BY <2>2 DEF Becomes, Wrong
    <2>4. Becomes(registered, io', cur, registered.ev[cur] \cup {"wr"})
      BY <2>1, <2>2, <2>3, AddBecomes
    <2>5. io.ker[cur] = io.ev[cur] => registered.ev[cur] \cup {"wr"} = X \cup {"wr"}
      BY DEF Becomes
    <2> DEFINE Y == registered.ev[cur] \cup {"wr"}
               Z == X \cup {"wr"}
    <2>6. /\ Becomes(io, registered, cur, X) /\ Becomes(registered, io', cur, Y)
          /\ io.ker[cur] = io.ev[cur] => Y = Z
      BY <2>4, <2>5
    <2> HIDE DEF Y, Z
    <2>7. Becomes(io, io', cur, Z)
      BY ONLY <2>2, <2>6, BecomesTwice
    <2> QED BY ONLY <2>7 DEF Z
  <1>10. Updates(chan[cur], status, Tail(conn[chan[cur]].rbuf),
                 Append(conn[chan[cur]].wbuf, <<sock[cur], answered[sock[cur]] + 1>>))
    BY ONLY <1>8, Zenon DEF rbuf, wbuf
  <1> QED BY ONLY <1>1, <1>3, <1>9, <1>10, Zenon

\* A request is answered: one reply more, and writing is registered.
LEMMA ParseReplyEffect ==
    ASSUME IInv, ParseKeep \/ ParseClose \/ ParseBad
    PROVE  /\ Served(cur) /\ conn[chan[cur]].rbuf # <<>>
           /\ answered' = [answered EXCEPT ![sock[cur]] = @ + 1]
           /\ \E status \in {conn[chan[cur]].status, "CLOSING"} :
                 /\ Updates(chan[cur], status, Tail(conn[chan[cur]].rbuf),
                            Append(conn[chan[cur]].wbuf, <<sock[cur], answered[sock[cur]] + 1>>))
                 /\ \/ Becomes(io, io', cur, io.ev[cur] \cup {"wr"})
                    \/ /\ Becomes(io, io', cur, (io.ev[cur] \ {"rd"}) \cup {"wr"})
                       /\ status = "CLOSING"
  <1>1. pc = "parse" /\ conn[Current].rbuf # <<>>
    BY DEF ParseKeep, ParseClose, ParseBad, Parsing
  <1>2. Served(cur)
    BY <1>1, CurrentServed
  <1>3. CASE ParseKeep
    <2>1. Becomes(io, io, cur, io.ev[cur])
      BY <1>2 DEF Becomes, Served
    <2>2. Reply(io, conn[Current].status)
      BY <1>3 DEF ParseKeep
    <2> QED BY <1>1, <1>2, <2>1, <2>2, ReplyEffect DEF Current
  <1>4. CASE ParseClose \/ ParseBad
    <2> DEFINE registered == RemoveEvent(io, cur, "rd")
    <2>1. Becomes(io, registered, cur, io.ev[cur] \ {"rd"})
      BY <1>2, RemoveBecomes DEF Served, RDWR
    <2>2. Reply(registered, "CLOSING")
      BY <1>4 DEF ParseClose, ParseBad
    <2> HIDE DEF registered
    <2> QED BY <1>1, <1>2, <2>1, <2>2, ReplyEffect DEF Current
  <1> QED BY <1>3, <1>4

\* A blank line and the first part of a request line are consumed, or a
\* partial request waits for the rest; add_read keeps reading registered, and
\* add_write writing.
LEMMA ParseMoreEffect ==
    ASSUME IInv, ParseBlank \/ ParsePart
    PROVE  /\ Served(cur) /\ conn[chan[cur]].rbuf # <<>>
           /\ \E rbuf \in {conn[chan[cur]].rbuf, Tail(conn[chan[cur]].rbuf)} :
                 Updates(chan[cur], conn[chan[cur]].status, rbuf, conn[chan[cur]].wbuf)
           /\ \E X \in {io.ev[cur], io.ev[cur] \cup {"rd"}, io.ev[cur] \cup {"rd"} \cup {"wr"}} : Becomes(io, io', cur, X)
  <1>1. pc = "parse" /\ conn[Current].rbuf # <<>>
    BY DEF ParseBlank, ParsePart, Parsing
  <1>2. Served(cur)
    BY <1>1, CurrentServed
  <1>3. Tail(conn[chan[cur]].rbuf) \in Seq(Pieces)
    BY <1>1, <1>2, FrontPiece DEF Current
  <1>4. conn' = conn \/ conn' = [conn EXCEPT ![chan[cur]].rbuf = Tail(@)]
    BY DEF ParseBlank, ParsePart, Current
  <1>5. \/ io' = io
        \/ io' = AddEvent(io, cur, "rd")
        \/ io' = AddEvent(AddEvent(io, cur, "rd"), cur, "wr")
    BY DEF ParseBlank, ParsePart, Rearmed
  <1>6. \E rbuf \in {conn[chan[cur]].rbuf, Tail(conn[chan[cur]].rbuf)} :
           Updates(chan[cur], conn[chan[cur]].status, rbuf, conn[chan[cur]].wbuf)
    <2>1. CASE conn' = conn
      BY <1>2, <2>1, SameObject DEF IInv, Served
    <2>2. CASE conn' = [conn EXCEPT ![chan[cur]].rbuf = Tail(@)]
      <3>1. Updates(chan[cur], conn[chan[cur]].status, Tail(conn[chan[cur]].rbuf),
                    conn[chan[cur]].wbuf)
        BY <1>2, <1>3, <2>2 DEF Updates, Served, IInv, TypeOK, Object
      <3> QED BY <3>1
    <2> QED BY <1>4, <2>1, <2>2
  <1>7. \E X \in {io.ev[cur], io.ev[cur] \cup {"rd"}, io.ev[cur] \cup {"rd"} \cup {"wr"}} : Becomes(io, io', cur, X)
    <2>1. CASE io' = io
      BY <1>2, <2>1, SameIo
    <2>2. CASE io' = AddEvent(io, cur, "rd")
      BY <1>2, <2>2, AddBecomes DEF Served, RDWR
    <2>3. CASE io' = AddEvent(AddEvent(io, cur, "rd"), cur, "wr")
      <3> DEFINE rd == AddEvent(io, cur, "rd")
                 X == io.ev[cur] \cup {"rd"}
                 Y == rd.ev[cur] \cup {"wr"}
                 Z == X \cup {"wr"}
      <3>1. io \in EpollState /\ cur \in Fds /\ Wrong(io, cur) /\ "rd" \in RDWR /\ "wr" \in RDWR
        BY <1>2 DEF Served, RDWR
      <3>2. Becomes(io, rd, cur, X)
        BY <3>1, AddBecomes
      <3> HIDE DEF rd
      <3>3. rd \in EpollState /\ Wrong(rd, cur) /\ (io.ker[cur] = io.ev[cur] => Y = Z)
        BY <3>1, <3>2 DEF Becomes, Wrong
      <3>4. Becomes(rd, io', cur, Y)
        BY <2>3, <3>1, <3>3, AddBecomes DEF rd
      <3> HIDE DEF X, Y, Z
      <3>5. Becomes(io, io', cur, Z)
        BY ONLY <3>1, <3>2, <3>3, <3>4, BecomesTwice
      <3> QED BY <3>5 DEF X, Z
    <2> QED BY <1>5, <2>1, <2>2, <2>3
  <1> QED BY <1>1, <1>2, <1>6, <1>7 DEF Current

\* Nothing to write: writing is unregistered.
LEMMA WriteIdleEffect ==
    ASSUME IInv, WriteIdle
    PROVE  /\ Served(cur) /\ conn[chan[cur]].wbuf = <<>>
           /\ Updates(chan[cur], conn[chan[cur]].status, conn[chan[cur]].rbuf, conn[chan[cur]].wbuf)
           /\ Becomes(io, io', cur, io.ev[cur] \ {"wr"})
  <1>1. Served(cur)
    BY CurrentServed DEF WriteIdle, WriteCallback
  <1>2. Updates(chan[cur], conn[chan[cur]].status, conn[chan[cur]].rbuf, conn[chan[cur]].wbuf)
    BY <1>1, SameObject DEF WriteIdle, Served, IInv
  <1>3. Becomes(io, io', cur, io.ev[cur] \ {"wr"})
    BY <1>1, RemoveBecomes DEF WriteIdle, Served, RDWR
  <1> QED BY <1>1, <1>2, <1>3 DEF WriteIdle, Current

\* write() fails: the object is closing and writing is unregistered.
LEMMA WriteErrorEffect ==
    ASSUME IInv, WriteError
    PROVE  /\ Served(cur) /\ peer[sock[cur]] \in {"reset", "gone"}
           /\ peer' = [peer EXCEPT ![sock[cur]] = "gone"]
           /\ Updates(chan[cur], "CLOSING", conn[chan[cur]].rbuf, conn[chan[cur]].wbuf)
           /\ Becomes(io, io', cur, io.ev[cur] \ {"wr"})
  <1>1. Served(cur)
    BY CurrentServed DEF WriteError, WriteCallback
  <1>2. Updates(chan[cur], "CLOSING", conn[chan[cur]].rbuf, conn[chan[cur]].wbuf)
    BY <1>1 DEF WriteError, Current, Updates, Served, IInv, TypeOK, Object
  <1>3. Becomes(io, io', cur, io.ev[cur] \ {"wr"})
    BY <1>1, RemoveBecomes DEF WriteError, Served, RDWR
  <1> QED BY <1>1, <1>2, <1>3 DEF WriteError

\* write() takes a prefix of the write buffer.
LEMMA WriteSomeEffect ==
    ASSUME IInv, NEW n \in 1 .. MaxSend, WriteSome(n)
    PROVE  LET w == conn[chan[cur]].wbuf
               written == SubSeq(w, 1, n)
               rest == SubSeq(w, n + 1, Len(w))
           IN  /\ Served(cur) /\ w # <<>>
               /\ written \in Seq(Replies) /\ rest \in Seq(Replies) /\ written \o rest = w
               /\ Updates(chan[cur], conn[chan[cur]].status, conn[chan[cur]].rbuf, rest)
               /\ got' = [got EXCEPT ![sock[cur]] = @ \o written]
               /\ Becomes(io, io', cur, io.ev[cur])
  <1>1. Served(cur)
    BY CurrentServed DEF WriteSome, WriteCallback
  <1> DEFINE w == conn[chan[cur]].wbuf
             written == SubSeq(w, 1, n)
             rest == SubSeq(w, n + 1, Len(w))
  <1>2. n \in 1 .. Len(w) /\ w \in Seq(Replies) /\ Len(w) \in Nat /\ n \in Nat
    BY <1>1, LenProperties DEF WriteSome, Served, Current, Object
  <1>3. /\ written \in Seq(Replies) /\ rest \in Seq(Replies)
        /\ written \o rest = w /\ w # <<>>
    <2> HIDE DEF w
    <2>1. \A i \in 1 .. Len(w) : w[i] \in Replies
      BY <1>2, ElementOfSeq
    <2>2. (\A i \in 1 .. n : w[i] \in Replies) /\ (\A i \in n + 1 .. Len(w) : w[i] \in Replies)
      BY <1>2, <2>1
    <2>3. written \in Seq(Replies) /\ rest \in Seq(Replies)
      BY <1>2, <2>2, SubSeqProperties
    <2>4. written \o rest = SubSeq(w, 1, Len(w))
      <3>1. 1 \in 1 .. Len(w) + 1 /\ n \in 1 - 1 .. Len(w) /\ Len(w) \in n .. Len(w)
        BY <1>2
      <3> QED BY <1>2, <3>1, ConcatAdjacentSubSeq
    <2>5. SubSeq(w, 1, Len(w)) = w
      BY <1>2, SubSeqFull
    <2>6. w # <<>>
      BY <1>2, EmptySeq
    <2> QED BY <2>3, <2>4, <2>5, <2>6
  <1>4. conn' = [conn EXCEPT ![chan[cur]].wbuf = rest]
    BY DEF WriteSome, Current
  <1>5. got' = [got EXCEPT ![sock[cur]] = @ \o written]
    BY DEF WriteSome, Current
  <1>6. Becomes(io, io', cur, io.ev[cur])
    BY <1>1, SameIo DEF WriteSome
  <1>7. Updates(chan[cur], conn[chan[cur]].status, conn[chan[cur]].rbuf, rest)
    <2> HIDE DEF rest
    <2> QED BY <1>1, <1>3, <1>4 DEF Updates, Served, IInv, TypeOK, Object
  <1> QED BY <1>1, <1>3, <1>5, <1>6, <1>7

-----------------------------------------------------------------------------
(* A callback of the descriptor f that does not close it.                  *)

Peers(f) ==
    /\ \A d \in Clients : d # sock[f] => peer'[d] = peer[d]
    /\ \/ peer'[sock[f]] = peer[sock[f]]
       \/ peer[sock[f]] \in {"reset", "gone"} /\ peer'[sock[f]] = "gone"

\* What is registered for f suits what the object has to do.
Suits(f, X) ==
    LET old == conn[chan[f]]
        new == conn'[chan[f]]
    IN  /\ new.wbuf # <<>> /\ peer'[sock[f]] \in {"up", "half"} =>
              \/ "wr" \in X
              \/ old.wbuf # <<>> /\ ("wr" \in io.ev[f] => "wr" \in X)
        /\ new.status = "CONNECTED" /\ peer'[sock[f]] \notin {"reset", "gone"} =>
              ("rd" \in io.ev[f] => "rd" \in X)

Callback(f, X) ==
    /\ Served(f)
    /\ f = cur \/ f \in todo
    /\ UNCHANGED <<sock, queue, pool, chan, errors>>
    /\ todo' \subseteq todo /\ cur' \in {cur, f, NoFd}
    /\ conn'[chan[f]].fd = f
    /\ conn'[chan[f]].status \in {conn[chan[f]].status, "CLOSING"}
    /\ \A j \in Conns : j # chan[f] => conn'[j] = conn[j]
    /\ Becomes(io, io', f, X)
    /\ Peers(f) /\ Suits(f, X)

\* Two descriptors with channels have different objects and clients.
LEMMA OthersApart ==
    ASSUME IInv, NEW f, Served(f), NEW j \in Conns, j # chan[f], conn[j].fd # NoFd
    PROVE  /\ conn[j].fd \in Fds /\ conn[j].fd # f
           /\ sock[conn[j].fd] \in Clients /\ sock[conn[j].fd] # sock[f]
  <1>1. f \in Fds /\ TypeOK /\ Linked /\ Sockets
    BY DEF IInv, Structure, Served
  <1>2. conn[j].fd \in Fds /\ chan[conn[j].fd] = j
    BY <1>1 DEF TypeOK, Linked
  <1>3. conn[j].fd # f
    BY <1>2
  <1>4. sock[conn[j].fd] \in Clients
    BY <1>1, <1>2, NullAssumption DEF Sockets, TypeOK
  <1>5. sock[conn[j].fd] # sock[f]
    BY <1>1, <1>2, <1>3, <1>4, NullAssumption DEF Sockets
  <1> QED BY <1>2, <1>3, <1>4, <1>5

\* A callback that does not close leaves channels, sockets and registrations in order.
LEMMA CallbackStructure ==
    ASSUME IInv, NEW f, NEW X, Callback(f, X)
    PROVE  Linked' /\ Sockets' /\ Registers'
  <1>1. Served(f) /\ TypeOK /\ Linked /\ Sockets /\ Registers
    BY DEF Callback, IInv, Structure, Kernel
  <1>2. UNCHANGED <<sock, queue, pool, chan>>
    BY DEF Callback
  <1> DEFINE k == chan[f]
  <1>3. /\ k \in Conns /\ f \in Fds /\ f # NoFd /\ conn[k].fd = f
        /\ conn'[k].fd = f /\ conn'[k].status # "CLOSED"
        /\ \A j \in Conns : j # k => conn'[j] = conn[j]
    BY <1>1, NullAssumption DEF Callback, Served
  <1>4. Linked'
    <2>1. \A fd \in Fds : chan'[fd] # NoConn => conn'[chan'[fd]].fd = fd
      <3> SUFFICES ASSUME NEW fd \in Fds, chan[fd] # NoConn
                   PROVE  conn'[chan[fd]].fd = fd
        BY <1>2
      <3>1. chan[fd] \in Conns /\ conn[chan[fd]].fd = fd
        BY <1>1 DEF Linked, TypeOK
      <3> QED BY <1>3, <3>1
    <2>2. ASSUME NEW j \in Conns
          PROVE  IF conn'[j].fd = NoFd THEN conn'[j] = Unmade
                 ELSE chan'[conn'[j].fd] = j /\ conn'[j].status # "CLOSED"
      <3>1. CASE j = k
        BY <1>2, <1>3, <3>1
      <3>2. CASE j # k
        BY <1>1, <1>2, <1>3, <3>2 DEF Linked
      <3> QED BY <3>1, <3>2
    <2>3. Distinct(pool') /\ \A j \in Conns : Contains(pool', j) => conn'[j].fd = NoFd
      BY <1>1, <1>2, <1>3 DEF Linked
    <2>4. Unmade' = Unmade
      BY DEF Unmade
    <2> QED BY <2>1, <2>2, <2>3, <2>4 DEF Linked
  <1>5. Sockets'
    <2>1. ASSUME NEW fd \in Fds, sock[fd] # NoClient
          PROVE  peer'[sock[fd]] \in {"up", "half", "reset", "gone"}
      <3>1. sock[fd] \in Clients /\ peer[sock[fd]] \in {"up", "half", "reset", "gone"}
        BY <1>1, <2>1 DEF TypeOK, Sockets
      <3> QED BY <3>1 DEF Callback, Peers
    <2>2. ASSUME NEW fd \in Fds
          PROVE  /\ chan[fd] # NoConn \/ Contains(queue, fd) => sock[fd] # NoClient
                 /\ Contains(queue, fd) => chan[fd] = NoConn
      BY <1>1 DEF Sockets
    <2>3. \A fd, g \in Fds : sock[fd] = sock[g] /\ sock[fd] # NoClient => fd = g
      BY <1>1 DEF Sockets
    <2>4. Distinct(queue)
      BY <1>1 DEF Sockets
    <2> QED BY <1>2, <2>1, <2>2, <2>3, <2>4 DEF Sockets
  <1>6. Registers'
    <2>1. Becomes(io, io', f, X) /\ chan[f] # NoConn
      BY <1>3, NullAssumption DEF Callback
    <2>2. ASSUME NEW fd \in Fds
          PROVE  /\ io'.ker[fd] # io'.ev[fd] => io'.ker[fd] = {} /\ io'.ev[fd] = {"rd"}
                 /\ io'.ker[fd] # {} => chan[fd] # NoConn
      <3>1. /\ io.ker[fd] # io.ev[fd] => io.ker[fd] = {} /\ io.ev[fd] = {"rd"}
            /\ io.ker[fd] # {} => chan[fd] # NoConn
        BY <1>1 DEF Registers, Known
      <3>2. CASE fd = f
        BY <2>1, <3>1, <3>2 DEF Becomes
      <3>3. CASE fd # f
        BY <2>1, <3>1, <3>3 DEF Becomes
      <3> QED BY <3>2, <3>3
    <2> QED BY <1>2, <2>2 DEF Registers, Known
  <1> QED BY <1>4, <1>5, <1>6

\* A callback that does not close leaves registered what its object needs.
LEMMA CallbackArmed ==
    ASSUME IInv, NEW f, NEW X, Callback(f, X)
    PROVE  Fresh' /\ Armed'
  <1>1. Served(f) /\ TypeOK /\ Linked /\ Sockets /\ Fresh /\ Armed
    BY DEF Callback, IInv, Structure, Kernel
  <1>2. UNCHANGED <<sock, chan, errors>> /\ Becomes(io, io', f, X)
    BY DEF Callback
  <1> DEFINE k == chan[f]
  <1>3. /\ k \in Conns /\ f \in Fds /\ f # NoFd /\ conn[k].fd = f /\ k # NoConn
        /\ conn'[k].fd = f
        /\ \A j \in Conns : j # k => conn'[j] = conn[j]
    BY <1>1, NullAssumption DEF Callback, Served
  <1>4. /\ io'.ker[f] = io'.ev[f] <=> Known(f)
        /\ \A g \in Fds : g # f => (io'.ker[g] = io'.ev[g] <=> Known(g))
    BY <1>2, <1>3 DEF Becomes, Known
  <1>5. \A j \in Conns : j # k /\ conn[j].fd # NoFd =>
           /\ conn[j].fd \in Fds /\ conn[j].fd # f
           /\ sock[conn[j].fd] \in Clients /\ sock[conn[j].fd] # sock[f]
    BY <1>1, OthersApart
  <1>6. Fresh'
    <2> SUFFICES ASSUME errors = 0
                 PROVE  /\ \A fd \in Fds : fd \in todo' \/ fd = cur' =>
                                              chan[fd] # NoConn /\ io'.ker[fd] = io'.ev[fd]
                        /\ \A j \in Conns :
                              /\ conn'[j].fd # NoFd
                              /\ io'.ker[conn'[j].fd] # io'.ev[conn'[j].fd]
                              => conn'[j].wbuf = <<>>
      BY <1>2 DEF Fresh, Known
    <2>1. Known(f) /\ \A fd \in Fds : fd \in todo \/ fd = cur => chan[fd] # NoConn /\ Known(fd)
      BY <1>1, <1>3 DEF Fresh, Callback
    <2>2. ASSUME NEW fd \in Fds, fd \in todo' \/ fd = cur'
          PROVE  chan[fd] # NoConn /\ io'.ker[fd] = io'.ev[fd]
      <3>1. fd = f \/ fd \in todo \/ fd = cur
        BY <2>2, NullAssumption DEF Callback
      <3> QED BY <1>3, <1>4, <2>1, <3>1
    <2>3. ASSUME NEW j \in Conns, conn'[j].fd # NoFd,
                 io'.ker[conn'[j].fd] # io'.ev[conn'[j].fd]
          PROVE  conn'[j].wbuf = <<>>
      <3>1. j # k
        BY <1>3, <1>4, <2>1, <2>3
      <3>2. conn'[j] = conn[j]
        BY <1>3, <3>1
      <3>3. conn[j].fd # NoFd /\ ~Known(conn[j].fd)
        <4>1. conn[j].fd \in Fds /\ conn[j].fd # f
          BY <1>5, <2>3, <3>1, <3>2
        <4> QED BY <1>4, <2>3, <3>2, <4>1
      <3> QED BY <1>1, <3>2, <3>3 DEF Fresh
    <2> QED BY <2>2, <2>3
  <1>7. ASSUME NEW j \in Conns
        PROVE  ArmedAt(j)'
    <2>0. ArmedAt(j)
      BY <1>1 DEF Armed
    <2>1. CASE j # k
      <3>1. conn'[j] = conn[j]
        BY <1>3, <2>1
      <3>2. CASE conn[j].fd = NoFd
        BY <3>1, <3>2 DEF ArmedAt
      <3>3. CASE conn[j].fd # NoFd
        <4> DEFINE g == conn[j].fd
        <4>1. /\ g \in Fds /\ g # f
              /\ sock[g] \in Clients /\ sock[g] # sock[f]
          BY <1>5, <2>1, <3>3
        <4>2. peer'[sock[g]] = peer[sock[g]]
          BY <4>1 DEF Callback, Peers
        <4>3. io'.ker[g] = io.ker[g] /\ io'.ev[g] = io.ev[g]
          BY <1>2, <4>1 DEF Becomes
        <4> QED BY <1>2, <2>0, <3>1, <4>2, <4>3 DEF ArmedAt, Aborted, Known
      <3> QED BY <3>2, <3>3
    <2>2. CASE j = k
      <3>1. CASE ~Known(f)
        BY <1>3, <1>4, <2>2, <3>1 DEF ArmedAt, Known
      <3>2. CASE Known(f)
        <4>1. io'.ker[f] = X /\ io.ker[f] = io.ev[f]
          BY <1>2, <3>2 DEF Becomes, Known
        <4>2. /\ conn[k].wbuf # <<>> /\ peer[sock[f]] \in {"up", "half"} => "wr" \in io.ev[f]
              /\ conn[k].status = "CONNECTED" /\ ~Aborted(sock[f]) => "rd" \in io.ev[f]
          BY <1>3, <2>0, <2>2, <3>2, <4>1 DEF ArmedAt
        <4>3. /\ peer'[sock[f]] \in {"up", "half"} => peer[sock[f]] \in {"up", "half"}
              /\ peer'[sock[f]] \notin {"reset", "gone"} => ~Aborted(sock[f])
          BY DEF Callback, Peers, Aborted
        <4>4. conn'[k].wbuf # <<>> /\ peer'[sock[f]] \in {"up", "half"} => "wr" \in io'.ker[f]
          BY <4>1, <4>2, <4>3 DEF Callback, Suits
        <4>5. conn'[k].status = "CONNECTED" /\ peer'[sock[f]] \notin {"reset", "gone"} =>
                 "rd" \in io'.ker[f]
          BY <4>1, <4>2, <4>3 DEF Callback, Suits
        <4> QED BY <1>2, <1>3, <2>2, <4>4, <4>5 DEF ArmedAt, Aborted
      <3> QED BY <3>1, <3>2
    <2> QED BY <2>1, <2>2
  <1> QED BY <1>6, <1>7 DEF Armed

\* The callbacks that leave the connection open.
Callbacks ==
    \/ \E fd \in Fds, n \in 1 .. MaxSend : ReadData(fd, n)
    \/ \E fd \in Fds : ReadEof(fd) \/ ReadError(fd)
    \/ ParseKeep \/ ParseClose \/ ParseBad
    \/ ParseBlank \/ ParsePart
    \/ WriteIdle \/ WriteError
    \/ \E n \in 1 .. MaxSend : WriteSome(n)

\* Each of these steps is a callback of one descriptor.
LEMMA CallbacksServe ==
    ASSUME IInv, Callbacks
    PROVE  \E X : Callback(IF pc = "dispatch" THEN cur' ELSE cur, X)
  <1> USE DEF Updates, Peers, Suits
  <1>0. \A f : Served(f) => conn[chan[f]].fd = f
    BY DEF Served
  <1>1. ASSUME NEW fd \in Fds, NEW n \in 1 .. MaxSend, ReadData(fd, n)
        PROVE  Callback(fd, io.ev[fd])
    <2>1. /\ fd \in todo /\ UNCHANGED <<sock, queue, pool, chan, errors, peer>>
          /\ todo' \subseteq todo /\ cur' = fd
      BY <1>1 DEF ReadData, ReadCallback, Take
    <2> QED BY <1>0, <1>1, <2>1, ReadDataEffect DEF Callback
  <1>2. ASSUME NEW fd \in Fds, ReadEof(fd)
        PROVE  Callback(fd, io.ev[fd] \ {"rd"})
    <2>1. /\ fd \in todo /\ UNCHANGED <<sock, queue, pool, chan, errors, peer>>
          /\ todo' \subseteq todo /\ cur' = fd
      BY <1>2 DEF ReadEof, ReadCallback, Take, clientVars
    <2> QED BY <1>0, <1>2, <2>1, ReadEofEffect DEF Callback
  <1>3. ASSUME NEW fd \in Fds, ReadError(fd)
        PROVE  \E X : Callback(fd, X)
    <2>1. /\ fd \in todo /\ UNCHANGED <<sock, queue, pool, chan, errors>>
          /\ todo' \subseteq todo /\ cur' = fd
      BY <1>3 DEF ReadError, ReadCallback, Take
    <2>2. /\ Served(fd)
          /\ Updates(chan[fd], conn[chan[fd]].status, conn[chan[fd]].rbuf, conn[chan[fd]].wbuf)
      BY <1>3, ReadErrorEffect
    <2>3. CASE /\ peer[sock[fd]] = "reset" /\ peer' = [peer EXCEPT ![sock[fd]] = "gone"]
               /\ Becomes(io, io', fd, io.ev[fd] \ {"rd"})
      <3>1. peer'[sock[fd]] = "gone" /\ \A d \in Clients : d # sock[fd] => peer'[d] = peer[d]
        BY <2>2, <2>3 DEF Served, IInv, TypeOK
      <3>2. Callback(fd, io.ev[fd] \ {"rd"})
        BY <1>0, <2>1, <2>2, <2>3, <3>1 DEF Callback
      <3> QED BY <3>2
    <2>4. CASE peer' = peer /\ Becomes(io, io', fd, io.ev[fd])
      <3>1. Callback(fd, io.ev[fd])
        BY <1>0, <2>1, <2>2, <2>4 DEF Callback
      <3> QED BY <3>1
    <2> QED BY <1>3, <2>3, <2>4, ReadErrorEffect
  <1>4. ASSUME ParseKeep \/ ParseClose \/ ParseBad
        PROVE  \E X : Callback(cur, X)
    <2>1. UNCHANGED <<sock, queue, pool, chan, errors, peer, todo, cur>>
      BY <1>4 DEF ParseKeep, ParseClose, ParseBad, Parsing
    <2> DEFINE w == Append(conn[chan[cur]].wbuf, <<sock[cur], answered[sock[cur]] + 1>>)
    <2>2. PICK status \in {conn[chan[cur]].status, "CLOSING"} :
             /\ Updates(chan[cur], status, Tail(conn[chan[cur]].rbuf), w)
             /\ \/ Becomes(io, io', cur, io.ev[cur] \cup {"wr"})
                \/ /\ Becomes(io, io', cur, (io.ev[cur] \ {"rd"}) \cup {"wr"})
                   /\ status = "CLOSING"
      BY <1>4, ParseReplyEffect
    <2>3. Served(cur)
      BY <1>4, ParseReplyEffect
    <2> HIDE DEF w
    <2>4. CASE Becomes(io, io', cur, io.ev[cur] \cup {"wr"})
      <3>1. Callback(cur, io.ev[cur] \cup {"wr"})
        BY <1>0, <2>1, <2>2, <2>3, <2>4 DEF Callback
      <3> QED BY <3>1
    <2>5. CASE Becomes(io, io', cur, (io.ev[cur] \ {"rd"}) \cup {"wr"}) /\ status = "CLOSING"
      <3>1. Callback(cur, (io.ev[cur] \ {"rd"}) \cup {"wr"})
        BY <1>0, <2>1, <2>2, <2>3, <2>5 DEF Callback
      <3> QED BY <3>1
    <2> QED BY <2>2, <2>4, <2>5
  <1>5. ASSUME ParseBlank \/ ParsePart
        PROVE  \E X : Callback(cur, X)
    <2>1. UNCHANGED <<sock, queue, pool, chan, errors, peer, todo, cur>>
      BY <1>5 DEF ParseBlank, ParsePart, Parsing
    <2>2. PICK X \in {io.ev[cur], io.ev[cur] \cup {"rd"}, io.ev[cur] \cup {"rd"} \cup {"wr"}} : Becomes(io, io', cur, X)
      BY <1>5, ParseMoreEffect
    <2>3. /\ Served(cur)
          /\ \E rbuf : Updates(chan[cur], conn[chan[cur]].status, rbuf, conn[chan[cur]].wbuf)
      BY <1>5, ParseMoreEffect
    <2>4. Callback(cur, X)
      BY <1>0, <2>1, <2>2, <2>3 DEF Callback
    <2> QED BY <2>4
  <1>6. ASSUME WriteIdle
        PROVE  \E X : Callback(cur, X)
    <2>1. UNCHANGED <<sock, queue, pool, chan, errors, peer, todo>> /\ cur' = NoFd
      BY <1>6 DEF WriteIdle, WriteCallback
    <2>2. Callback(cur, io.ev[cur] \ {"wr"})
      BY <1>0, <1>6, <2>1, WriteIdleEffect DEF Callback
    <2> QED BY <2>2
  <1>7. ASSUME WriteError
        PROVE  \E X : Callback(cur, X)
    <2>1. UNCHANGED <<sock, queue, pool, chan, errors, todo>> /\ cur' = NoFd
      BY <1>7 DEF WriteError, WriteCallback
    <2>2. peer'[sock[cur]] = "gone" /\ \A d \in Clients : d # sock[cur] => peer'[d] = peer[d]
      BY <1>7, WriteErrorEffect DEF Served, IInv, TypeOK
    <2>3. Callback(cur, io.ev[cur] \ {"wr"})
      BY <1>0, <1>7, <2>1, <2>2, WriteErrorEffect DEF Callback
    <2> QED BY <2>3
  <1>8. ASSUME NEW n \in 1 .. MaxSend, WriteSome(n)
        PROVE  Callback(cur, io.ev[cur])
    <2>1. UNCHANGED <<sock, queue, pool, chan, errors, peer, todo>> /\ cur' = NoFd
      BY <1>8 DEF WriteSome, WriteCallback
    <2> DEFINE rest == SubSeq(conn[chan[cur]].wbuf, n + 1, Len(conn[chan[cur]].wbuf))
    <2>2. /\ Served(cur) /\ conn[chan[cur]].wbuf # <<>>
          /\ Updates(chan[cur], conn[chan[cur]].status, conn[chan[cur]].rbuf, rest)
          /\ Becomes(io, io', cur, io.ev[cur])
      BY <1>8, WriteSomeEffect
    <2> HIDE DEF rest
    <2> QED BY <1>0, <2>1, <2>2 DEF Callback
  <1>9. ASSUME NEW fd \in Fds, \/ \E n \in 1 .. MaxSend : ReadData(fd, n)
                               \/ ReadEof(fd) \/ ReadError(fd)
        PROVE  pc = "dispatch" /\ cur' = fd
    BY <1>9 DEF ReadData, ReadEof, ReadError, ReadCallback, Take
  <1>10. ASSUME \/ ParseKeep \/ ParseClose \/ ParseBad \/ ParseBlank \/ ParsePart
                \/ WriteIdle \/ WriteError
                \/ \E n \in 1 .. MaxSend : WriteSome(n)
         PROVE  pc # "dispatch"
    BY <1>10 DEF ParseKeep, ParseClose, ParseBad, ParseBlank, ParsePart, Parsing, WriteIdle,
                 WriteError, WriteSome, WriteCallback
  <1> QED
    BY <1>1, <1>2, <1>3, <1>4, <1>5, <1>6, <1>7, <1>8, <1>9, <1>10 DEF Callbacks

-----------------------------------------------------------------------------
(* Steps of the loop that change none of the objects.                      *)

Control ==
    \/ Listen \/ ListenError \/ EndBatch \/ WakeupHandler \/ Drained
    \/ \E fd \in Fds : SkipRead(fd) \/ NoChannel(fd)
    \/ ParseDone \/ SkipWrite \/ WriteBlocked
    \/ UNCHANGED vars

\* Nothing that Linked, Sockets, Registers and Armed speak of has changed.
LEMMA SameStructure ==
    ASSUME IInv, UNCHANGED <<peer, sock, queue, objectVars>>
    PROVE  Linked' /\ Sockets' /\ Registers' /\ Armed'
  <1>1. UNCHANGED <<peer, sock, queue, conn, pool, chan, io>>
    BY DEF objectVars
  <1>2. Linked /\ Sockets /\ Registers /\ Armed
    BY DEF IInv, Structure, Kernel
  <1>3. Linked' /\ Sockets'
    BY <1>1, <1>2 DEF Linked, Sockets, Unmade
  <1>4. Registers'
    BY <1>1, <1>2 DEF Registers, Known
  <1>5. Armed'
    BY <1>1, <1>2 DEF Armed, ArmedAt, Known, Aborted
  <1> QED BY <1>3, <1>4, <1>5

\* Only descriptors that are registered are reported.
LEMMA ListenReports ==
    ASSUME IInv, Listen
    PROVE  /\ result' \in [Fds \cup {Wake} -> SUBSET RDWR] /\ todo' \subseteq Fds \cup {Wake}
           /\ \A fd \in Fds : fd \in todo' => io.ker[fd] # {}
  <1>1. ASSUME NEW fd \in Fds
        PROVE  result'[fd] = Reported(fd)
    BY NullAssumption DEF Listen
  <1>2. ASSUME NEW fd \in Fds
        PROVE  Reported(fd) \in SUBSET RDWR /\ (io.ker[fd] = {} => Reported(fd) = {})
    <2>1. io.ker[fd] \in SUBSET RDWR
      BY DEF IInv, TypeOK
    <2>2. CASE io.ker[fd] = {}
      BY <2>2 DEF Reported
    <2>3. CASE io.ker[fd] # {} /\ peer[sock[fd]] \in {"reset", "gone"}
      <3>1. Reported(fd) = RDWR
        BY <2>3 DEF Reported
      <3> QED BY <2>3, <3>1
    <2>4. CASE io.ker[fd] # {} /\ ~(peer[sock[fd]] \in {"reset", "gone"})
      <3>1. Reported(fd) \subseteq io.ker[fd]
        BY <2>4 DEF Reported
      <3> QED BY <2>1, <2>4, <3>1
    <2> QED BY <2>2, <2>3, <2>4
  <1>3. result' \in [Fds \cup {Wake} -> SUBSET RDWR]
    <2>1. \A fd \in Fds \cup {Wake} :
             (IF fd # Wake THEN Reported(fd) ELSE IF queue # <<>> THEN {"rd"} ELSE {})
                \in SUBSET RDWR
      BY <1>2 DEF RDWR
    <2> QED BY <2>1 DEF Listen
  <1>4. todo' \subseteq Fds \cup {Wake}
    BY DEF Listen, Active
  <1>5. \A fd \in Fds : fd \in todo' => io.ker[fd] # {}
    BY <1>1, <1>2 DEF Listen, Active
  <1> QED BY <1>3, <1>4, <1>5

\* Steps that change no object preserve the invariant.
LEMMA ControlSteps ==
    ASSUME IInv, Control
    PROVE  TypeOK' /\ Structure' /\ Kernel' /\ Ordered'
  <1>1. /\ UNCHANGED <<peer, sent, inflight, got, answered, sock, queue, conn, pool, chan, rdcb, io>>
        /\ UNCHANGED <<clientVars, sock, queue, objectVars>>
    BY DEF Control, Listen, ListenError, EndBatch, WakeupHandler, Drained, SkipRead, NoChannel,
           ParseDone, SkipWrite, WriteBlocked, WriteCallback, vars, clientVars, objectVars
  <1>2. Linked' /\ Sockets' /\ Registers' /\ Armed'
    BY <1>1, SameStructure
  <1>3. Ordered'
    <2>1. ASSUME NEW k \in Conns
          PROVE  OrderedAt(k)'
      <3>1. OrderedAt(k)
        BY DEF IInv, Ordered
      <3> QED BY <1>1, <3>1 DEF OrderedAt, FirstReplies
    <2>2. ASSUME NEW c \in Clients
          PROVE  Serving(c)' = Serving(c) /\ FirstReplies(c, answered[c])' = FirstReplies(c, answered[c])
      BY <1>1 DEF Serving, FirstReplies
    <2> QED BY <1>1, <2>1, <2>2 DEF IInv, Ordered
  <1>4. TypeOK /\ Busy /\ Fresh /\ Registers
    BY DEF IInv, Structure, Kernel
  <1>5. ASSUME TypeOK, result' \in [Fds \cup {Wake} -> SUBSET RDWR],
               todo' \subseteq Fds \cup {Wake},
               pc' \in {"listen", "dispatch", "drain", "parse", "write", "crashed"},
               cur' \in Fds \cup {NoFd}, errors' \in 0 .. MaxErrors
        PROVE  TypeOK'
    BY <1>1, <1>5 DEF TypeOK
  <1>6. ASSUME /\ errors' = 0 => errors = 0
               /\ \A fd \in Fds : fd \in todo' \/ fd = cur' =>
                     fd \in todo \/ fd = cur \/ (chan[fd] # NoConn /\ Known(fd))
        PROVE  Fresh'
    BY <1>1, <1>4, <1>6 DEF Fresh, Known
  <1>7. CASE Listen
    <2>1. /\ result' \in [Fds \cup {Wake} -> SUBSET RDWR] /\ todo' \subseteq Fds \cup {Wake}
          /\ \A fd \in Fds : fd \in todo' => io.ker[fd] # {}
      BY <1>7, ListenReports
    <2>2. pc = "listen" /\ pc' = "dispatch" /\ UNCHANGED <<cur, errors>>
      BY <1>7 DEF Listen
    <2>3. TypeOK'
      BY <1>4, <1>5, <2>1, <2>2 DEF TypeOK
    <2>4. Busy'
      BY <1>1, <1>4, <2>2 DEF Busy
    <2>5. Fresh'
      BY <1>4, <1>6, <2>1, <2>2 DEF Registers
    <2> QED BY <1>2, <1>3, <2>3, <2>4, <2>5 DEF Structure, Kernel
  <1>8. CASE ListenError
    <2>1. /\ pc = "listen" /\ pc' = "dispatch" /\ UNCHANGED <<cur, result>>
          /\ errors < MaxErrors /\ errors' = errors + 1 /\ todo' \subseteq Fds \cup {Wake}
      BY <1>8 DEF ListenError, Active
    <2>2. errors' \in 0 .. MaxErrors /\ errors' # 0
      BY <1>4, <2>1, BoundsAssumption DEF TypeOK
    <2>3. TypeOK'
      BY <1>4, <1>5, <2>1, <2>2 DEF TypeOK
    <2>4. Busy'
      BY <1>1, <1>4, <2>1 DEF Busy
    <2>5. Fresh'
      BY <2>2 DEF Fresh
    <2> QED BY <1>2, <1>3, <2>3, <2>4, <2>5 DEF Structure, Kernel
  <1>9. CASE \E fd \in Fds : SkipRead(fd)
    <2>1. PICK fd \in Fds : SkipRead(fd)
      BY <1>9
    <2>2. /\ fd \in todo /\ todo' = todo \ {fd} /\ UNCHANGED <<result, errors>>
          /\ chan[fd] # NoConn /\ pc' = "write" /\ cur' = fd
      BY <2>1 DEF SkipRead, Take
    <2>3. TypeOK'
      BY <1>4, <1>5, <2>2 DEF TypeOK
    <2>4. Busy'
      BY <1>1, <2>2, NullAssumption DEF Busy
    <2>5. Fresh'
      BY <1>6, <2>2
    <2> QED BY <1>2, <1>3, <2>3, <2>4, <2>5 DEF Structure, Kernel
  <1>10. CASE EndBatch \/ WakeupHandler \/ Drained \/ (\E fd \in Fds : NoChannel(fd))
    <2>1. /\ pc \notin {"parse", "write"} /\ pc' \in {"listen", "drain", "dispatch", "crashed"}
          /\ todo' \subseteq todo /\ UNCHANGED <<result, cur, errors>>
      BY <1>10 DEF EndBatch, WakeupHandler, Drained, NoChannel, Take
    <2>2. TypeOK'
      BY <1>4, <1>5, <2>1 DEF TypeOK
    <2>3. Busy'
      BY <1>1, <1>4, <2>1 DEF Busy
    <2>4. Fresh'
      BY <1>6, <2>1
    <2> QED BY <1>2, <1>3, <2>2, <2>3, <2>4 DEF Structure, Kernel
  <1>11. CASE ParseDone \/ UNCHANGED vars
    <2>1. /\ pc' = pc \/ (pc = "parse" /\ pc' = "write")
          /\ UNCHANGED <<result, todo, cur, errors>>
      BY <1>11 DEF ParseDone, vars, loopVars
    <2>2. TypeOK'
      BY <1>4, <1>5, <2>1 DEF TypeOK
    <2>3. Busy'
      BY <1>1, <1>4, <2>1 DEF Busy
    <2>4. Fresh'
      BY <1>6, <2>1
    <2> QED BY <1>2, <1>3, <2>2, <2>3, <2>4 DEF Structure, Kernel
  <1>12. CASE SkipWrite \/ WriteBlocked
    <2>1. pc' = "dispatch" /\ cur' = NoFd /\ UNCHANGED <<result, todo, errors>>
      BY <1>12 DEF SkipWrite, WriteBlocked, WriteCallback
    <2>2. TypeOK'
      BY <1>4, <1>5, <2>1 DEF TypeOK
    <2>3. Busy'
      BY <2>1 DEF Busy
    <2>4. Fresh'
      BY <1>6, <2>1, NullAssumption
    <2> QED BY <1>2, <1>3, <2>2, <2>3, <2>4 DEF Structure, Kernel
  <1> QED BY <1>7, <1>8, <1>9, <1>10, <1>11, <1>12 DEF Control

-----------------------------------------------------------------------------
(* The callbacks keep the types.                                           *)

\* Callbacks preserve the types and the place of the loop.
LEMMA CallbackTypes ==
    ASSUME IInv, Callbacks
    PROVE  TypeOK' /\ Busy'
  <1>0. TypeOK /\ Busy /\ Linked
    BY DEF IInv, Structure
  <1>1. ASSUME conn' \in [Conns -> Object], io' \in EpollState,
               UNCHANGED <<sent, sock, queue, pool, chan, result, errors>>,
               peer' \in [Clients -> {"none", "up", "half", "reset", "gone", "closed"}],
               inflight' \in [Clients -> Seq(Pieces)], got' \in [Clients -> Seq(Replies)],
               answered' \in [Clients -> 0 .. MaxSend], rdcb' \in [Fds -> BOOLEAN],
               todo' \subseteq todo, cur' \in Fds \cup {NoFd},
               pc' \in {"dispatch", "parse", "write"}
        PROVE  TypeOK'
    BY <1>0, <1>1 DEF TypeOK, Object, EpollState
  <1>2. ASSUME NEW fd \in Fds, ReadCallback(fd), pc' \in {"parse", "write"}, UNCHANGED chan
        PROVE  Busy' /\ cur' \in Fds \cup {NoFd} /\ todo' \subseteq todo /\ UNCHANGED <<result, errors>>
    BY <1>2, NullAssumption DEF ReadCallback, Take, Busy
  <1>3. ASSUME pc = "parse", pc' \in {"parse", "write"}, UNCHANGED <<chan, cur, todo>>
        PROVE  Busy'
    BY <1>0, <1>3 DEF Busy
  <1>4. ASSUME WriteCallback
        PROVE  /\ Busy' /\ cur' \in Fds \cup {NoFd} /\ todo' \subseteq todo
               /\ UNCHANGED <<result, errors>> /\ pc' = "dispatch"
    BY <1>4 DEF WriteCallback, Busy
  <1>5. ASSUME NEW k, NEW status, NEW rbuf, NEW wbuf, Updates(k, status, rbuf, wbuf),
               NEW f, NEW X, Becomes(io, io', f, X)
        PROVE  conn' \in [Conns -> Object] /\ io' \in EpollState
    BY <1>5 DEF Updates, Becomes
  <1>6. ASSUME NEW fd \in Fds, NEW n \in 1 .. MaxSend, ReadData(fd, n)
        PROVE  TypeOK' /\ Busy'
    <2>1. conn' \in [Conns -> Object] /\ io' \in EpollState
      BY <1>5, <1>6, ReadDataEffect
    <2>2. /\ UNCHANGED <<peer, sent, got, answered, sock, queue, pool, chan, rdcb>>
          /\ ReadCallback(fd) /\ pc' = "parse"
      BY <1>6 DEF ReadData, ReadCallback
    <2>3. inflight' \in [Clients -> Seq(Pieces)]
      <3> DEFINE rest == SubSeq(inflight[sock[fd]], n + 1, Len(inflight[sock[fd]]))
      <3>1. inflight' = [inflight EXCEPT ![sock[fd]] = rest] /\ rest \in Seq(Pieces)
        BY <1>6, ReadDataEffect
      <3> HIDE DEF rest
      <3> QED BY <1>0, <3>1 DEF TypeOK
    <2> QED BY <1>0, <1>1, <1>2, <2>1, <2>2, <2>3 DEF TypeOK
  <1>7. ASSUME NEW fd \in Fds, ReadEof(fd)
        PROVE  TypeOK' /\ Busy'
    <2>1. conn' \in [Conns -> Object] /\ io' \in EpollState
      BY <1>5, <1>7, ReadEofEffect
    <2>2. /\ UNCHANGED <<peer, sent, inflight, got, answered, sock, queue, pool, chan, rdcb>>
          /\ ReadCallback(fd) /\ pc' = "write"
      BY <1>7 DEF ReadEof, ReadCallback, clientVars
    <2> QED BY <1>0, <1>1, <1>2, <2>1, <2>2 DEF TypeOK
  <1>8. ASSUME NEW fd \in Fds, ReadError(fd)
        PROVE  TypeOK' /\ Busy'
    <2>1. conn' \in [Conns -> Object] /\ io' \in EpollState
      BY <1>5, <1>8, ReadErrorEffect
    <2>2. /\ UNCHANGED <<sent, inflight, got, answered, sock, queue, pool, chan, rdcb>>
          /\ ReadCallback(fd) /\ pc' = "write"
      BY <1>8 DEF ReadError, ReadCallback
    <2>3. peer' \in [Clients -> {"none", "up", "half", "reset", "gone", "closed"}]
      BY <1>0, <1>8 DEF ReadError, TypeOK
    <2> QED BY <1>0, <1>1, <1>2, <2>1, <2>2, <2>3 DEF TypeOK
  <1>9. CASE ParseKeep \/ ParseClose \/ ParseBad
    <2>1. conn' \in [Conns -> Object] /\ io' \in EpollState
      BY <1>5, <1>9, ParseReplyEffect
    <2>2. /\ UNCHANGED <<peer, sent, inflight, got, sock, queue, pool, chan, result, todo, cur, errors>>
          /\ pc = "parse" /\ pc' \in {"parse", "write"}
          /\ conn[Current].rbuf # <<>>
      BY <1>9 DEF ParseKeep, ParseClose, ParseBad, Parsing
    <2>3. rdcb' \in [Fds -> BOOLEAN]
      BY <1>0, <1>9 DEF ParseKeep, ParseClose, ParseBad, TypeOK
    <2>4. answered' \in [Clients -> 0 .. MaxSend]
      <3>1. Served(cur) /\ answered' = [answered EXCEPT ![sock[cur]] = @ + 1]
        BY <1>9, ParseReplyEffect
      <3>2. answered[sock[cur]] + 1 \in 1 .. MaxSend
        BY <2>2, <3>1, FrontPiece DEF Current
      <3>3. answered[sock[cur]] + 1 \in 0 .. MaxSend
        BY <3>2
      <3> QED BY <1>0, <3>1, <3>3 DEF TypeOK
    <2> QED BY <1>0, <1>1, <1>3, <2>1, <2>2, <2>3, <2>4 DEF TypeOK
  <1>10. CASE ParseBlank \/ ParsePart
    <2>1. conn' \in [Conns -> Object] /\ io' \in EpollState
      BY <1>5, <1>10, ParseMoreEffect
    <2>2. /\ UNCHANGED <<peer, sent, inflight, got, sock, queue, pool, chan, result, todo, cur, errors>>
          /\ UNCHANGED <<answered, rdcb>>
          /\ pc = "parse" /\ pc' \in {"parse", "write"}
      BY <1>10 DEF ParseBlank, ParsePart, Parsing
    <2> QED BY <1>0, <1>1, <1>3, <2>1, <2>2 DEF TypeOK
  <1>11. CASE WriteIdle
    <2>1. conn' \in [Conns -> Object] /\ io' \in EpollState
      BY <1>5, <1>11, WriteIdleEffect
    <2>2. /\ UNCHANGED <<peer, sent, inflight, got, answered, sock, queue, pool, chan, rdcb>>
          /\ WriteCallback
      BY <1>11 DEF WriteIdle, WriteCallback
    <2> QED BY <1>0, <1>1, <1>4, <2>1, <2>2 DEF TypeOK
  <1>12. CASE WriteError
    <2>1. conn' \in [Conns -> Object] /\ io' \in EpollState
      BY <1>5, <1>12, WriteErrorEffect
    <2>2. /\ UNCHANGED <<sent, inflight, got, answered, sock, queue, pool, chan, rdcb>>
          /\ WriteCallback
      BY <1>12 DEF WriteError, WriteCallback
    <2>3. peer' \in [Clients -> {"none", "up", "half", "reset", "gone", "closed"}]
      BY <1>0, <1>12 DEF WriteError, TypeOK
    <2> QED BY <1>0, <1>1, <1>4, <2>1, <2>2, <2>3 DEF TypeOK
  <1>13. ASSUME NEW n \in 1 .. MaxSend, WriteSome(n)
         PROVE  TypeOK' /\ Busy'
    <2>1. conn' \in [Conns -> Object] /\ io' \in EpollState
      BY <1>5, <1>13, WriteSomeEffect
    <2>2. /\ UNCHANGED <<peer, sent, inflight, answered, sock, queue, pool, chan, rdcb>>
          /\ WriteCallback
      BY <1>13 DEF WriteSome, WriteCallback
    <2>3. got' \in [Clients -> Seq(Replies)]
      <3> DEFINE written == SubSeq(conn[chan[cur]].wbuf, 1, n)
                 all == got[sock[cur]] \o written
      <3>1. /\ Served(cur) /\ written \in Seq(Replies)
            /\ got' = [got EXCEPT ![sock[cur]] = all]
        BY <1>13, WriteSomeEffect
      <3>2. got[sock[cur]] \in Seq(Replies)
        BY <1>0, <3>1 DEF TypeOK, Served
      <3> HIDE DEF written
      <3>3. all \in Seq(Replies)
        BY <3>1, <3>2, ConcatProperties
      <3> HIDE DEF all
      <3> QED BY <1>0, <3>1, <3>3 DEF TypeOK
    <2> QED BY <1>0, <1>1, <1>4, <2>1, <2>2, <2>3 DEF TypeOK
  <1> QED BY <1>6, <1>7, <1>8, <1>9, <1>10, <1>11, <1>12, <1>13 DEF Callbacks

-----------------------------------------------------------------------------
(* The callbacks keep replies in order.                                    *)

\* It suffices to look at the descriptor whose callback is called.
LEMMA OrderedCallback ==
    ASSUME IInv, NEW f, NEW X, Callback(f, X), TypeOK', UNCHANGED sent,
           \A d \in Clients : d # sock[f] => /\ inflight'[d] = inflight[d] /\ got'[d] = got[d]
                                             /\ answered'[d] = answered[d],
           \A i \in DOMAIN conn'[chan[f]].rbuf : conn'[chan[f]].rbuf[i][1] = sock[f],
           got'[sock[f]] \o conn'[chan[f]].wbuf = FirstReplies(sock[f], answered'[sock[f]]),
           answered'[sock[f]] + Len(inflight'[sock[f]]) + Len(conn'[chan[f]].rbuf) \leq sent[sock[f]],
           \A i \in DOMAIN inflight'[sock[f]] : inflight'[sock[f]][i][1] = sock[f]
    PROVE  Ordered'
  <1> DEFINE c == sock[f]
             k == chan[f]
  <1>1. /\ Served(f) /\ UNCHANGED <<sock, chan>> /\ conn'[k].fd = f
        /\ \A j \in Conns : j # k => conn'[j] = conn[j]
    BY DEF Callback
  <1>2. c \in Clients /\ k \in Conns /\ f \in Fds /\ f # NoFd /\ conn[k].fd = f
    BY <1>1, NullAssumption DEF Served
  <1>3. ASSUME NEW j \in Conns
        PROVE  OrderedAt(j)'
    <2>1. CASE j = k
      BY <1>1, <1>2, <2>1 DEF OrderedAt, FirstReplies
    <2>2. CASE j # k
      <3>1. conn'[j] = conn[j] /\ OrderedAt(j)
        BY <1>1, <2>2 DEF IInv, Ordered
      <3>2. CASE conn[j].fd = NoFd
        BY <3>1, <3>2 DEF OrderedAt
      <3>3. CASE conn[j].fd # NoFd
        <4> DEFINE d == sock[conn[j].fd]
        <4>1. d \in Clients /\ d # c
          BY <1>1, <2>2, <3>3, OthersApart
        <4>2. inflight'[d] = inflight[d] /\ got'[d] = got[d] /\ answered'[d] = answered[d]
          BY <4>1
        <4>3. /\ \A i \in DOMAIN conn[j].rbuf : conn[j].rbuf[i][1] = d
              /\ got[d] \o conn[j].wbuf = FirstReplies(d, answered[d])
              /\ answered[d] + Len(inflight[d]) + Len(conn[j].rbuf) \leq sent[d]
          BY <3>1, <3>3 DEF OrderedAt
        <4>4. sock'[conn'[j].fd] = d
          BY <1>1, <3>1
        <4> HIDE DEF d
        <4> QED BY <3>1, <4>2, <4>3, <4>4 DEF OrderedAt, FirstReplies
      <3> QED BY <3>2, <3>3
    <2> QED BY <2>1, <2>2
  <1>4. ASSUME NEW d \in Clients
        PROVE  Serving(d)' = Serving(d)
    <2>1. \A j \in Conns : conn'[j].fd = conn[j].fd
      BY <1>1, <1>2
    <2> QED BY <1>1, <2>1 DEF Serving
  <1>5. ASSUME NEW d \in Clients
        PROVE  /\ \A i \in DOMAIN inflight'[d] : inflight'[d][i][1] = d
               /\ answered'[d] + Len(inflight'[d]) \leq sent'[d]
               /\ Serving(d)' = {} => got'[d] = FirstReplies(d, answered'[d])
    <2>1. CASE d = c
      <3>1. Serving(d) # {}
        BY <1>2, <2>1 DEF Serving
      <3>2. /\ inflight'[c] \in Seq(Pieces) /\ conn'[k].rbuf \in Seq(Pieces)
            /\ answered'[c] \in Nat /\ sent[c] \in Nat
        BY <1>2, BoundsAssumption DEF TypeOK, IInv
      <3>3. Len(inflight'[c]) \in Nat /\ Len(conn'[k].rbuf) \in Nat
        BY <3>2, LenProperties
      <3>4. answered'[c] + Len(inflight'[c]) \leq sent[c]
        <4> DEFINE x == Len(inflight'[c])
                   y == Len(conn'[k].rbuf)
                   n == answered'[c]
                   z == sent[c]
        <4>1. x \in Nat /\ y \in Nat /\ n \in Nat /\ z \in Nat /\ n + x + y \leq z
          BY <3>2, <3>3
        <4> HIDE DEF x, y, n, z
        <4>2. n + x \leq z
          BY ONLY <4>1
        <4> QED BY <4>2 DEF x, n, z
      <3> QED BY <1>4, <2>1, <3>1, <3>4
    <2>2. CASE d # c
      <3>1. /\ \A i \in DOMAIN inflight[d] : inflight[d][i][1] = d
            /\ answered[d] + Len(inflight[d]) \leq sent[d]
            /\ Serving(d) = {} => got[d] = FirstReplies(d, answered[d])
        BY DEF IInv, Ordered
      <3> QED BY <1>4, <2>2, <3>1
    <2> QED BY <2>1, <2>2
  <1>6. \A d \in Clients : FirstReplies(d, answered[d])' = FirstReplies(d, answered'[d])
    BY DEF FirstReplies
  <1> QED BY <1>3, <1>5, <1>6 DEF Ordered

\* One more reply.
LEMMA NextReply ==
    ASSUME NEW c \in Clients, NEW n \in Nat, NEW g \in Seq(Replies), NEW w \in Seq(Replies),
           g \o w = FirstReplies(c, n), <<c, n + 1>> \in Replies
    PROVE  g \o Append(w, <<c, n + 1>>) = FirstReplies(c, n + 1)
  <1> DEFINE r == <<c, n + 1>>
  <1> HIDE DEF r
  <1>0. r \in Replies
    BY DEF r
  <1> DEFINE one == <<r>>
  <1>1. one \in Seq(Replies) /\ g \o w \in Seq(Replies)
    <2>1. one \in Seq(Replies)
      BY <1>0
    <2>2. g \o w \in Seq(Replies)
      BY ONLY g \in Seq(Replies), w \in Seq(Replies), ConcatProperties
    <2> QED BY <2>1, <2>2
  <1>2. g \o Append(w, r) = Append(g \o w, r)
    <2>1. Append(w, r) = w \o one
      BY <1>0, AppendIsConcat
    <2>2. Append(g \o w, r) = (g \o w) \o one
      <3> DEFINE gw == g \o w
      <3>1. gw \in Seq(Replies)
        BY <1>1
      <3> HIDE DEF gw
      <3>2. Append(gw, r) = gw \o one
        BY <1>0, <3>1, AppendIsConcat
      <3> QED BY <3>2 DEF gw
    <2> HIDE DEF one
    <2>3. (g \o w) \o one = g \o (w \o one)
      BY ONLY <1>1, g \in Seq(Replies), w \in Seq(Replies), ConcatAssociative
    <2> QED BY <2>1, <2>2, <2>3
  <1>3. Len(FirstReplies(c, n)) = n /\ Len(FirstReplies(c, n + 1)) = n + 1
    BY DEF FirstReplies
  <1>4. FirstReplies(c, n + 1) \in Seq(Clients \X Nat) /\ FirstReplies(c, n) \in Seq(Clients \X Nat)
    BY DEF FirstReplies
  <1>5. r \in Clients \X Nat
    BY DEF r
  <1>6. /\ Append(FirstReplies(c, n), r) \in Seq(Clients \X Nat)
        /\ Len(Append(FirstReplies(c, n), r)) = n + 1
        /\ \A i \in 1 .. n : Append(FirstReplies(c, n), r)[i] = FirstReplies(c, n)[i]
        /\ Append(FirstReplies(c, n), r)[n + 1] = r
    BY <1>3, <1>4, <1>5, AppendProperties
  <1>7. \A i \in 1 .. n + 1 : Append(FirstReplies(c, n), r)[i] = FirstReplies(c, n + 1)[i]
    <2>1. \A i \in 1 .. n : FirstReplies(c, n)[i] = FirstReplies(c, n + 1)[i]
      BY DEF FirstReplies
    <2>2. FirstReplies(c, n + 1)[n + 1] = r
      BY DEF FirstReplies, r
    <2> QED BY <1>6, <2>1, <2>2
  <1>8. Append(FirstReplies(c, n), r) = FirstReplies(c, n + 1)
    BY <1>3, <1>4, <1>6, <1>7, SeqEqual
  <1> QED BY <1>2, <1>8 DEF r

\* read() moves pieces from the socket to the read buffer.
LEMMA OrderedReadData ==
    ASSUME IInv, TypeOK', NEW fd \in Fds, NEW n \in 1 .. MaxSend, ReadData(fd, n)
    PROVE  Ordered'
  <1> DEFINE c == sock[fd]
             k == chan[fd]
             s == inflight[c]
             moved == SubSeq(s, 1, n)
             rest == SubSeq(s, n + 1, Len(s))
             rbuf == conn[k].rbuf
  <1>1. /\ Served(fd) /\ n \in 1 .. Len(s)
        /\ Updates(k, conn[k].status, rbuf \o moved, conn[k].wbuf)
        /\ inflight' = [inflight EXCEPT ![c] = rest]
    BY ReadDataEffect
  <1>2. PICK X : Callback(fd, X)
    BY CallbacksServe DEF Callbacks, ReadData, ReadCallback, Take
  <1>3. UNCHANGED <<sent, got, answered>>
    BY DEF ReadData
  <1>4. c \in Clients /\ s \in Seq(Pieces) /\ rbuf \in Seq(Pieces)
    BY <1>1 DEF Served, Object
  <1>5. inflight'[c] = rest /\ \A d \in Clients : d # c => inflight'[d] = inflight[d]
    <2> HIDE DEF rest
    <2> QED BY <1>1, <1>4 DEF IInv, TypeOK
  <1>6. conn'[k].rbuf = rbuf \o moved /\ conn'[k].wbuf = conn[k].wbuf
    BY <1>1 DEF Updates
  <1>7. /\ \A i \in DOMAIN rbuf : rbuf[i][1] = c
        /\ got[c] \o conn[k].wbuf = FirstReplies(c, answered[c])
        /\ answered[c] + Len(s) + Len(rbuf) \leq sent[c]
    BY <1>1, ServedOrder
  <1>8. \A i \in DOMAIN s : s[i][1] = c
    BY <1>4 DEF IInv, Ordered
  <1>9. n \in Nat /\ n \in 1 .. Len(s) /\ Len(s) \in Nat /\ Len(rbuf) \in Nat
        /\ DOMAIN s = 1 .. Len(s) /\ DOMAIN rbuf = 1 .. Len(rbuf)
        /\ \A i \in 1 .. Len(s) : s[i] \in Pieces
    BY <1>1, <1>4, LenProperties, ElementOfSeq
  <1>10. answered[c] \in Nat /\ sent[c] \in Nat
    BY <1>4 DEF IInv, TypeOK
  <1> HIDE DEF s, rbuf
  <1>11. /\ moved \in Seq(Pieces) /\ Len(moved) = n
         /\ \A i \in 1 .. n : moved[i] = s[i]
    <2>1. \A i \in 1 .. n : s[i] \in Pieces
      BY <1>9
    <2>2. /\ SubSeq(s, 1, n) \in Seq(Pieces)
          /\ Len(SubSeq(s, 1, n)) = IF 1 <= n THEN n - 1 + 1 ELSE 0
          /\ \A i \in 1 .. n - 1 + 1 : SubSeq(s, 1, n)[i] = s[1 + i - 1]
      BY <1>9, <2>1, SubSeqProperties
    <2> QED BY <1>9, <2>2
  <1>12. /\ rest \in Seq(Pieces) /\ Len(rest) = Len(s) - n
         /\ \A i \in 1 .. Len(s) - n : rest[i] = s[n + i]
    <2>1. \A i \in n + 1 .. Len(s) : s[i] \in Pieces
      BY <1>9
    <2>2. /\ SubSeq(s, n + 1, Len(s)) \in Seq(Pieces)
          /\ Len(SubSeq(s, n + 1, Len(s))) = IF n + 1 <= Len(s) THEN Len(s) - (n + 1) + 1 ELSE 0
          /\ \A i \in 1 .. Len(s) - (n + 1) + 1 : SubSeq(s, n + 1, Len(s))[i] = s[(n + 1) + i - 1]
      BY <1>9, <2>1, SubSeqProperties
    <2>3. Len(rest) = Len(s) - n
      <3>1. CASE n + 1 <= Len(s)
        <4>1. Len(s) - (n + 1) + 1 = Len(s) - n
          BY <1>9
        <4> QED BY <2>2, <3>1, <4>1
      <3>2. CASE ~(n + 1 <= Len(s))
        <4>1. n \in Nat /\ Len(s) \in Nat /\ n <= Len(s)
          BY <1>9
        <4>2. n = Len(s) /\ Len(s) - n = 0
          BY ONLY <3>2, <4>1
        <4> QED BY <2>2, <3>2, <4>2
      <3> QED BY <3>1, <3>2
    <2>4. ASSUME NEW i \in 1 .. Len(s) - n
          PROVE  rest[i] = s[n + i]
      <3>1. i \in 1 .. Len(s) - (n + 1) + 1 /\ (n + 1) + i - 1 = n + i
        BY <1>9
      <3> QED BY <2>2, <3>1
    <2> QED BY <2>2, <2>3, <2>4
  <1> HIDE DEF moved, rest
  <1>13. /\ Len(rbuf \o moved) = Len(rbuf) + n
         /\ \A i \in 1 .. Len(rbuf) + n :
               (rbuf \o moved)[i] = IF i <= Len(rbuf) THEN rbuf[i] ELSE moved[i - Len(rbuf)]
         /\ DOMAIN (rbuf \o moved) = 1 .. Len(rbuf) + n
    <2>1. /\ rbuf \o moved \in Seq(Pieces)
          /\ Len(rbuf \o moved) = Len(rbuf) + Len(moved)
          /\ \A i \in 1 .. Len(rbuf) + Len(moved) :
               (rbuf \o moved)[i] = IF i <= Len(rbuf) THEN rbuf[i] ELSE moved[i - Len(rbuf)]
      BY ONLY <1>4, <1>11, ConcatProperties
    <2> DEFINE both == rbuf \o moved
    <2>2. both \in Seq(Pieces)
      BY <2>1
    <2> HIDE DEF both
    <2>3. DOMAIN both = 1 .. Len(both)
      BY ONLY <2>2, LenProperties
    <2> QED BY <1>11, <2>1, <2>3 DEF both
  <1>14. \A i \in DOMAIN (rbuf \o moved) : (rbuf \o moved)[i][1] = c
    <2> SUFFICES ASSUME NEW i \in 1 .. Len(rbuf) + n
                 PROVE  (rbuf \o moved)[i][1] = c
      BY <1>13
    <2>1. CASE i <= Len(rbuf)
      <3>1. i \in 1 .. Len(rbuf)
        BY <1>9, <2>1
      <3> QED BY <1>7, <1>9, <1>13, <2>1, <3>1
    <2>2. CASE ~(i <= Len(rbuf))
      <3> DEFINE j == i - Len(rbuf)
      <3>1. j \in 1 .. n /\ j \in 1 .. Len(s)
        BY <1>9, <2>2
      <3>2. (rbuf \o moved)[i] = moved[j]
        BY <1>13, <2>2
      <3> HIDE DEF j
      <3> QED BY <1>8, <1>9, <1>11, <3>1, <3>2
    <2> QED BY <2>1, <2>2
  <1>15. \A i \in DOMAIN rest : rest[i][1] = c
    <2>1. DOMAIN rest = 1 .. Len(s) - n
      BY <1>12, LenProperties
    <2>2. ASSUME NEW i \in 1 .. Len(s) - n
          PROVE  rest[i][1] = c
      <3>1. n + i \in 1 .. Len(s)
        BY <1>9
      <3> QED BY <1>8, <1>9, <1>12, <3>1
    <2> QED BY <2>1, <2>2
  <1>16. answered'[c] + Len(inflight'[c]) + Len(conn'[k].rbuf) \leq sent[c]
    BY <1>3, <1>5, <1>6, <1>7, <1>9, <1>10, <1>12, <1>13
  <1> QED
    BY <1>2, <1>3, <1>5, <1>6, <1>7, <1>14, <1>15, <1>16, OrderedCallback

\* A callback that changes at most the read buffer, to what is left of it.
LEMMA OrderedSame ==
    ASSUME IInv, TypeOK', NEW f, NEW X, Callback(f, X), UNCHANGED <<sent, inflight, got, answered>>,
           conn'[chan[f]].wbuf = conn[chan[f]].wbuf,
           \/ conn'[chan[f]].rbuf = conn[chan[f]].rbuf
           \/ conn[chan[f]].rbuf # <<>> /\ conn'[chan[f]].rbuf = Tail(conn[chan[f]].rbuf)
    PROVE  Ordered'
  <1> DEFINE c == sock[f]
             k == chan[f]
  <1>1. Served(f)
    BY DEF Callback
  <1>2. /\ \A i \in DOMAIN conn[k].rbuf : conn[k].rbuf[i][1] = c
        /\ got[c] \o conn[k].wbuf = FirstReplies(c, answered[c])
        /\ answered[c] + Len(inflight[c]) + Len(conn[k].rbuf) \leq sent[c]
    BY <1>1, ServedOrder
  <1>3. \A i \in DOMAIN inflight[c] : inflight[c][i][1] = c
    BY <1>1 DEF IInv, Ordered, Served
  <1>4. /\ \A i \in DOMAIN conn'[k].rbuf : conn'[k].rbuf[i][1] = c
        /\ answered[c] + Len(inflight[c]) + Len(conn'[k].rbuf) \leq sent[c]
    <2>1. CASE conn'[k].rbuf = conn[k].rbuf
      BY <1>2, <2>1
    <2>2. CASE conn[k].rbuf # <<>> /\ conn'[k].rbuf = Tail(conn[k].rbuf)
      <3>1. /\ Len(Tail(conn[k].rbuf)) = Len(conn[k].rbuf) - 1
            /\ Len(conn[k].rbuf) \in Nat
            /\ \A i \in DOMAIN Tail(conn[k].rbuf) : Tail(conn[k].rbuf)[i][1] = c
        BY <1>1, <2>2, FrontPiece
      <3>2. answered[c] \in Nat /\ sent[c] \in Nat /\ Len(inflight[c]) \in Nat
        BY <1>1, LenProperties DEF IInv, TypeOK, Served
      <3> DEFINE x == Len(inflight[c])
                 y == Len(conn[k].rbuf)
                 n == answered[c]
                 z == sent[c]
      <3>3. /\ x \in Nat /\ y \in Nat /\ n \in Nat /\ z \in Nat /\ n + x + y \leq z
            /\ Len(conn'[k].rbuf) = y - 1
        BY <1>2, <2>2, <3>1, <3>2
      <3> HIDE DEF x, y, n, z
      <3>4. n + x + (y - 1) \leq z
        BY ONLY <3>3
      <3>5. answered[c] + Len(inflight[c]) + Len(conn'[k].rbuf) \leq sent[c]
        BY ONLY <3>3, <3>4 DEF x, n, z
      <3>6. \A i \in DOMAIN conn'[k].rbuf : conn'[k].rbuf[i][1] = c
        BY ONLY <2>2, <3>1
      <3> QED BY ONLY <3>5, <3>6
    <2>3. \/ conn'[k].rbuf = conn[k].rbuf
          \/ conn[k].rbuf # <<>> /\ conn'[k].rbuf = Tail(conn[k].rbuf)
      OBVIOUS
    <2> QED BY ONLY <2>1, <2>2, <2>3
  <1> QED BY <1>2, <1>3, <1>4, OrderedCallback

\* A reply answers the front piece of the read buffer.
LEMMA OrderedReply ==
    ASSUME IInv, TypeOK', ParseKeep \/ ParseClose \/ ParseBad
    PROVE  Ordered'
  <1> DEFINE c == sock[cur]
             k == chan[cur]
             n == answered[c]
  <1>1. PICK X : Callback(cur, X)
    BY CallbacksServe DEF Callbacks, ParseKeep, ParseClose, ParseBad, Parsing
  <1>2. UNCHANGED <<sent, inflight, got>>
    BY DEF ParseKeep, ParseClose, ParseBad, Parsing
  <1>3. /\ Served(cur) /\ conn[k].rbuf # <<>>
        /\ answered' = [answered EXCEPT ![c] = @ + 1]
        /\ conn'[k].rbuf = Tail(conn[k].rbuf)
        /\ conn'[k].wbuf = Append(conn[k].wbuf, <<c, n + 1>>)
    BY ParseReplyEffect DEF Updates
  <1>4. c \in Clients
    BY <1>3 DEF Served
  <1>5. answered'[c] = n + 1 /\ \A d \in Clients : d # c => answered'[d] = answered[d]
    BY <1>3, <1>4 DEF IInv, TypeOK
  <1>6. /\ got[c] \o conn[k].wbuf = FirstReplies(c, n)
        /\ n + Len(inflight[c]) + Len(conn[k].rbuf) \leq sent[c]
    BY <1>3, ServedOrder
  <1>7. /\ Len(Tail(conn[k].rbuf)) = Len(conn[k].rbuf) - 1
        /\ Len(conn[k].rbuf) \in Nat /\ n \in Nat /\ n + 1 \in 1 .. MaxSend
        /\ \A i \in DOMAIN Tail(conn[k].rbuf) : Tail(conn[k].rbuf)[i][1] = c
    BY <1>3, FrontPiece
  <1>8. got[c] \o conn'[k].wbuf = FirstReplies(c, n + 1)
    <2>1. got[c] \in Seq(Replies) /\ conn[k].wbuf \in Seq(Replies)
      BY <1>3 DEF IInv, TypeOK, Served, Object
    <2>2. <<c, n + 1>> \in Replies
      BY <1>4, <1>7 DEF Replies
    <2> DEFINE g == got[c]
               w == conn[k].wbuf
    <2>3. c \in Clients /\ n \in Nat /\ g \in Seq(Replies) /\ w \in Seq(Replies)
          /\ g \o w = FirstReplies(c, n) /\ <<c, n + 1>> \in Replies
          /\ conn'[k].wbuf = Append(w, <<c, n + 1>>)
      BY <1>3, <1>4, <1>6, <1>7, <2>1, <2>2
    <2> HIDE DEF g, w, c, k, n
    <2>4. g \o Append(w, <<c, n + 1>>) = FirstReplies(c, n + 1)
      BY ONLY <2>3, NextReply
    <2> QED BY <2>3, <2>4 DEF g
  <1>9. answered'[c] + Len(inflight'[c]) + Len(conn'[k].rbuf) \leq sent[c]
    <2>1. sent[c] \in Nat /\ Len(inflight[c]) \in Nat
      BY <1>3, LenProperties DEF IInv, TypeOK, Served
    <2> DEFINE x == Len(inflight[c])
               y == Len(conn[k].rbuf)
               z == sent[c]
    <2>2. /\ x \in Nat /\ y \in Nat /\ z \in Nat /\ n \in Nat /\ n + x + y \leq z
          /\ answered'[c] = n + 1 /\ Len(inflight'[c]) = x /\ Len(conn'[k].rbuf) = y - 1
      BY <1>2, <1>3, <1>5, <1>6, <1>7, <2>1
    <2> HIDE DEF x, y, z, n, c, k
    <2>3. (n + 1) + x + (y - 1) \leq z
      BY ONLY <2>2
    <2> QED BY <2>2, <2>3 DEF z
  <1>10. \A i \in DOMAIN inflight[c] : inflight[c][i][1] = c
    BY <1>4 DEF IInv, Ordered
  <1> QED BY <1>1, <1>2, <1>3, <1>5, <1>7, <1>8, <1>9, <1>10, OrderedCallback

\* What is written is the front of what was buffered.
LEMMA OrderedWriteSome ==
    ASSUME IInv, TypeOK', NEW n \in 1 .. MaxSend, WriteSome(n)
    PROVE  Ordered'
  <1> DEFINE c == sock[cur]
             k == chan[cur]
             w == conn[k].wbuf
             written == SubSeq(w, 1, n)
             rest == SubSeq(w, n + 1, Len(w))
  <1>1. PICK X : Callback(cur, X)
    BY CallbacksServe DEF Callbacks, WriteSome, WriteCallback
  <1>2. UNCHANGED <<sent, inflight, answered>>
    BY DEF WriteSome, WriteCallback
  <1>3. /\ Served(cur)
        /\ written \in Seq(Replies) /\ rest \in Seq(Replies) /\ written \o rest = w
        /\ conn'[k].rbuf = conn[k].rbuf /\ conn'[k].wbuf = rest
        /\ got' = [got EXCEPT ![c] = @ \o written]
    BY WriteSomeEffect DEF Updates
  <1>4. c \in Clients /\ got[c] \in Seq(Replies)
    BY <1>3 DEF Served, IInv, TypeOK
  <1> HIDE DEF written, rest, w
  <1>5. got'[c] = got[c] \o written /\ \A d \in Clients : d # c => got'[d] = got[d]
    BY <1>3, <1>4 DEF IInv, TypeOK
  <1>6. /\ \A i \in DOMAIN conn[k].rbuf : conn[k].rbuf[i][1] = c
        /\ got[c] \o w = FirstReplies(c, answered[c])
        /\ answered[c] + Len(inflight[c]) + Len(conn[k].rbuf) \leq sent[c]
    BY <1>3, ServedOrder DEF w
  <1>7. (got[c] \o written) \o rest = got[c] \o (written \o rest)
    <2> DEFINE g == got[c]
    <2>1. g \in Seq(Replies) /\ written \in Seq(Replies) /\ rest \in Seq(Replies)
      BY <1>3, <1>4
    <2> HIDE DEF g
    <2>2. (g \o written) \o rest = g \o (written \o rest)
      BY ONLY <2>1, ConcatAssociative, SMTT(40)
    <2> QED BY <2>2 DEF g
  <1>8. got'[c] \o conn'[k].wbuf = FirstReplies(c, answered'[c])
    BY <1>2, <1>3, <1>5, <1>6, <1>7
  <1>9. \A i \in DOMAIN inflight[c] : inflight[c][i][1] = c
    BY <1>4 DEF IInv, Ordered
  <1> QED BY <1>1, <1>2, <1>3, <1>5, <1>6, <1>8, <1>9, OrderedCallback

\* Callbacks that do not close preserve the invariant.
LEMMA CallbackSteps ==
    ASSUME IInv, Callbacks
    PROVE  TypeOK' /\ Structure' /\ Kernel' /\ Ordered'
  <1>1. TypeOK' /\ Busy'
    BY CallbackTypes
  <1>2. Linked' /\ Sockets' /\ Registers' /\ Fresh' /\ Armed'
    BY CallbacksServe, CallbackStructure, CallbackArmed
  <1>3. ASSUME NEW fd \in Fds, ReadEof(fd) \/ ReadError(fd)
        PROVE  Ordered'
    <2>1. PICK X : Callback(fd, X)
      BY <1>3, CallbacksServe DEF Callbacks, ReadEof, ReadError, ReadCallback, Take
    <2>2. /\ UNCHANGED <<sent, inflight, got, answered>>
          /\ conn'[chan[fd]].wbuf = conn[chan[fd]].wbuf /\ conn'[chan[fd]].rbuf = conn[chan[fd]].rbuf
      BY <1>3, ReadEofEffect, ReadErrorEffect DEF ReadEof, ReadError, Updates, clientVars
    <2> QED BY <1>1, <2>1, <2>2, OrderedSame
  <1>4. ASSUME ParseBlank \/ ParsePart \/ WriteIdle \/ WriteError
        PROVE  Ordered'
    <2>1. PICK X : Callback(cur, X)
      BY <1>4, CallbacksServe DEF Callbacks, ParseBlank, ParsePart, Parsing, WriteIdle, WriteError,
                                  WriteCallback
    <2>2. /\ UNCHANGED <<sent, inflight, got, answered>>
          /\ conn'[chan[cur]].wbuf = conn[chan[cur]].wbuf
          /\ \/ conn'[chan[cur]].rbuf = conn[chan[cur]].rbuf
             \/ /\ conn[chan[cur]].rbuf # <<>>
                /\ conn'[chan[cur]].rbuf = Tail(conn[chan[cur]].rbuf)
      BY <1>4, ParseMoreEffect, WriteIdleEffect, WriteErrorEffect
         DEF ParseBlank, ParsePart, Parsing, WriteIdle, WriteError, WriteCallback, Updates
    <2> QED BY <1>1, <2>1, <2>2, OrderedSame
  <1>5. Ordered'
    BY <1>1, <1>3, <1>4, OrderedReadData, OrderedReply, OrderedWriteSome DEF Callbacks
  <1> QED BY <1>1, <1>2, <1>5 DEF Structure, Kernel

-----------------------------------------------------------------------------
(* Steps of the clients.                                                   *)

\* Nothing that Linked, Busy, Registers and Fresh speak of has changed.
LEMMA SameObjects ==
    ASSUME IInv, UNCHANGED <<objectVars, loopVars>>
    PROVE  Linked' /\ Busy' /\ Registers' /\ Fresh'
  <1>1. UNCHANGED <<conn, pool, chan, io, todo, pc, cur, errors>>
    BY DEF objectVars, loopVars
  <1>2. Linked /\ Busy /\ Registers /\ Fresh
    BY DEF IInv, Structure, Kernel
  <1>3. Linked' /\ Busy'
    BY <1>1, <1>2 DEF Linked, Busy, Unmade
  <1>4. Registers' /\ Fresh'
    BY <1>1, <1>2 DEF Registers, Fresh, Known
  <1> QED BY <1>3, <1>4

\* The descriptor of an object is open.
LEMMA ObjectOpen ==
    ASSUME IInv, NEW k \in Conns, conn[k].fd # NoFd
    PROVE  /\ conn[k].fd \in Fds /\ chan[conn[k].fd] = k /\ sock[conn[k].fd] \in Clients
           /\ peer[sock[conn[k].fd]] \in {"up", "half", "reset", "gone"}
  <1>1. TypeOK /\ Linked /\ Sockets
    BY DEF IInv, Structure
  <1>2. conn[k].fd \in Fds /\ chan[conn[k].fd] = k
    BY <1>1 DEF TypeOK, Linked
  <1>3. sock[conn[k].fd] \in Clients
    BY <1>1, <1>2, NullAssumption DEF Sockets, TypeOK
  <1> QED BY <1>1, <1>2, <1>3, NullAssumption DEF Sockets

\* A connection is accepted on a number nobody uses and queued.
LEMMA ConnectSteps ==
    ASSUME IInv, NEW c \in Clients, NEW fd \in Fds, Connect(c, fd)
    PROVE  TypeOK' /\ Structure' /\ Kernel' /\ Ordered'
  <1>1. /\ peer[c] = "none" /\ sock[fd] = NoClient
        /\ peer' = [peer EXCEPT ![c] = "up"] /\ sock' = [sock EXCEPT ![fd] = c]
        /\ queue' = Append(queue, fd)
        /\ UNCHANGED <<sent, inflight, got, answered, conn, pool, chan, rdcb, io>>
        /\ UNCHANGED <<result, todo, pc, cur, errors>>
    BY DEF Connect, objectVars, loopVars
  <1>2. TypeOK /\ Sockets /\ Armed /\ Ordered
    BY DEF IInv, Structure, Kernel
  <1>3. Linked' /\ Busy' /\ Registers' /\ Fresh'
    BY <1>1, SameObjects DEF objectVars, loopVars
  <1>4. /\ queue' \in Seq(Fds)
        /\ \A x : Contains(queue', x) <=> Contains(queue, x) \/ x = fd
        /\ Distinct(queue')
    BY <1>1, <1>2, AppendContains DEF TypeOK, Sockets
  <1>5. TypeOK'
    BY <1>1, <1>2, <1>4 DEF TypeOK
  <1>6. /\ sock'[fd] = c /\ \A g \in Fds : g # fd => sock'[g] = sock[g]
        /\ peer'[c] = "up" /\ \A d \in Clients : d # c => peer'[d] = peer[d]
    BY <1>1, <1>2 DEF TypeOK
  <1>7. \A g \in Fds : sock[g] # c
    BY <1>1, <1>2, NullAssumption DEF Sockets, TypeOK
  <1>8. Sockets'
    <2>1. ASSUME NEW g \in Fds
          PROVE  /\ chan[g] # NoConn \/ Contains(queue', g) => sock'[g] # NoClient
                 /\ Contains(queue', g) => chan[g] = NoConn
                 /\ sock'[g] # NoClient => peer'[sock'[g]] \in {"up", "half", "reset", "gone"}
      <3>1. /\ chan[g] # NoConn \/ Contains(queue, g) => sock[g] # NoClient
            /\ Contains(queue, g) => chan[g] = NoConn
            /\ sock[g] # NoClient => peer[sock[g]] \in {"up", "half", "reset", "gone"}
        BY <1>2 DEF Sockets
      <3>2. CASE g = fd
        BY <1>1, <1>4, <1>6, <3>1, <3>2, NullAssumption
      <3>3. CASE g # fd
        <4>1. sock[g] # NoClient => sock[g] \in Clients /\ sock[g] # c
          BY <1>2, <1>7 DEF TypeOK
        <4> QED BY <1>4, <1>6, <3>1, <3>3, <4>1
      <3> QED BY <3>2, <3>3
    <2>2. ASSUME NEW f \in Fds, NEW g \in Fds, sock'[f] = sock'[g], sock'[f] # NoClient
          PROVE  f = g
      BY <1>2, <1>6, <1>7, <2>2 DEF Sockets
    <2> QED BY <1>1, <1>4, <2>1, <2>2 DEF Sockets
  <1>9. ASSUME NEW k \in Conns, conn[k].fd # NoFd
        PROVE  /\ conn[k].fd \in Fds
               /\ sock'[conn[k].fd] = sock[conn[k].fd] /\ sock[conn[k].fd] \in Clients
               /\ peer'[sock[conn[k].fd]] = peer[sock[conn[k].fd]]
    <2>1. conn[k].fd \in Fds /\ sock[conn[k].fd] \in Clients
      BY <1>9, ObjectOpen
    <2>2. conn[k].fd # fd
      BY <1>1, <2>1, NullAssumption
    <2> QED BY <1>6, <1>7, <2>1, <2>2
  <1>10. Armed'
    <2>1. ASSUME NEW k \in Conns, conn[k].fd # NoFd
          PROVE  ArmedAt(k)'
      BY <1>1, <1>2, <1>9, <2>1 DEF Armed, ArmedAt, Known, Aborted
    <2>2. ASSUME NEW k \in Conns, conn[k].fd = NoFd
          PROVE  ArmedAt(k)'
      BY <1>1, <2>2 DEF ArmedAt
    <2> QED BY <2>1, <2>2 DEF Armed
  <1>11. Ordered'
    <2>1. ASSUME NEW k \in Conns
          PROVE  OrderedAt(k)'
      <3>1. OrderedAt(k)
        BY <1>2 DEF Ordered
      <3> QED BY <1>1, <1>9, <3>1 DEF OrderedAt, FirstReplies
    <2>2. ASSUME NEW d \in Clients
          PROVE  /\ Serving(d)' = Serving(d)
                 /\ FirstReplies(d, answered[d])' = FirstReplies(d, answered[d])
      <3>1. \A k \in Conns : conn[k].fd # NoFd => sock'[conn[k].fd] = sock[conn[k].fd]
        BY <1>9
      <3> QED BY <1>1, <3>1 DEF Serving, FirstReplies
    <2> QED BY <1>1, <1>2, <2>1, <2>2 DEF Ordered
  <1> QED BY <1>3, <1>5, <1>8, <1>10, <1>11 DEF Structure, Kernel

\* A client ends or aborts: less is asked of its object than before.
LEMMA HangupSteps ==
    ASSUME IInv, NEW c \in Clients, NEW how \in {"half", "reset"}, Hangup(c, how)
    PROVE  TypeOK' /\ Structure' /\ Kernel' /\ Ordered'
  <1>1. /\ \/ how = "half"  /\ peer[c] = "up"
           \/ how = "reset" /\ peer[c] \in {"up", "half"}
        /\ peer' = [peer EXCEPT ![c] = how]
        /\ UNCHANGED <<sent, inflight, got, answered, sock, queue, conn, pool, chan, rdcb, io>>
        /\ UNCHANGED <<result, todo, pc, cur, errors>>
    BY DEF Hangup, objectVars, loopVars
  <1>2. TypeOK /\ Sockets /\ Armed /\ Ordered
    BY DEF IInv, Structure, Kernel
  <1>3. Linked' /\ Busy' /\ Registers' /\ Fresh'
    BY <1>1, SameObjects DEF objectVars, loopVars
  <1>4. TypeOK'
    BY <1>1, <1>2 DEF TypeOK
  <1>5. /\ peer'[c] = how /\ how \in {"half", "reset"} /\ peer[c] \in {"up", "half"}
        /\ how = "half" => peer[c] = "up"
        /\ \A d \in Clients : d # c => peer'[d] = peer[d]
    BY <1>1, <1>2 DEF TypeOK
  <1>6. Sockets'
    <2>1. ASSUME NEW g \in Fds, sock[g] # NoClient
          PROVE  peer'[sock[g]] \in {"up", "half", "reset", "gone"}
      <3>1. sock[g] \in Clients /\ peer[sock[g]] \in {"up", "half", "reset", "gone"}
        BY <1>2, <2>1 DEF Sockets, TypeOK
      <3> QED BY <1>5, <3>1
    <2> QED BY <1>1, <1>2, <2>1 DEF Sockets
  <1>7. Armed'
    <2>1. ASSUME NEW k \in Conns, conn[k].fd # NoFd
          PROVE  ArmedAt(k)'
      <3>1. sock[conn[k].fd] \in Clients /\ ArmedAt(k)
        BY <1>2, <2>1, ObjectOpen DEF Armed
      <3>2. /\ peer'[sock[conn[k].fd]] \in {"up", "half"} => peer[sock[conn[k].fd]] \in {"up", "half"}
            /\ peer'[sock[conn[k].fd]] \notin {"reset", "gone"} =>
                  peer[sock[conn[k].fd]] \notin {"reset", "gone"}
        BY <1>5, <3>1
      <3> QED BY <1>1, <2>1, <3>1, <3>2 DEF ArmedAt, Known, Aborted
    <2>2. ASSUME NEW k \in Conns, conn[k].fd = NoFd
          PROVE  ArmedAt(k)'
      BY <1>1, <2>2 DEF ArmedAt
    <2> QED BY <2>1, <2>2 DEF Armed
  <1>8. Ordered'
    <2>1. ASSUME NEW k \in Conns
          PROVE  OrderedAt(k)'
      BY <1>1, <1>2 DEF Ordered, OrderedAt, FirstReplies
    <2>2. ASSUME NEW d \in Clients
          PROVE  /\ Serving(d)' = Serving(d)
                 /\ FirstReplies(d, answered[d])' = FirstReplies(d, answered[d])
      BY <1>1 DEF Serving, FirstReplies
    <2> QED BY <1>1, <1>2, <2>1, <2>2 DEF Ordered
  <1> QED BY <1>3, <1>4, <1>6, <1>7, <1>8 DEF Structure, Kernel

\* A client sends one piece more.
LEMMA SendSteps ==
    ASSUME IInv, NEW c \in Clients, NEW kind \in Kinds, Send(c, kind)
    PROVE  TypeOK' /\ Structure' /\ Kernel' /\ Ordered'
  <1> DEFINE s == inflight[c]
             p == <<c, kind>>
  <1>1. /\ sent[c] < MaxSend
        /\ sent' = [sent EXCEPT ![c] = @ + 1]
        /\ inflight' = [inflight EXCEPT ![c] = Append(s, p)]
        /\ UNCHANGED <<peer, got, answered, sock, queue, conn, pool, chan, rdcb, io>>
        /\ UNCHANGED <<result, todo, pc, cur, errors>>
    BY DEF Send, objectVars, loopVars
  <1>2. TypeOK /\ Sockets /\ Armed /\ Ordered
    BY DEF IInv, Structure, Kernel
  <1>3. Linked' /\ Busy' /\ Registers' /\ Fresh'
    BY <1>1, SameObjects DEF objectVars, loopVars
  <1>4. Sockets'
    BY <1>1, <1>2 DEF Sockets
  <1>5. Armed'
    BY <1>1, <1>2 DEF Armed, ArmedAt, Known, Aborted
  <1>6. s \in Seq(Pieces) /\ p \in Pieces /\ p[1] = c /\ \A i \in DOMAIN s : s[i][1] = c
    BY <1>2 DEF TypeOK, Pieces, Ordered
  <1> HIDE DEF s, p
  <1>7. /\ Append(s, p) \in Seq(Pieces) /\ Len(Append(s, p)) = Len(s) + 1 /\ Len(s) \in Nat
        /\ \A i \in DOMAIN Append(s, p) : Append(s, p)[i][1] = c
    <2>1. /\ Append(s, p) \in Seq(Pieces) /\ Len(Append(s, p)) = Len(s) + 1
          /\ \A i \in 1 .. Len(s) : Append(s, p)[i] = s[i]
          /\ Append(s, p)[Len(s) + 1] = p
      BY <1>6, AppendProperties
    <2>2. Len(s) \in Nat /\ DOMAIN s = 1 .. Len(s) /\ DOMAIN Append(s, p) = 1 .. Len(s) + 1
      BY <1>6, <2>1, LenProperties
    <2> QED BY <1>6, <2>1, <2>2
  <1> DEFINE t == Append(s, p)
  <1> HIDE DEF t
  <1>8. /\ inflight'[c] = t /\ \A d \in Clients : d # c => inflight'[d] = inflight[d]
        /\ sent'[c] = sent[c] + 1 /\ \A d \in Clients : d # c => sent'[d] = sent[d]
        /\ t \in Seq(Pieces) /\ Len(t) = Len(inflight[c]) + 1
        /\ \A i \in DOMAIN t : t[i][1] = c
    BY <1>1, <1>2, <1>7 DEF TypeOK, t, s
  <1>9. TypeOK'
    <2>1. sent[c] \in 0 .. MaxSend /\ sent[c] + 1 \in 0 .. MaxSend
      BY <1>1, <1>2, BoundsAssumption DEF TypeOK
    <2>2. sent' \in [Clients -> 0 .. MaxSend]
      BY <1>1, <1>2, <2>1 DEF TypeOK
    <2>3. inflight' \in [Clients -> Seq(Pieces)]
      BY <1>1, <1>2, <1>7 DEF TypeOK
    <2> QED BY <1>1, <1>2, <2>2, <2>3 DEF TypeOK
  <1>10. ASSUME NEW k \in Conns
         PROVE  OrderedAt(k)'
    <2>1. OrderedAt(k)
      BY <1>2 DEF Ordered
    <2>2. CASE conn[k].fd = NoFd
      BY <1>1, <2>2 DEF OrderedAt
    <2>3. CASE conn[k].fd # NoFd
      <3> DEFINE d == sock[conn[k].fd]
      <3>1. d \in Clients
        BY <2>3, ObjectOpen
      <3>2. /\ \A i \in DOMAIN conn[k].rbuf : conn[k].rbuf[i][1] = d
            /\ got[d] \o conn[k].wbuf = FirstReplies(d, answered[d])
            /\ answered[d] + Len(inflight[d]) + Len(conn[k].rbuf) \leq sent[d]
        BY <2>1, <2>3 DEF OrderedAt
      <3>3. answered[d] + Len(inflight'[d]) + Len(conn[k].rbuf) \leq sent'[d]
        <4>1. CASE d # c
          BY <1>8, <3>1, <3>2, <4>1
        <4>2. CASE d = c
          <5> DEFINE x == Len(inflight[c])
                     y == Len(conn[k].rbuf)
                     z == sent[c]
                     n == answered[c]
          <5>1. conn[k].rbuf \in Seq(Pieces)
            BY <1>2 DEF TypeOK
          <5>2. /\ x \in Nat /\ y \in Nat /\ z \in Nat /\ n \in Nat /\ n + x + y \leq z
                /\ Len(inflight'[c]) = x + 1 /\ sent'[c] = z + 1
            BY <1>2, <1>7, <1>8, <3>2, <4>2, <5>1, LenProperties DEF TypeOK, s
          <5> HIDE DEF x, y, z, n
          <5>3. n + (x + 1) + y \leq z + 1
            BY ONLY <5>2
          <5> QED BY <4>2, <5>2, <5>3 DEF y, n
        <4> QED BY <4>1, <4>2
      <3>4. UNCHANGED d
        BY <1>1
      <3> HIDE DEF d
      <3> QED BY <1>1, <3>2, <3>3, <3>4 DEF OrderedAt, FirstReplies, d
    <2> QED BY <2>2, <2>3
  <1>11. Ordered'
    <2>1. ASSUME NEW d \in Clients
          PROVE  /\ Serving(d)' = Serving(d)
                 /\ FirstReplies(d, answered[d])' = FirstReplies(d, answered[d])
      BY <1>1 DEF Serving, FirstReplies
    <2>2. ASSUME NEW d \in Clients
          PROVE  /\ \A i \in DOMAIN inflight'[d] : inflight'[d][i][1] = d
                 /\ answered[d] + Len(inflight'[d]) \leq sent'[d]
      <3>1. /\ \A i \in DOMAIN inflight[d] : inflight[d][i][1] = d
            /\ answered[d] + Len(inflight[d]) \leq sent[d]
        BY <1>2 DEF Ordered
      <3>2. answered[d] \in Nat /\ sent[d] \in Nat
        BY <1>2 DEF TypeOK
      <3>3. CASE d = c
        <4>1. Len(inflight[c]) \in Nat
          BY <1>7 DEF s
        <4> QED BY <1>8, <3>1, <3>2, <3>3, <4>1
      <3>4. CASE d # c
        BY <1>8, <3>1, <3>4
      <3> QED BY <3>3, <3>4
    <2> QED BY <1>1, <1>2, <1>10, <2>1, <2>2 DEF Ordered
  <1> QED BY <1>3, <1>4, <1>5, <1>9, <1>11 DEF Structure, Kernel

-----------------------------------------------------------------------------
(* make_connection.                                                        *)

\* After setup_new_events and add_read, reading is registered.
LEMMA ArmNewBecomes ==
    ASSUME NEW fd \in Fds, io \in EpollState, Wrong(io, fd), io.ker[fd] = {}
    PROVE  Becomes(io, ArmNew(fd), fd, {"rd"})
  <1> DEFINE a == AddEvent(io, fd, "rd")
             b == RemoveEvent(a, fd, "rd")
             c == AddEvent(b, fd, "wr")
             d == RemoveEvent(c, fd, "wr")
             e == AddEvent(d, fd, "rd")
  <1>0. "rd" \in RDWR /\ "wr" \in RDWR
    BY DEF RDWR
  <1>1. Becomes(io, a, fd, io.ev[fd] \cup {"rd"}) /\ a \in EpollState /\ Wrong(a, fd)
    <2>1. Becomes(io, a, fd, io.ev[fd] \cup {"rd"})
      BY <1>0, AddBecomes
    <2> HIDE DEF a
    <2> QED BY <2>1 DEF Becomes, Wrong
  <1>2. Becomes(io, b, fd, {}) /\ b \in EpollState /\ Wrong(b, fd)
    <2> HIDE DEF a
    <2>1. Becomes(a, b, fd, a.ev[fd] \ {"rd"})
      BY <1>0, <1>1, RemoveBecomes
    <2> HIDE DEF b
    <2>2. io.ker[fd] = io.ev[fd] => a.ev[fd] \ {"rd"} = {}
      BY <1>1 DEF Becomes
    <2>3. Becomes(io, b, fd, {})
      BY <1>1, <2>1, <2>2, BecomesTwice
    <2> QED BY <2>3 DEF Becomes, Wrong
  <1>3. Becomes(io, c, fd, {"wr"}) /\ c \in EpollState /\ Wrong(c, fd)
    <2> HIDE DEF b
    <2>1. Becomes(b, c, fd, b.ev[fd] \cup {"wr"})
      BY <1>0, <1>2, AddBecomes
    <2> HIDE DEF c
    <2>2. io.ker[fd] = io.ev[fd] => b.ev[fd] \cup {"wr"} = {"wr"}
      BY <1>2 DEF Becomes
    <2>3. Becomes(io, c, fd, {"wr"})
      BY <1>2, <2>1, <2>2, BecomesTwice
    <2> QED BY <2>3 DEF Becomes, Wrong
  <1>4. Becomes(io, d, fd, {}) /\ d \in EpollState /\ Wrong(d, fd)
    <2> HIDE DEF c
    <2>1. Becomes(c, d, fd, c.ev[fd] \ {"wr"})
      BY <1>0, <1>3, RemoveBecomes
    <2> HIDE DEF d
    <2>2. io.ker[fd] = io.ev[fd] => c.ev[fd] \ {"wr"} = {}
      BY <1>3 DEF Becomes
    <2>3. Becomes(io, d, fd, {})
      BY <1>3, <2>1, <2>2, BecomesTwice
    <2> QED BY <2>3 DEF Becomes, Wrong
  <1>5. Becomes(io, e, fd, {"rd"})
    <2> HIDE DEF d
    <2>1. Becomes(d, e, fd, d.ev[fd] \cup {"rd"})
      BY <1>0, <1>4, AddBecomes
    <2> HIDE DEF e
    <2>2. io.ker[fd] = io.ev[fd] => d.ev[fd] \cup {"rd"} = {"rd"}
      BY <1>4 DEF Becomes
    <2> QED BY <1>4, <2>1, <2>2, BecomesTwice
  <1>6. e = ArmNew(fd)
    BY DEF ArmNew
  <1> HIDE DEF e
  <1> QED BY <1>5, <1>6

\* The head of the queue is open and not yet served, and the object is new or
\* comes from the pool.
LEMMA AdoptEffect ==
    ASSUME IInv, NEW k \in Conns, Adopt(k), NEW fd, fd = Head(queue)
    PROVE  /\ fd \in Fds /\ Contains(queue, fd) /\ chan[fd] = NoConn /\ sock[fd] \in Clients
           /\ queue' \in Seq(Fds) /\ Distinct(queue')
           /\ \A x : Contains(queue', x) <=> Contains(queue, x) /\ x # fd
           /\ conn[k] = Unmade
           /\ pool' \in Seq(Conns) /\ Distinct(pool')
           /\ \A j \in Conns : Contains(pool', j) => Contains(pool, j) /\ j # k
           /\ conn' \in [Conns -> Object]
           /\ conn'[k] = [fd |-> fd, status |-> "CONNECTED", rbuf |-> <<>>, wbuf |-> <<>>]
           /\ \A j \in Conns : j # k => conn'[j] = conn[j]
           /\ chan' = [chan EXCEPT ![fd] = k]
           /\ Becomes(io, io', fd, {"rd"})
  <1>1. TypeOK /\ Linked /\ Sockets /\ Registers
    BY DEF IInv, Structure, Kernel
  <1>2. queue # <<>> /\ queue' = Tail(queue)
    BY DEF Adopt
  <1>3. /\ fd \in Fds /\ Contains(queue, fd)
        /\ queue' \in Seq(Fds) /\ Distinct(queue')
        /\ \A x : Contains(queue', x) <=> Contains(queue, x) /\ x # fd
    BY <1>1, <1>2, TailContains DEF TypeOK, Sockets
  <1>4. chan[fd] = NoConn /\ sock[fd] \in Clients
    BY <1>1, <1>3 DEF Sockets, TypeOK
  <1>5. /\ conn[k].fd = NoFd /\ pool' \in Seq(Conns) /\ Distinct(pool')
        /\ \A j \in Conns : Contains(pool', j) => Contains(pool, j) /\ j # k
    <2>1. CASE pool # <<>>
      <3>1. k = Head(pool) /\ pool' = Tail(pool)
        BY <2>1 DEF Adopt
      <3>2. /\ Contains(pool, k) /\ pool' \in Seq(Conns) /\ Distinct(pool')
            /\ \A x : Contains(pool', x) <=> Contains(pool, x) /\ x # k
        BY <1>1, <2>1, <3>1, TailContains DEF TypeOK, Linked
      <3> QED BY <1>1, <3>2 DEF Linked
    <2>2. CASE pool = <<>>
      <3>1. conn[k].fd = NoFd /\ pool' = pool
        BY <2>2 DEF Adopt
      <3>2. \A j : ~Contains(pool, j)
        BY <2>2 DEF Contains
      <3> QED BY <1>1, <3>1, <3>2 DEF TypeOK, Linked
    <2> QED BY <2>1, <2>2
  <1>6. conn[k] = Unmade
    BY <1>1, <1>5 DEF Linked
  <1>7. conn' = [conn EXCEPT ![k].fd = fd, ![k].status = "CONNECTED"]
    BY DEF Adopt
  <1>8. /\ conn' \in [Conns -> Object]
        /\ conn'[k] = [fd |-> fd, status |-> "CONNECTED", rbuf |-> <<>>, wbuf |-> <<>>]
        /\ \A j \in Conns : j # k => conn'[j] = conn[j]
    BY <1>1, <1>3, <1>6, <1>7 DEF TypeOK, Object, Unmade
  <1>9. chan' = [chan EXCEPT ![fd] = k]
    BY DEF Adopt, Bound
  <1>10. Becomes(io, io', fd, {"rd"})
    <2>1. io \in EpollState /\ Wrong(io, fd) /\ io.ker[fd] = {}
      BY <1>1, <1>3, <1>4 DEF TypeOK, EpollState, Registers, Known, Wrong
    <2>2. io' = ArmNew(fd)
      BY DEF Adopt
    <2> QED BY <1>3, <2>1, <2>2, ArmNewBecomes
  <1> QED BY <1>3, <1>4, <1>5, <1>6, <1>8, <1>9, <1>10

\* A queued descriptor gets an object that is as a new one.
LEMMA AdoptSteps ==
    ASSUME IInv, NEW k \in Conns, Adopt(k)
    PROVE  TypeOK' /\ Structure' /\ Kernel' /\ Ordered'
  <1>0. PICK fd : fd = Head(queue)
    OBVIOUS
  <1> DEFINE c == sock[fd]
  <1>1. /\ fd \in Fds /\ fd # NoFd /\ Contains(queue, fd) /\ chan[fd] = NoConn /\ c \in Clients
        /\ queue' \in Seq(Fds) /\ Distinct(queue')
        /\ \A x : Contains(queue', x) <=> Contains(queue, x) /\ x # fd
    BY <1>0, AdoptEffect, NullAssumption
  <1>2. /\ conn[k].fd = NoFd /\ conn' \in [Conns -> Object]
        /\ conn'[k].fd = fd /\ conn'[k].status = "CONNECTED"
        /\ conn'[k].rbuf = <<>> /\ conn'[k].wbuf = <<>>
        /\ \A j \in Conns : j # k => conn'[j] = conn[j]
    <2>1. conn[k] = Unmade
      BY <1>0, AdoptEffect
    <2>2. conn'[k] = [fd |-> fd, status |-> "CONNECTED", rbuf |-> <<>>, wbuf |-> <<>>]
      BY <1>0, AdoptEffect
    <2>3. conn' \in [Conns -> Object] /\ \A j \in Conns : j # k => conn'[j] = conn[j]
      BY <1>0, AdoptEffect
    <2>4. conn[k].fd = NoFd
      BY <2>1 DEF Unmade
    <2> QED BY <2>2, <2>3, <2>4
  <1>3. /\ pool' \in Seq(Conns) /\ Distinct(pool')
        /\ \A j \in Conns : Contains(pool', j) => Contains(pool, j) /\ j # k
    BY <1>0, AdoptEffect
  <1>4. /\ UNCHANGED <<peer, sent, inflight, got, answered, sock>>
        /\ UNCHANGED <<result, todo, pc, cur, errors>>
        /\ pc = "drain" /\ rdcb' = [rdcb EXCEPT ![fd] = TRUE]
    BY <1>0 DEF Adopt, clientVars, loopVars
  <1>5. TypeOK /\ Linked /\ Sockets /\ Busy /\ Registers /\ Fresh /\ Armed /\ Ordered
    BY DEF IInv, Structure, Kernel
  <1>6. /\ chan' \in [Fds -> Conns \cup {NoConn}] /\ chan'[fd] = k /\ k # NoConn
        /\ \A g \in Fds : g # fd => chan'[g] = chan[g]
    <2>1. chan' = [chan EXCEPT ![fd] = k]
      BY <1>0, AdoptEffect
    <2> QED BY <1>1, <1>5, <2>1, NullAssumption DEF TypeOK
  <1>7. Becomes(io, io', fd, {"rd"})
    BY <1>0, AdoptEffect
  <1>8. TypeOK'
    <2>1. rdcb' \in [Fds -> BOOLEAN]
      BY <1>1, <1>4, <1>5 DEF TypeOK
    <2>2. io' \in EpollState
      BY <1>7 DEF Becomes
    <2>3. conn' \in [Conns -> [fd : Fds \cup {NoFd}, status : {"CONNECTED", "CLOSING", "CLOSED"},
                               rbuf : Seq(Pieces), wbuf : Seq(Replies)]]
      BY <1>2 DEF Object
    <2> QED BY <1>1, <1>3, <1>4, <1>5, <1>6, <2>1, <2>2, <2>3 DEF TypeOK, EpollState, Pieces, Replies
  <1>9. Linked'
    <2>1. ASSUME NEW g \in Fds, chan'[g] # NoConn
          PROVE  conn'[chan'[g]].fd = g
      <3>1. CASE g = fd
        BY <1>2, <1>6, <3>1
      <3>2. CASE g # fd
        <4>1. chan[g] \in Conns /\ conn[chan[g]].fd = g /\ g # NoFd
          BY <1>5, <1>6, <2>1, <3>2, NullAssumption DEF TypeOK, Linked
        <4> QED BY <1>2, <1>6, <3>2, <4>1
      <3> QED BY <3>1, <3>2
    <2>2. ASSUME NEW j \in Conns
          PROVE  IF conn'[j].fd = NoFd THEN conn'[j] = Unmade
                 ELSE chan'[conn'[j].fd] = j /\ conn'[j].status # "CLOSED"
      <3>1. CASE j = k
        BY <1>1, <1>2, <1>6, <3>1
      <3>2. CASE j # k
        <4>1. conn'[j] = conn[j]
          BY <1>2, <3>2
        <4>2. CASE conn[j].fd = NoFd
          BY <1>5, <4>1, <4>2 DEF Linked
        <4>3. CASE conn[j].fd # NoFd
          <5>1. conn[j].fd \in Fds /\ chan[conn[j].fd] = j /\ conn[j].status # "CLOSED"
            BY <1>5, <4>3 DEF Linked, TypeOK
          <5>2. conn[j].fd # fd
            BY <1>1, <5>1, NullAssumption
          <5> QED BY <1>6, <4>1, <4>3, <5>1, <5>2
        <4> QED BY <4>2, <4>3
      <3> QED BY <3>1, <3>2
    <2>3. ASSUME NEW j \in Conns, Contains(pool', j)
          PROVE  conn'[j].fd = NoFd
      BY <1>2, <1>3, <1>5, <2>3 DEF Linked
    <2>4. Unmade' = Unmade
      BY DEF Unmade
    <2> QED BY <1>3, <2>1, <2>2, <2>3, <2>4 DEF Linked
  <1>10. Sockets'
    <2>1. ASSUME NEW g \in Fds
          PROVE  /\ chan'[g] # NoConn \/ Contains(queue', g) => sock[g] # NoClient
                 /\ Contains(queue', g) => chan'[g] = NoConn
      <3>1. /\ chan[g] # NoConn \/ Contains(queue, g) => sock[g] # NoClient
            /\ Contains(queue, g) => chan[g] = NoConn
        BY <1>5 DEF Sockets
      <3> QED BY <1>1, <1>6, <3>1
    <2> QED BY <1>1, <1>4, <1>5, <2>1 DEF Sockets
  <1>11. Busy'
    BY <1>4, <1>5 DEF Busy
  <1>12. ASSUME NEW g \in Fds, g # fd
         PROVE  io'.ker[g] = io.ker[g] /\ io'.ev[g] = io.ev[g]
    BY <1>7, <1>12 DEF Becomes
  <1>13. /\ io.ker[fd] = io.ev[fd] => io'.ker[fd] = {"rd"} /\ io'.ev[fd] = {"rd"}
         /\ io.ker[fd] # io.ev[fd] => io'.ker[fd] = io.ker[fd] /\ io'.ev[fd] = io.ev[fd]
    BY <1>7 DEF Becomes
  <1>14. Registers'
    <2>1. ASSUME NEW g \in Fds
          PROVE  /\ io'.ker[g] # io'.ev[g] => io'.ker[g] = {} /\ io'.ev[g] = {"rd"}
                 /\ io'.ker[g] # {} => chan'[g] # NoConn
      <3>1. /\ io.ker[g] # io.ev[g] => io.ker[g] = {} /\ io.ev[g] = {"rd"}
            /\ io.ker[g] # {} => chan[g] # NoConn
        BY <1>5 DEF Registers, Known
      <3>2. CASE g = fd
        BY <1>6, <1>13, <3>1, <3>2
      <3>3. CASE g # fd
        BY <1>6, <1>12, <3>1, <3>3
      <3> QED BY <3>2, <3>3
    <2> QED BY <2>1 DEF Registers, Known
  <1>15. ASSUME NEW j \in Conns, j # k, conn[j].fd # NoFd
         PROVE  /\ conn'[j] = conn[j] /\ conn[j].fd \in Fds /\ conn[j].fd # fd
                /\ sock[conn[j].fd] \in Clients /\ sock[conn[j].fd] # c
    <2>1. conn[j].fd \in Fds /\ chan[conn[j].fd] = j /\ sock[conn[j].fd] \in Clients
      BY <1>15, ObjectOpen
    <2>2. conn[j].fd # fd
      BY <1>1, <2>1, NullAssumption
    <2>3. sock[conn[j].fd] # c
      BY <1>1, <1>5, <2>1, <2>2, NullAssumption DEF Sockets
    <2> QED BY <1>2, <1>15, <2>1, <2>2, <2>3
  <1>16. Fresh'
    <2> SUFFICES ASSUME errors = 0
                 PROVE  /\ \A g \in Fds : g \in todo \/ g = cur =>
                              chan'[g] # NoConn /\ io'.ker[g] = io'.ev[g]
                        /\ \A j \in Conns : /\ conn'[j].fd # NoFd
                                            /\ io'.ker[conn'[j].fd] # io'.ev[conn'[j].fd]
                                            => conn'[j].wbuf = <<>>
      BY <1>4 DEF Fresh, Known
    <2>1. ASSUME NEW g \in Fds, g \in todo \/ g = cur
          PROVE  chan'[g] # NoConn /\ io'.ker[g] = io'.ev[g]
      <3>1. chan[g] # NoConn /\ io.ker[g] = io.ev[g]
        BY <1>5, <2>1 DEF Fresh, Known
      <3> QED BY <1>1, <1>6, <1>12, <3>1
    <2>2. ASSUME NEW j \in Conns, conn'[j].fd # NoFd, io'.ker[conn'[j].fd] # io'.ev[conn'[j].fd]
          PROVE  conn'[j].wbuf = <<>>
      <3>1. CASE j = k
        BY <1>2, <3>1
      <3>2. CASE j # k
        <4>1. conn'[j] = conn[j]
          BY <1>2, <3>2
        <4> QED BY <1>5, <1>12, <1>15, <2>2, <3>2, <4>1 DEF Fresh, Known
      <3> QED BY <3>1, <3>2
    <2> QED BY <2>1, <2>2
  <1>17. Armed'
    <2>1. ArmedAt(k)'
      <3>1. "rd" \in io'.ker[fd] \/ io'.ker[fd] # io'.ev[fd]
        BY <1>13
      <3> QED BY <1>2, <3>1 DEF ArmedAt, Known
    <2>2. ASSUME NEW j \in Conns, j # k
          PROVE  ArmedAt(j)'
      <3>1. ArmedAt(j) /\ conn'[j] = conn[j]
        BY <1>2, <1>5, <2>2 DEF Armed
      <3> QED BY <1>4, <1>12, <1>15, <2>2, <3>1 DEF ArmedAt, Known, Aborted
    <2> QED BY <2>1, <2>2 DEF Armed
  <1>18. Ordered'
    <2>1. Serving(c) = {}
      <3>1. ASSUME NEW j \in Conns, conn[j].fd # NoFd
            PROVE  sock[conn[j].fd] # c
        BY <1>2, <1>15, <3>1
      <3> QED BY <3>1 DEF Serving
    <2>2. /\ got[c] = FirstReplies(c, answered[c]) /\ answered[c] + Len(inflight[c]) \leq sent[c]
          /\ got[c] \in Seq(Replies) /\ answered[c] \in Nat /\ inflight[c] \in Seq(Pieces)
      BY <1>1, <1>5, <2>1 DEF Ordered, TypeOK
    <2>3. OrderedAt(k)'
      <3>1. got[c] \o <<>> = FirstReplies(c, answered[c])
        BY <2>2, ConcatEmptySeq
      <3>2. answered[c] + Len(inflight[c]) + Len(<<>>) \leq sent[c]
        <4>1. Len(<<>>) = 0 /\ Len(inflight[c]) \in Nat
          BY <2>2, LenProperties
        <4> QED BY <2>2, <4>1
      <3>3. DOMAIN <<>> = {}
        OBVIOUS
      <3>4. /\ \A i \in DOMAIN conn'[k].rbuf : conn'[k].rbuf[i][1] = c
            /\ got[c] \o conn'[k].wbuf = FirstReplies(c, answered[c])
            /\ answered[c] + Len(inflight[c]) + Len(conn'[k].rbuf) \leq sent[c]
        BY <1>2, <3>1, <3>2, <3>3
      <3>5. sock'[conn'[k].fd] = c
        BY <1>2, <1>4
      <3> QED BY <1>4, <3>4, <3>5 DEF OrderedAt, FirstReplies
    <2>4. ASSUME NEW j \in Conns, j # k
          PROVE  OrderedAt(j)'
      <3>1. OrderedAt(j) /\ conn'[j] = conn[j]
        BY <1>2, <1>5, <2>4 DEF Ordered
      <3> QED BY <1>4, <3>1 DEF OrderedAt, FirstReplies
    <2>5. ASSUME NEW d \in Clients
          PROVE  /\ Serving(d)' = {} => Serving(d) = {}
                 /\ FirstReplies(d, answered[d])' = FirstReplies(d, answered[d])
      <3>1. Serving(d) \subseteq Serving(d)'
        BY <1>2, <1>4 DEF Serving
      <3> QED BY <1>4, <3>1 DEF FirstReplies
    <2> QED BY <1>4, <1>5, <2>3, <2>4, <2>5 DEF Ordered
  <1> QED BY <1>8, <1>9, <1>10, <1>11, <1>14, <1>16, <1>17, <1>18 DEF Structure, Kernel

-----------------------------------------------------------------------------
(* http_connection::close and release_connection.                          *)

\* Closing unregisters the descriptor and leaves events with reading or nothing.
LEMMA CloseEffect ==
    ASSUME IInv, Close
    PROVE  /\ Served(cur) /\ pc = "write" /\ conn[chan[cur]].wbuf = <<>>
           /\ io' \in EpollState
           /\ \A g \in Fds : g # cur => io'.ev[g] = io.ev[g] /\ io'.ker[g] = io.ker[g]
           /\ io'.ker[cur] = {} /\ io'.ev[cur] \in {{}, {"rd"}}
  <1>1. pc = "write" /\ conn[chan[cur]].wbuf = <<>>
    BY DEF Close, WriteCallback, MayClose, Current
  <1>2. Served(cur)
    BY <1>1, CurrentServed
  <1> DEFINE e == RemoveEvent(io, cur, "wr")
  <1>3. /\ cur \in Fds /\ io \in EpollState /\ Wrong(io, cur) /\ "wr" \in RDWR
        /\ io.ev[cur] \in SUBSET RDWR
    BY <1>2 DEF Served, RDWR
  <1>4. Becomes(io, e, cur, io.ev[cur] \ {"wr"})
    BY <1>3, RemoveBecomes
  <1>5. io' = CloseEvents(e, cur)
    BY DEF Close
  <1> HIDE DEF e
  <1>6. /\ e \in EpollState
        /\ \A g \in Fds : g # cur => e.ev[g] = io.ev[g] /\ e.ker[g] = io.ker[g]
    BY <1>4 DEF Becomes
  <1>7. e.ev[cur] \in {{}, {"rd"}}
    <2>1. CASE io.ker[cur] = io.ev[cur]
      <3>1. e.ev[cur] = io.ev[cur] \ {"wr"}
        BY <1>4, <2>1 DEF Becomes
      <3>2. e.ev[cur] \subseteq {"rd"}
        BY <1>3, <3>1 DEF RDWR
      <3> QED BY <3>2
    <2>2. CASE io.ker[cur] # io.ev[cur]
      BY <1>3, <1>4, <2>2 DEF Becomes, Wrong
    <2> QED BY <2>1, <2>2
  <1>8. /\ io' = [e EXCEPT !.ker = [e.ker EXCEPT ![cur] = {}]]
    BY <1>5, <1>6 DEF CloseEvents, EpollState
  <1>9. /\ io' \in EpollState /\ io'.ev = e.ev /\ io'.ker = [e.ker EXCEPT ![cur] = {}]
    BY <1>3, <1>6, <1>8 DEF EpollState
  <1>10. io'.ker[cur] = {} /\ \A g \in Fds : g # cur => io'.ker[g] = e.ker[g]
    BY <1>3, <1>6, <1>9 DEF EpollState
  <1> QED BY <1>1, <1>2, <1>6, <1>7, <1>9, <1>10

\* A connection is closed with all its replies written, and its object pooled.
LEMMA CloseSteps ==
    ASSUME IInv, Close
    PROVE  TypeOK' /\ Structure' /\ Kernel' /\ Ordered'
  <1> DEFINE c == sock[cur]
             k == chan[cur]
  <1>1. /\ Served(cur) /\ pc = "write" /\ conn[k].wbuf = <<>>
        /\ io' \in EpollState
        /\ \A g \in Fds : g # cur => io'.ev[g] = io.ev[g] /\ io'.ker[g] = io.ker[g]
        /\ io'.ker[cur] = {} /\ io'.ev[cur] \in {{}, {"rd"}}
    BY CloseEffect
  <1>2. /\ chan' = [chan EXCEPT ![cur] = NoConn] /\ rdcb' = [rdcb EXCEPT ![cur] = FALSE]
        /\ peer' = [peer EXCEPT ![c] = "closed"] /\ inflight' = [inflight EXCEPT ![c] = <<>>]
        /\ sock' = [sock EXCEPT ![cur] = NoClient] /\ conn' = [conn EXCEPT ![k] = Unmade]
        /\ pool' = Append(pool, k) /\ pc' = "dispatch" /\ cur' = NoFd
        /\ UNCHANGED <<sent, got, answered, queue, result, todo, errors>>
    BY DEF Close, WriteCallback, Current
  <1>3. TypeOK /\ Linked /\ Sockets /\ Busy /\ Registers /\ Fresh /\ Armed /\ Ordered
    BY DEF IInv, Structure, Kernel
  <1>4. cur \in Fds /\ cur # NoFd /\ k \in Conns /\ k # NoConn /\ c \in Clients /\ c # NoClient
        /\ conn[k].fd = cur
    BY <1>1, NullAssumption DEF Served
  <1>5. Unmade \in Object
    BY DEF Unmade, Object
  <1>6. /\ chan'[cur] = NoConn /\ \A g \in Fds : g # cur => chan'[g] = chan[g]
        /\ sock'[cur] = NoClient /\ \A g \in Fds : g # cur => sock'[g] = sock[g]
    BY <1>2, <1>3, <1>4 DEF TypeOK
  <1>7. /\ peer'[c] = "closed" /\ \A d \in Clients : d # c => peer'[d] = peer[d]
        /\ inflight'[c] = <<>> /\ \A d \in Clients : d # c => inflight'[d] = inflight[d]
    BY <1>2, <1>3, <1>4 DEF TypeOK
  <1>8. conn'[k] = Unmade /\ \A j \in Conns : j # k => conn'[j] = conn[j]
    BY <1>2, <1>3, <1>4 DEF TypeOK
  <1>9. /\ pool' \in Seq(Conns) /\ Distinct(pool')
        /\ \A x : Contains(pool', x) <=> Contains(pool, x) \/ x = k
    <2>1. ~Contains(pool, k) /\ pool \in Seq(Conns) /\ Distinct(pool)
      BY <1>3, <1>4 DEF Linked, TypeOK
    <2> QED BY <1>2, <1>4, <2>1, AppendContains
  <1>10. ASSUME NEW j \in Conns, j # k, conn[j].fd # NoFd
         PROVE  /\ conn'[j] = conn[j] /\ conn[j].fd \in Fds /\ conn[j].fd # cur
                /\ sock'[conn[j].fd] = sock[conn[j].fd]
                /\ sock[conn[j].fd] \in Clients /\ sock[conn[j].fd] # c
    BY <1>1, <1>6, <1>8, <1>10, OthersApart
  <1>11. TypeOK'
    <2>1. conn' \in [Conns -> Object]
      <3>1. conn \in [Conns -> Object]
        BY <1>3 DEF TypeOK, Object
      <3> QED BY <1>2, <1>5, <3>1
    <2>2. chan' \in [Fds -> Conns \cup {NoConn}] /\ rdcb' \in [Fds -> BOOLEAN]
      BY <1>2, <1>3 DEF TypeOK
    <2>3. peer' \in [Clients -> {"none", "up", "half", "reset", "gone", "closed"}]
      BY <1>2, <1>3 DEF TypeOK
    <2>4. inflight' \in [Clients -> Seq(Pieces)]
      <3>1. <<>> \in Seq(Pieces)
        OBVIOUS
      <3>2. inflight \in [Clients -> Seq(Pieces)]
        BY <1>3 DEF TypeOK
      <3> HIDE DEF c
      <3> QED BY ONLY <1>2, <3>1, <3>2
    <2>5. sock' \in [Fds -> Clients \cup {NoClient}]
      BY <1>2, <1>3 DEF TypeOK
    <2> QED BY <1>1, <1>2, <1>3, <1>9, <2>1, <2>2, <2>3, <2>4, <2>5
            DEF TypeOK, EpollState, Object, Pieces, Replies
  <1>12. Linked'
    <2>1. ASSUME NEW g \in Fds, chan'[g] # NoConn
          PROVE  conn'[chan'[g]].fd = g
      <3>1. g # cur /\ chan'[g] = chan[g]
        BY <1>6, <2>1
      <3>2. chan[g] \in Conns /\ conn[chan[g]].fd = g
        BY <1>3, <2>1, <3>1 DEF TypeOK, Linked
      <3> QED BY <1>4, <1>8, <3>1, <3>2
    <2>2. ASSUME NEW j \in Conns
          PROVE  IF conn'[j].fd = NoFd THEN conn'[j] = Unmade
                 ELSE chan'[conn'[j].fd] = j /\ conn'[j].status # "CLOSED"
      <3>1. CASE j = k
        <4>1. conn'[j].fd = NoFd
          BY <1>8, <3>1 DEF Unmade
        <4> QED BY <1>8, <3>1, <4>1
      <3>2. CASE j # k
        <4>1. /\ conn'[j] = conn[j]
              /\ IF conn[j].fd = NoFd THEN conn[j] = Unmade
                 ELSE chan[conn[j].fd] = j /\ conn[j].status # "CLOSED"
          BY <1>3, <1>8, <3>2 DEF Linked
        <4> QED BY <1>6, <1>10, <3>2, <4>1
      <3> QED BY <3>1, <3>2
    <2>3. ASSUME NEW j \in Conns, Contains(pool', j)
          PROVE  conn'[j].fd = NoFd
      <3>1. CASE j = k
        BY <1>8, <3>1 DEF Unmade
      <3>2. CASE j # k
        BY <1>3, <1>8, <1>9, <2>3, <3>2 DEF Linked
      <3> QED BY <3>1, <3>2
    <2>4. Unmade' = Unmade
      BY DEF Unmade
    <2> QED BY <1>9, <2>1, <2>2, <2>3, <2>4 DEF Linked
  <1>13. Sockets'
    <2>1. ASSUME NEW g \in Fds
          PROVE  /\ chan'[g] # NoConn \/ Contains(queue, g) => sock'[g] # NoClient
                 /\ Contains(queue, g) => chan'[g] = NoConn
                 /\ sock'[g] # NoClient => peer'[sock'[g]] \in {"up", "half", "reset", "gone"}
      <3>1. /\ chan[g] # NoConn \/ Contains(queue, g) => sock[g] # NoClient
            /\ Contains(queue, g) => chan[g] = NoConn
            /\ sock[g] # NoClient => /\ peer[sock[g]] \in {"up", "half", "reset", "gone"}
                                     /\ sock[g] \in Clients
        BY <1>3 DEF Sockets, TypeOK
      <3>2. CASE g = cur
        BY <1>4, <1>6, <3>1, <3>2
      <3>3. CASE g # cur
        <4>1. sock[g] # NoClient => sock[g] # c
          BY <1>3, <1>4, <3>3 DEF Sockets
        <4> QED BY <1>6, <1>7, <3>1, <3>3, <4>1
      <3> QED BY <3>2, <3>3
    <2>2. ASSUME NEW f \in Fds, NEW g \in Fds, sock'[f] = sock'[g], sock'[f] # NoClient
          PROVE  f = g
      BY <1>3, <1>6, <2>2 DEF Sockets
    <2> QED BY <1>2, <1>3, <2>1, <2>2 DEF Sockets
  <1>14. Busy'
    BY <1>2 DEF Busy
  <1>15. Registers'
    <2>1. ASSUME NEW g \in Fds
          PROVE  /\ io'.ker[g] # io'.ev[g] => io'.ker[g] = {} /\ io'.ev[g] = {"rd"}
                 /\ io'.ker[g] # {} => chan'[g] # NoConn
      <3>1. CASE g = cur
        BY <1>1, <3>1
      <3>2. CASE g # cur
        BY <1>1, <1>3, <1>6, <3>2 DEF Registers, Known
      <3> QED BY <3>1, <3>2
    <2> QED BY <2>1 DEF Registers, Known
  <1>16. Fresh'
    <2> SUFFICES ASSUME errors = 0
                 PROVE  /\ \A g \in Fds : g \in todo \/ g = cur' =>
                              chan'[g] # NoConn /\ io'.ker[g] = io'.ev[g]
                        /\ \A j \in Conns : /\ conn'[j].fd # NoFd
                                            /\ io'.ker[conn'[j].fd] # io'.ev[conn'[j].fd]
                                            => conn'[j].wbuf = <<>>
      BY <1>2 DEF Fresh, Known
    <2>1. ASSUME NEW g \in Fds, g \in todo \/ g = cur'
          PROVE  chan'[g] # NoConn /\ io'.ker[g] = io'.ev[g]
      <3>1. g \in todo /\ g # cur
        BY <1>2, <1>3, <1>4, <2>1, NullAssumption DEF Busy
      <3>2. chan[g] # NoConn /\ io.ker[g] = io.ev[g]
        BY <1>3, <3>1 DEF Fresh, Known
      <3> QED BY <1>1, <1>6, <3>1, <3>2
    <2>2. ASSUME NEW j \in Conns, conn'[j].fd # NoFd, io'.ker[conn'[j].fd] # io'.ev[conn'[j].fd]
          PROVE  conn'[j].wbuf = <<>>
      <3>1. j # k
        BY <1>8, <2>2 DEF Unmade
      <3>2. conn'[j] = conn[j]
        BY <1>8, <3>1
      <3> QED BY <1>1, <1>3, <1>10, <2>2, <3>1, <3>2 DEF Fresh, Known
    <2> QED BY <2>1, <2>2
  <1>17. Armed'
    <2>1. ASSUME NEW j \in Conns
          PROVE  ArmedAt(j)'
      <3>1. CASE j = k
        <4>1. conn'[j].fd = NoFd
          BY <1>8, <3>1 DEF Unmade
        <4> QED BY <4>1 DEF ArmedAt
      <3>2. CASE j # k
        <4>1. ArmedAt(j) /\ conn'[j] = conn[j]
          BY <1>3, <1>8, <3>2 DEF Armed
        <4>2. CASE conn[j].fd = NoFd
          BY <4>1, <4>2 DEF ArmedAt
        <4>3. CASE conn[j].fd # NoFd
          <5>1. /\ sock'[conn[j].fd] = sock[conn[j].fd]
                /\ peer'[sock[conn[j].fd]] = peer[sock[conn[j].fd]]
                /\ io'.ker[conn[j].fd] = io.ker[conn[j].fd] /\ io'.ev[conn[j].fd] = io.ev[conn[j].fd]
            BY <1>1, <1>7, <1>10, <3>2, <4>3
          <5> QED BY <4>1, <4>3, <5>1 DEF ArmedAt, Known, Aborted
        <4> QED BY <4>2, <4>3
      <3> QED BY <3>1, <3>2
    <2> QED BY <2>1 DEF Armed
  <1>18. Ordered'
    <2>1. ASSUME NEW j \in Conns
          PROVE  OrderedAt(j)'
      <3>1. CASE j = k
        <4>1. conn'[j].fd = NoFd
          BY <1>8, <3>1 DEF Unmade
        <4> QED BY <4>1 DEF OrderedAt
      <3>2. CASE j # k
        <4>1. OrderedAt(j) /\ conn'[j] = conn[j]
          BY <1>3, <1>8, <3>2 DEF Ordered
        <4>2. CASE conn[j].fd = NoFd
          BY <4>1, <4>2 DEF OrderedAt
        <4>3. CASE conn[j].fd # NoFd
          <5> DEFINE d == sock[conn[j].fd]
          <5>1. sock'[conn'[j].fd] = d /\ inflight'[d] = inflight[d]
            BY <1>7, <1>10, <3>2, <4>1, <4>3
          <5>2. /\ \A i \in DOMAIN conn[j].rbuf : conn[j].rbuf[i][1] = d
                /\ got[d] \o conn[j].wbuf = FirstReplies(d, answered[d])
                /\ answered[d] + Len(inflight[d]) + Len(conn[j].rbuf) \leq sent[d]
            BY <4>1, <4>3 DEF OrderedAt
          <5>3. UNCHANGED <<got, answered, sent>> /\ conn'[j] = conn[j]
            BY <1>2, <4>1
          <5>4. FirstReplies(d, answered[d]) = [i \in 1 .. answered[d] |-> <<d, i>>]
            BY DEF FirstReplies
          <5> HIDE DEF d
          <5> QED BY ONLY <5>1, <5>2, <5>3, <5>4 DEF OrderedAt, FirstReplies
        <4> QED BY <4>2, <4>3
      <3> QED BY <3>1, <3>2
    <2>2. ASSUME NEW d \in Clients
          PROVE  /\ \A i \in DOMAIN inflight'[d] : inflight'[d][i][1] = d
                 /\ answered[d] + Len(inflight'[d]) \leq sent[d]
                 /\ Serving(d)' = {} => got[d] = FirstReplies(d, answered[d])
      <3>1. /\ \A i \in DOMAIN inflight[d] : inflight[d][i][1] = d
            /\ answered[d] + Len(inflight[d]) \leq sent[d]
            /\ Serving(d) = {} => got[d] = FirstReplies(d, answered[d])
            /\ answered[d] \in Nat /\ sent[d] \in Nat /\ Len(inflight[d]) \in Nat
        BY <1>3, LenProperties DEF Ordered, TypeOK
      <3>2. CASE d = c
        <4>1. got[c] \o <<>> = FirstReplies(c, answered[c]) /\ got[c] \in Seq(Replies)
          BY <1>1, <1>3, <1>4, ServedOrder DEF TypeOK
        <4>2. got[c] = FirstReplies(c, answered[c])
          BY <4>1, ConcatEmptySeq
        <4>3. inflight'[d] = <<>> /\ Len(<<>>) = 0 /\ DOMAIN <<>> = {}
          BY <1>7, <3>2
        <4>4. answered[d] + 0 \leq sent[d]
          BY <3>1
        <4> QED BY <3>2, <4>2, <4>3, <4>4
      <3>3. CASE d # c
        <4>1. Serving(d) \subseteq Serving(d)'
          <5> SUFFICES ASSUME NEW j \in Conns, conn[j].fd # NoFd, sock[conn[j].fd] = d
                       PROVE  conn'[j].fd # NoFd /\ sock'[conn'[j].fd] = d
            BY DEF Serving
          <5>1. j # k
            BY <1>4, <3>3
          <5> QED BY <1>10, <5>1
        <4> QED BY <1>7, <3>1, <3>3, <4>1
      <3> QED BY <3>2, <3>3
    <2>3. \A d \in Clients : FirstReplies(d, answered[d])' = FirstReplies(d, answered[d])
      BY <1>2 DEF FirstReplies
    <2> QED BY <1>2, <2>1, <2>2, <2>3 DEF Ordered
  <1> QED BY <1>11, <1>12, <1>13, <1>14, <1>15, <1>16, <1>17, <1>18 DEF Structure, Kernel

-----------------------------------------------------------------------------
(* The invariant holds, and what follows from it.                          *)

\* Nothing is open and all objects are new at the start.
LEMMA InitIInv == Init => IInv
  <1> SUFFICES ASSUME Init
               PROVE  IInv
    OBVIOUS
  <1> USE DEF Init
  <1>1. \A k \in Conns : conn[k] = Unmade /\ conn[k].fd = NoFd /\ conn[k].status = "CLOSED"
    BY DEF Unmade
  <1>2. \A fd \in Fds : /\ io.ker[fd] = {} /\ io.ev[fd] = {}
                        /\ chan[fd] = NoConn /\ sock[fd] = NoClient
    OBVIOUS
  <1>3. /\ \A x : ~Contains(pool, x) /\ ~Contains(queue, x)
        /\ Distinct(pool) /\ Distinct(queue)
    BY DEF Contains, Distinct
  <1>4. TypeOK
    <2>1. conn \in [Conns -> [fd : Fds \cup {NoFd}, status : {"CONNECTED", "CLOSING", "CLOSED"},
                              rbuf : Seq(Pieces), wbuf : Seq(Replies)]]
      BY DEF Unmade
    <2>2. /\ inflight \in [Clients -> Seq(Pieces)] /\ got \in [Clients -> Seq(Replies)]
          /\ queue \in Seq(Fds) /\ pool \in Seq(Conns)
      OBVIOUS
    <2>3. io \in [ev : [Fds -> SUBSET RDWR], ker : [Fds -> SUBSET RDWR]]
      OBVIOUS
    <2>4. sent \in [Clients -> 0 .. MaxSend] /\ answered \in [Clients -> 0 .. MaxSend]
          /\ errors \in 0 .. MaxErrors
      BY BoundsAssumption
    <2>5. result \in [Fds \cup {Wake} -> SUBSET RDWR] /\ todo \subseteq Fds \cup {Wake}
      OBVIOUS
    <2>6. /\ peer \in [Clients -> {"none", "up", "half", "reset", "gone", "closed"}]
          /\ sock \in [Fds -> Clients \cup {NoClient}]
          /\ chan \in [Fds -> Conns \cup {NoConn}] /\ rdcb \in [Fds -> BOOLEAN]
          /\ pc \in {"listen", "dispatch", "drain", "parse", "write", "crashed"}
          /\ cur \in Fds \cup {NoFd}
      OBVIOUS
    <2> QED BY <2>1, <2>2, <2>3, <2>4, <2>5, <2>6 DEF TypeOK
  <1>5. Linked /\ Sockets
    BY <1>1, <1>2, <1>3 DEF Linked, Sockets
  <1>6. Busy
    BY DEF Busy
  <1>7. Registers /\ Armed
    BY <1>1, <1>2 DEF Registers, Armed, ArmedAt, Known
  <1>8. Fresh
    <2>1. \A fd \in Fds : fd \notin todo /\ fd # cur
      BY NullAssumption
    <2> QED BY <1>1, <2>1 DEF Fresh
  <1>9. Ordered
    <2>1. \A k \in Conns : OrderedAt(k)
      BY <1>1 DEF OrderedAt
    <2>2. ASSUME NEW c \in Clients
          PROVE  /\ \A i \in DOMAIN inflight[c] : inflight[c][i][1] = c
                 /\ answered[c] + Len(inflight[c]) \leq sent[c]
                 /\ got[c] = FirstReplies(c, answered[c])
      <3>1. inflight[c] = <<>> /\ answered[c] = 0 /\ sent[c] = 0 /\ got[c] = <<>>
        OBVIOUS
      <3>2. FirstReplies(c, 0) = <<>>
        BY DEF FirstReplies
      <3> QED BY <3>1, <3>2
    <2> QED BY <2>1, <2>2 DEF Ordered
  <1> QED BY <1>4, <1>5, <1>6, <1>7, <1>8, <1>9 DEF IInv, Structure, Kernel

\* Every step preserves the invariant.
LEMMA NextIInv == IInv /\ [Next]_vars => IInv'
  <1> SUFFICES ASSUME IInv, [Next]_vars
               PROVE  TypeOK' /\ Structure' /\ Kernel' /\ Ordered'
    BY DEF IInv
  <1>1. CASE \E c \in Clients, fd \in Fds : Connect(c, fd)
    BY <1>1, ConnectSteps
  <1>2. CASE \E c \in Clients, kind \in Kinds : Send(c, kind)
    BY <1>2, SendSteps
  <1>3. CASE \E c \in Clients, how \in {"half", "reset"} : Hangup(c, how)
    BY <1>3, HangupSteps
  <1>4. CASE \E k \in Conns : Adopt(k)
    BY <1>4, AdoptSteps
  <1>5. CASE Close
    BY <1>5, CloseSteps
  <1>6. CASE Control
    BY <1>6, ControlSteps
  <1>7. CASE Callbacks
    BY <1>7, CallbackSteps
  <1>8. CASE Loop
    BY <1>4, <1>5, <1>6, <1>7, <1>8
       DEF Loop, Read, Parse, Write, WriteProgress, Control, Callbacks
  <1> QED BY <1>1, <1>2, <1>3, <1>6, <1>8 DEF Next, Control

\* Objects, sockets, registrations and buffers agree in every reachable state.
THEOREM Invariance == Spec => []IInv
  BY InitIInv, NextIInv, PTL DEF Spec

\* epoll::add and remove keep the map events in step with the kernel, whatever
\* is closed and however often epoll_ctl is refused.
THEOREM EventsAlwaysCover == Spec => []EventsCoverKernel
  <1>1. IInv => EventsCoverKernel
    BY DEF IInv, Kernel, Registers, Known, EventsCoverKernel
  <1> QED BY <1>1, Invariance, PTL

\* reactor::loop finds for each descriptor a channel whose callbacks belong to
\* the object that serves it, although objects and numbers are used again.
THEOREM DispatchIsSafe == Spec => []DispatchSafe
  <1>1. IInv => DispatchSafe
    <2> SUFFICES ASSUME IInv
                 PROVE  DispatchSafe
      OBVIOUS
    <2>1. TypeOK /\ Linked /\ Registers /\ Fresh
      BY DEF IInv, Structure, Kernel
    <2> QED BY <2>1 DEF DispatchSafe, Linked, Registers, Fresh
  <1> QED BY <1>1, Invariance, PTL

\* A client is served by one object.
LEMMA OneServing ==
    ASSUME IInv, NEW c \in Clients
    PROVE  \A j, k \in Serving(c) : j = k
  <1> SUFFICES ASSUME NEW j \in Serving(c), NEW k \in Serving(c)
               PROVE  j = k
    OBVIOUS
  <1>1. /\ j \in Conns /\ conn[j].fd # NoFd /\ sock[conn[j].fd] = c
        /\ k \in Conns /\ conn[k].fd # NoFd /\ sock[conn[k].fd] = c
    BY DEF Serving
  <1>2. conn[j].fd \in Fds /\ conn[k].fd \in Fds /\ chan[conn[j].fd] = j /\ chan[conn[k].fd] = k
    BY <1>1, ObjectOpen
  <1>3. conn[j].fd = conn[k].fd
    BY <1>1, <1>2, NullAssumption DEF IInv, Structure, Sockets
  <1> QED BY <1>2, <1>3

\* What is unsent is what its object has buffered.
LEMMA UnsentIsBuffered ==
    ASSUME IInv, NEW c \in Clients, NEW k \in Serving(c)
    PROVE  Unsent(c) = conn[k].wbuf
  <1>1. (CHOOSE j \in Serving(c) : TRUE) \in Serving(c)
    OBVIOUS
  <1>2. (CHOOSE j \in Serving(c) : TRUE) = k
    BY <1>1, OneServing
  <1> QED BY <1>2 DEF Unsent

\* A reply that is buffered is watched for in the kernel, so that http_connection
\* gets to write it; the only exception needs a failed epoll_wait.
THEOREM UnsentAlwaysArmed == Spec => []UnsentIsArmed
  <1>1. ASSUME IInv, NEW c \in Clients, peer[c] \in {"up", "half"}, Unsent(c) # <<>>,
               NEW k \in Serving(c)
        PROVE  \/ "wr" \in io.ker[conn[k].fd]
               \/ errors > 0 /\ Stale(conn[k].fd)
    <2>1. k \in Conns /\ conn[k].fd # NoFd /\ sock[conn[k].fd] = c
      BY DEF Serving
    <2>2. conn[k].fd \in Fds
      BY <1>1, <2>1, ObjectOpen
    <2>3. conn[k].wbuf # <<>>
      BY <1>1, UnsentIsBuffered
    <2>4. ~Known(conn[k].fd) \/ "wr" \in io.ker[conn[k].fd]
      BY <1>1, <2>1, <2>3 DEF IInv, Kernel, Armed, ArmedAt
    <2>5. ASSUME ~Known(conn[k].fd)
          PROVE  errors > 0 /\ Stale(conn[k].fd)
      <3>1. errors # 0
        BY <1>1, <2>1, <2>3, <2>5 DEF IInv, Kernel, Fresh
      <3>2. errors \in Nat
        BY <1>1, BoundsAssumption DEF IInv, TypeOK
      <3>3. io.ker[conn[k].fd] = {} /\ io.ev[conn[k].fd] = {"rd"}
        BY <1>1, <2>2, <2>5 DEF IInv, Kernel, Registers
      <3>4. errors > 0
        BY <3>1, <3>2
      <3>5. Stale(conn[k].fd)
        BY <3>3 DEF Stale
      <3> QED BY <3>4, <3>5
    <2>6. CASE ~Known(conn[k].fd)
      BY <2>5, <2>6
    <2>7. CASE "wr" \in io.ker[conn[k].fd]
      BY <2>7
    <2> QED BY <2>4, <2>6, <2>7
  <1>2. IInv => UnsentIsArmed
    BY <1>1 DEF UnsentIsArmed
  <1> QED BY <1>2, Invariance, PTL

\* A connection that is open and not watched for reading has a number whose
\* registration the kernel dropped while the map events kept it.
THEOREM UnwatchedAlwaysStale == Spec => []UnwatchedIsStale
  <1>1. ASSUME IInv, NEW k \in Conns, conn[k].status = "CONNECTED",
               ~Aborted(sock[conn[k].fd])
        PROVE  "rd" \in io.ker[conn[k].fd] \/ Stale(conn[k].fd)
    <2>1. conn[k].fd # NoFd
      <3>1. conn[k].fd = NoFd => conn[k].status = "CLOSED"
        BY <1>1 DEF IInv, Structure, Linked, Unmade
      <3> QED BY <1>1, <3>1
    <2>2. conn[k].fd \in Fds
      BY <1>1, <2>1, ObjectOpen
    <2>3. "rd" \in io.ker[conn[k].fd] \/ ~Known(conn[k].fd)
      BY <1>1, <2>1 DEF IInv, Kernel, Armed, ArmedAt
    <2>4. ~Known(conn[k].fd) => Stale(conn[k].fd)
      BY <1>1, <2>2 DEF IInv, Kernel, Registers, Stale
    <2> QED BY <2>3, <2>4
  <1>2. IInv => UnwatchedIsStale
    BY <1>1 DEF UnwatchedIsStale
  <1> QED BY <1>2, Invariance, PTL

\* Replies reach the client that asked, once, in order, and none is dropped when
\* a connection is closed, for every sequence of connections that share objects,
\* buffers and descriptor numbers.
THEOREM RepliesStayInOrder == Spec => []RepliesInOrder
  <1>1. ASSUME IInv, NEW c \in Clients
        PROVE  /\ Cardinality(Serving(c)) \leq 1
               /\ got[c] \o Unsent(c) = FirstReplies(c, answered[c])
    <2>1. Cardinality(Serving(c)) = IF Serving(c) = {} THEN 0 ELSE 1
      BY <1>1, OneServing, AtMostOne
    <2>2. CASE Serving(c) = {}
      <3>1. got[c] = FirstReplies(c, answered[c]) /\ got[c] \in Seq(Replies)
        BY <1>1, <2>2 DEF IInv, Ordered, TypeOK
      <3>2. Unsent(c) = <<>>
        BY <2>2 DEF Unsent
      <3>3. got[c] \o <<>> = got[c]
        BY <3>1, ConcatEmptySeq
      <3> QED BY <2>1, <2>2, <3>1, <3>2, <3>3
    <2>3. CASE Serving(c) # {}
      <3>1. PICK k : k \in Serving(c)
        BY <2>3
      <3>2. k \in Conns /\ conn[k].fd # NoFd /\ sock[conn[k].fd] = c
        BY <3>1 DEF Serving
      <3>3. got[c] \o conn[k].wbuf = FirstReplies(c, answered[c])
        BY <1>1, <3>2 DEF IInv, Ordered, OrderedAt
      <3>4. Unsent(c) = conn[k].wbuf
        BY <1>1, <3>1, UnsentIsBuffered
      <3>5. Cardinality(Serving(c)) \leq 1
        BY <2>1
      <3>6. got[c] \o Unsent(c) = FirstReplies(c, answered[c])
        BY <3>3, <3>4
      <3> QED BY <3>5, <3>6
    <2> QED BY <2>2, <2>3
  <1>2. IInv => RepliesInOrder
    BY <1>1 DEF RepliesInOrder, FirstReplies
  <1> QED BY <1>2, Invariance, PTL
=============================================================================
