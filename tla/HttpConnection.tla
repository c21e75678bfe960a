--------------------------- MODULE HttpConnection ---------------------------
(***************************************************************************)
(* One http_thread: its reactor<epoll> loop, its http_connection objects   *)
(* (pooled and reused), and the clients at the other end of the sockets.   *)
(*                                                                         *)
(* The loop is sequential; clients, the kernel and the main thread act     *)
(* between its steps.  A step of the loop is one system call with the      *)
(* assignments that follow it, or one turn of the loop in parse_request.   *)
(*                                                                         *)
(* Data.  A client's bytes are a sequence of pieces: a whole request that  *)
(* keeps the connection ("keep") or asks to close it ("close"), a request  *)
(* that does not parse ("bad"), the first part of a request line ("part",  *)
(* completed by the piece after it), a blank line ("blank").  A reply is   *)
(* the pair of the client whose piece is answered and an ordinal.  Request *)
(* handlers reply before they return.  SIGPIPE is ignored.                 *)
(***************************************************************************)
EXTENDS Naturals, Sequences, FiniteSets, SequencesExt, Epoll

CONSTANTS Fds, NoFd, Clients, NoClient,
          Conns, NoConn,   \* http_connection objects
          Wake,            \* the thread's wakeupfd
          Kinds,           \* pieces clients send
          MaxSend,         \* pieces a client sends
          MaxErrors        \* failures of epoll_wait

ASSUME KindsAssumption == Kinds \subseteq {"keep", "close", "bad", "part", "blank"}
ASSUME BoundsAssumption == MaxSend \in Nat /\ MaxErrors \in Nat
ASSUME NullAssumption == NoFd \notin Fds \cup {Wake} /\ NoClient \notin Clients
                            /\ NoConn \notin Conns /\ Wake \notin Fds

VARIABLES
    peer,      \* client: "none", "up", "half" (sent FIN), "reset" (sent RST),
               \* "gone" (the error was reported), "closed" (by the server)
    sent,      \* client: pieces sent so far
    inflight,  \* client: pieces sent and not yet read
    got,       \* client: replies written to its socket
    answered,  \* client: replies the server has produced for it
    sock,      \* descriptor: the client at the other end, or NoClient
    queue,     \* clientQueue
    conn,      \* object: fd, status, rbuf (read buffer), wbuf (write buffer)
    pool,      \* emptyConnections
    chan,      \* descriptor: the object its channel's callbacks belong to
    rdcb,      \* descriptor: whether its channel has a read callback
    io,        \* the epoll object and the kernel's epoll instance
    result,    \* epoll::result, and with it activeFd
    todo,      \* active descriptors the loop has not dispatched
    pc,        \* "listen", "dispatch", "drain", "parse", "write", "crashed"
    cur,       \* the descriptor being dispatched
    errors     \* failures of epoll_wait so far

clientVars == <<peer, sent, inflight, got, answered>>
objectVars == <<conn, pool, chan, rdcb, io>>
loopVars == <<result, todo, pc, cur, errors>>
vars == <<clientVars, sock, queue, objectVars, loopVars>>

Unmade == [fd |-> NoFd, status |-> "CLOSED", rbuf |-> <<>>, wbuf |-> <<>>]

Init ==
    /\ peer = [c \in Clients |-> "none"]
    /\ sent = [c \in Clients |-> 0]
    /\ inflight = [c \in Clients |-> <<>>]
    /\ got = [c \in Clients |-> <<>>]
    /\ answered = [c \in Clients |-> 0]
    /\ sock = [fd \in Fds |-> NoClient]
    /\ queue = <<>>
    /\ conn = [k \in Conns |-> Unmade]
    /\ pool = <<>>
    /\ chan = [fd \in Fds |-> NoConn]
    /\ rdcb = [fd \in Fds |-> FALSE]
    /\ io = [ev |-> [fd \in Fds |-> {}], ker |-> [fd \in Fds |-> {}]]
    /\ result = [fd \in Fds \cup {Wake} |-> {}]
    /\ todo = {}
    /\ pc = "listen"
    /\ cur = NoFd
    /\ errors = 0

-----------------------------------------------------------------------------
(* Clients, and the main thread that queues their connections.             *)

Connect(c, fd) ==
    /\ peer[c] = "none" /\ sock[fd] = NoClient
    /\ peer' = [peer EXCEPT ![c] = "up"]
    /\ sock' = [sock EXCEPT ![fd] = c]
    /\ queue' = Append(queue, fd)
    /\ UNCHANGED <<sent, inflight, got, answered, objectVars, loopVars>>

Send(c, kind) ==
    /\ peer[c] = "up" /\ sent[c] < MaxSend
    /\ sent' = [sent EXCEPT ![c] = @ + 1]
    /\ inflight' = [inflight EXCEPT ![c] = Append(@, <<c, kind>>)]
    /\ UNCHANGED <<peer, got, answered, sock, queue, objectVars, loopVars>>

\* A client ends its half of the connection, or aborts it.
Hangup(c, how) ==
    /\ \/ how = "half"  /\ peer[c] = "up"
       \/ how = "reset" /\ peer[c] \in {"up", "half"}
    /\ peer' = [peer EXCEPT ![c] = how]
    /\ UNCHANGED <<sent, inflight, got, answered, sock, queue, objectVars, loopVars>>

-----------------------------------------------------------------------------
(* reactor::loop and epoll::listen.                                        *)

\* EPOLLIN and EPOLLOUT as the kernel reports them; an error or a hang-up is
\* reported whatever was asked for and counts as both.
Reported(fd) ==
    LET c == sock[fd]
        readable == inflight[c] # <<>> \/ peer[c] = "half" \/ ~rdcb[fd]
    IN  CASE io.ker[fd] = {}              -> {}
          [] io.ker[fd] # {} /\ peer[c] \in {"reset", "gone"} -> RDWR
          [] OTHER -> io.ker[fd] \cap ({"wr"} \cup IF readable THEN {"rd"} ELSE {})

Active(res) == {fd \in Fds \cup {Wake} : res[fd] # {}}

\* epoll_wait reports every descriptor that is ready, or blocks.
Listen ==
    /\ pc = "listen"
    /\ result' = [fd \in Fds \cup {Wake} |->
                    IF fd # Wake THEN Reported(fd)
                    ELSE IF queue # <<>> THEN {"rd"} ELSE {}]
    /\ todo' = Active(result')
    /\ todo' # {}
    /\ pc' = "dispatch"
    /\ UNCHANGED <<clientVars, sock, queue, objectVars, cur, errors>>

\* epoll_wait fails (EINTR): listen returns before it clears result and
\* activeFd, and the loop dispatches them once more.
ListenError ==
    /\ pc = "listen" /\ errors < MaxErrors
    /\ errors' = errors + 1
    /\ todo' = Active(result)
    /\ pc' = "dispatch"
    /\ UNCHANGED <<clientVars, sock, queue, objectVars, result, cur>>

EndBatch ==
    /\ pc = "dispatch" /\ todo = {}
    /\ pc' = "listen"
    /\ UNCHANGED <<clientVars, sock, queue, objectVars, result, todo, cur, errors>>

\* The loop takes fd up: its callback for reading comes first, then (pc =
\* "write") its callback for writing.
Take(fd) ==
    /\ pc = "dispatch" /\ fd \in todo
    /\ todo' = todo \ {fd}
    /\ UNCHANGED <<result, errors>>

\* channels[fd] has been erased: the null pointer is dereferenced.
NoChannel(fd) ==
    /\ Take(fd)
    /\ chan[fd] = NoConn
    /\ pc' = "crashed"
    /\ UNCHANGED <<clientVars, sock, queue, objectVars, cur>>

-----------------------------------------------------------------------------
(* The callback of wakeupfd, and make_connection.                          *)

WakeupHandler ==
    /\ Take(Wake)
    /\ pc' = "drain"
    /\ UNCHANGED <<clientVars, sock, queue, objectVars, cur>>

\* setup_new_events, which registers and unregisters both events, and then
\* add_read by the callback.
ArmNew(fd) ==
    LET rd == RemoveEvent(AddEvent(io, fd, "rd"), fd, "rd")
        wr == RemoveEvent(AddEvent(rd, fd, "wr"), fd, "wr")
    IN  AddEvent(wr, fd, "rd")

\* Mutant of Bound: a pooled object keeps the handlers of its old descriptor.
BoundOnce(fd, k) == IF pool # <<>> THEN chan[fd] ELSE k

\* The object the callbacks of fd call, after setup_new_events.
Bound(fd, k) == k

\* make_connection: from the pool if it has one, with its buffers as they are,
\* else a new object; then hashConnections[fd] = conn.
Adopt(k) ==
    /\ pc = "drain" /\ queue # <<>>
    /\ IF pool # <<>> THEN k = Head(pool)
                      ELSE k \in {j \in Conns : conn[j].fd = NoFd}
    /\ pool' = IF pool # <<>> THEN Tail(pool) ELSE pool
    /\ LET fd == Head(queue) IN
          /\ conn' = [conn EXCEPT ![k].fd = fd, ![k].status = "CONNECTED"]
          /\ chan' = [chan EXCEPT ![fd] = Bound(fd, k)]
          /\ rdcb' = [rdcb EXCEPT ![fd] = TRUE]
          /\ io' = ArmNew(fd)
    /\ queue' = Tail(queue)
    /\ UNCHANGED <<clientVars, sock, loopVars>>

Drained ==
    /\ pc = "drain" /\ queue = <<>>
    /\ pc' = "dispatch"
    /\ UNCHANGED <<clientVars, sock, queue, objectVars, result, todo, cur, errors>>

-----------------------------------------------------------------------------
(* The callback for reading.                                               *)

\* The descriptor is active, not for reading, or has no such callback.
SkipRead(fd) ==
    /\ Take(fd)
    /\ chan[fd] # NoConn
    /\ "rd" \notin result[fd] \/ ~rdcb[fd]
    /\ pc' = "write" /\ cur' = fd
    /\ UNCHANGED <<clientVars, sock, queue, objectVars>>

ReadCallback(fd) ==
    /\ Take(fd)
    /\ chan[fd] # NoConn
    /\ "rd" \in result[fd] /\ rdcb[fd]
    /\ cur' = fd
    /\ UNCHANGED <<sock, queue>>

\* read() returns the first n pieces.
ReadData(fd, n) ==
    LET c == sock[fd] IN
    /\ ReadCallback(fd)
    /\ n \in 1 .. Len(inflight[c])
    /\ conn' = [conn EXCEPT ![chan[fd]].rbuf = @ \o SubSeq(inflight[c], 1, n)]
    /\ inflight' = [inflight EXCEPT ![c] = SubSeq(@, n + 1, Len(@))]
    /\ pc' = "parse"
    /\ UNCHANGED <<peer, sent, got, answered, pool, chan, rdcb, io>>

\* read() returns 0: the client's end of file, or an error already reported.
ReadEof(fd) ==
    LET c == sock[fd] IN
    /\ ReadCallback(fd)
    /\ inflight[c] = <<>> /\ peer[c] \in {"half", "gone"}
    /\ conn' = [conn EXCEPT ![chan[fd]].status = "CLOSING"]
    /\ io' = RemoveEvent(io, fd, "rd")
    /\ pc' = "write"
    /\ UNCHANGED <<clientVars, pool, chan, rdcb>>

\* read() fails: with ECONNRESET, or with EAGAIN when nothing has arrived.
ReadError(fd) ==
    LET c == sock[fd] IN
    /\ ReadCallback(fd)
    /\ inflight[c] = <<>>
    /\ \/ /\ peer[c] = "reset"
          /\ peer' = [peer EXCEPT ![c] = "gone"]
          /\ io' = RemoveEvent(io, fd, "rd")
       \/ /\ peer[c] = "up"
          /\ UNCHANGED <<peer, io>>
    /\ pc' = "write"
    /\ UNCHANGED <<sent, inflight, got, answered, conn, pool, chan, rdcb>>

-----------------------------------------------------------------------------
(* The loop of parse_request, for the connection k of the descriptor cur.  *)

Current == chan[cur]

Parsing(kind) ==
    /\ pc = "parse"
    /\ conn[Current].rbuf # <<>>
    /\ conn[Current].rbuf[1][2] = kind
    /\ UNCHANGED <<peer, sent, inflight, got, sock, queue, pool, chan, result, todo, cur, errors>>

\* send_reply and add_write, for the piece at the front of the read buffer,
\* which is consumed.
Reply(registered, status) ==
    LET c == conn[Current].rbuf[1][1] IN
    /\ answered' = [answered EXCEPT ![c] = @ + 1]
    /\ conn' = [conn EXCEPT ![Current].rbuf = Tail(@),
                            ![Current].wbuf = Append(@, <<c, answered'[c]>>),
                            ![Current].status = status]
    /\ io' = AddEvent(registered, cur, "wr")

\* ALLREAD: handle_request replies, and the request is popped.
ParseKeep ==
    /\ Parsing("keep")
    /\ Reply(io, conn[Current].status)
    /\ UNCHANGED <<rdcb, pc>>

\* ALLREAD with Connection: close.  The loop goes on with what the client sent
\* after the request.
ParseClose ==
    /\ Parsing("close")
    /\ rdcb' = [rdcb EXCEPT ![cur] = FALSE]
    /\ Reply(RemoveEvent(io, cur, "rd"), "CLOSING")
    /\ UNCHANGED pc

\* CORRUPTED: 400 Bad Request.
ParseBad ==
    /\ Parsing("bad")
    /\ rdcb' = [rdcb EXCEPT ![cur] = FALSE]
    /\ Reply(RemoveEvent(io, cur, "rd"), "CLOSING")
    /\ pc' = "write"

\* NEEDMORE: add_read, and add_write if there is something to write.
Rearmed ==
    LET rd == AddEvent(io, cur, "rd")
    IN  IF conn[Current].wbuf # <<>> THEN AddEvent(rd, cur, "wr") ELSE rd

\* NEEDMORE after a blank line, which is consumed; what follows is not parsed.
ParseBlank ==
    /\ Parsing("blank")
    /\ conn' = [conn EXCEPT ![Current].rbuf = Tail(@)]
    /\ io' = Rearmed
    /\ pc' = "write"
    /\ UNCHANGED <<answered, rdcb>>

\* The first part of a request line is completed by the next piece, or is
\* NEEDMORE while nothing follows it.
ParsePart ==
    /\ Parsing("part")
    /\ IF Len(conn[Current].rbuf) > 1
       THEN /\ conn' = [conn EXCEPT ![Current].rbuf = Tail(@)]
            /\ UNCHANGED <<io, pc>>
       ELSE /\ io' = Rearmed
            /\ pc' = "write"
            /\ UNCHANGED conn
    /\ UNCHANGED <<answered, rdcb>>

ParseDone ==
    /\ pc = "parse" /\ conn[Current].rbuf = <<>>
    /\ pc' = "write"
    /\ UNCHANGED <<clientVars, sock, queue, objectVars, result, todo, cur, errors>>

-----------------------------------------------------------------------------
(* The callback for writing.                                               *)

SkipWrite ==
    /\ pc = "write" /\ "wr" \notin result[cur]
    /\ pc' = "dispatch" /\ cur' = NoFd
    /\ UNCHANGED <<clientVars, sock, queue, objectVars, result, todo, errors>>

WriteCallback ==
    /\ pc = "write" /\ "wr" \in result[cur]
    /\ pc' = "dispatch" /\ cur' = NoFd
    /\ UNCHANGED <<sent, queue, result, todo, errors>>

WriteIdle ==
    /\ WriteCallback
    /\ conn[Current].wbuf = <<>> /\ conn[Current].status # "CLOSING"
    /\ io' = RemoveEvent(io, cur, "wr")
    /\ UNCHANGED <<peer, inflight, got, answered, sock, conn, pool, chan, rdcb>>

\* Mutant of MayClose: without waiting until everything is written.
MayCloseUnsent(k) == conn[k].status = "CLOSING"

MayClose(k) == conn[k].status = "CLOSING" /\ conn[k].wbuf = <<>>

\* Everything is written and the connection is to be closed: http_connection::
\* close and release_connection.
Close ==
    /\ WriteCallback
    /\ MayClose(Current)
    /\ io' = CloseEvents(RemoveEvent(io, cur, "wr"), cur)
    /\ chan' = [chan EXCEPT ![cur] = NoConn]
    /\ rdcb' = [rdcb EXCEPT ![cur] = FALSE]
    /\ peer' = [peer EXCEPT ![sock[cur]] = "closed"]
    /\ inflight' = [inflight EXCEPT ![sock[cur]] = <<>>]
    /\ sock' = [sock EXCEPT ![cur] = NoClient]
    /\ conn' = [conn EXCEPT ![Current] = Unmade]
    /\ pool' = Append(pool, Current)
    /\ UNCHANGED <<got, answered>>

\* write() takes the first n replies of the buffer.
WriteSome(n) ==
    LET c == sock[cur] w == conn[Current].wbuf IN
    /\ WriteCallback
    /\ peer[c] \in {"up", "half"}
    /\ n \in 1 .. Len(w)
    /\ got' = [got EXCEPT ![c] = @ \o SubSeq(w, 1, n)]
    /\ conn' = [conn EXCEPT ![Current].wbuf = SubSeq(@, n + 1, Len(@))]
    /\ UNCHANGED <<peer, inflight, answered, sock, pool, chan, rdcb, io>>

\* write() fails: EAGAIN is ignored, an error ends writing.
WriteBlocked ==
    /\ WriteCallback
    /\ conn[Current].wbuf # <<>> /\ peer[sock[cur]] \in {"up", "half"}
    /\ UNCHANGED <<peer, inflight, got, answered, sock, objectVars>>

WriteError ==
    /\ WriteCallback
    /\ conn[Current].wbuf # <<>> /\ peer[sock[cur]] \in {"reset", "gone"}
    /\ peer' = [peer EXCEPT ![sock[cur]] = "gone"]
    /\ io' = RemoveEvent(io, cur, "wr")
    /\ conn' = [conn EXCEPT ![Current].status = "CLOSING"]
    /\ UNCHANGED <<inflight, got, answered, sock, pool, chan, rdcb>>

-----------------------------------------------------------------------------
Parse == ParseKeep \/ ParseClose \/ ParseBad \/ ParseBlank \/ ParsePart \/ ParseDone
Read(fd) == ReadEof(fd) \/ ReadError(fd) \/ SkipRead(fd) \/ NoChannel(fd)
Write == SkipWrite \/ WriteIdle \/ Close \/ WriteBlocked \/ WriteError
WriteProgress == \E n \in 1 .. MaxSend : WriteSome(n)

Loop ==
    \/ Listen
    \/ EndBatch
    \/ WakeupHandler
    \/ \E k \in Conns : Adopt(k)
    \/ Drained
    \/ \E fd \in Fds : Read(fd)
    \/ \E fd \in Fds, n \in 1 .. MaxSend : ReadData(fd, n)
    \/ Parse
    \/ Write
    \/ WriteProgress

Next ==
    \/ \E c \in Clients, fd \in Fds : Connect(c, fd)
    \/ \E c \in Clients, kind \in Kinds : Send(c, kind)
    \/ \E c \in Clients, how \in {"half", "reset"} : Hangup(c, how)
    \/ ListenError
    \/ Loop

Spec == Init /\ [][Next]_vars

\* The thread runs as long as it can.  A socket that stays writable takes some
\* bytes in the end: the client goes on reading, and each connection with
\* something to write is retried by the level-triggered loop.
FairSpec ==
    /\ Spec
    /\ WF_vars(Loop)
    /\ \A fd \in Fds : SF_vars(cur = fd /\ WriteProgress)

-----------------------------------------------------------------------------
(* Properties.                                                             *)

Pieces == Clients \X Kinds
Replies == Clients \X (1 .. MaxSend)

\* The values the variables can have.
TypeOK ==
    /\ peer \in [Clients -> {"none", "up", "half", "reset", "gone", "closed"}]
    /\ sent \in [Clients -> 0 .. MaxSend]
    /\ inflight \in [Clients -> Seq(Pieces)]
    /\ got \in [Clients -> Seq(Replies)]
    /\ answered \in [Clients -> 0 .. MaxSend]
    /\ sock \in [Fds -> Clients \cup {NoClient}]
    /\ queue \in Seq(Fds)
    /\ conn \in [Conns -> [fd : Fds \cup {NoFd}, status : {"CONNECTED", "CLOSING", "CLOSED"},
                           rbuf : Seq(Pieces), wbuf : Seq(Replies)]]
    /\ pool \in Seq(Conns)
    /\ chan \in [Fds -> Conns \cup {NoConn}]
    /\ rdcb \in [Fds -> BOOLEAN]
    /\ io \in [ev : [Fds -> SUBSET RDWR], ker : [Fds -> SUBSET RDWR]]
    /\ result \in [Fds \cup {Wake} -> SUBSET RDWR]
    /\ todo \subseteq Fds \cup {Wake}
    /\ pc \in {"listen", "dispatch", "drain", "parse", "write", "crashed"}
    /\ cur \in Fds \cup {NoFd}
    /\ errors \in 0 .. MaxErrors

\* The objects that serve client c.
Serving(c) == {k \in Conns : conn[k].fd # NoFd /\ sock[conn[k].fd] = c}

\* What is still to be written to client c.
Unsent(c) == IF Serving(c) = {} THEN <<>> ELSE conn[CHOOSE k \in Serving(c) : TRUE].wbuf

\* Every reply goes to the client that asked, once, in the order of the
\* requests, and none is dropped when the connection is closed: although one
\* object, its buffers and its descriptor serve many clients in turn, what a
\* client has received followed by what is buffered for it is what was answered.
RepliesInOrder ==
    \A c \in Clients :
        /\ Cardinality(Serving(c)) \leq 1
        /\ got[c] \o Unsent(c) = [i \in 1 .. answered[c] |-> <<c, i>>]

\* The loop never calls a callback of an object that serves another descriptor,
\* and every descriptor the kernel can report has its channel; so has every one
\* it has reported and the loop has yet to dispatch, as long as epoll_wait works.  And
\* the variables have their types.
DispatchSafe ==
    /\ TypeOK
    /\ \A fd \in Fds :
          /\ chan[fd] # NoConn => conn[chan[fd]].fd = fd
          /\ io.ker[fd] # {} \/ (fd \in todo /\ errors = 0) => chan[fd] # NoConn

\* The map events is right or knows of a registration the kernel has dropped;
\* it never forgets one the kernel still has, which would make EPOLL_CTL_ADD fail.
EventsCoverKernel == \A fd \in Fds : io.ker[fd] \in {{}, io.ev[fd]}

\* Nothing is registered for the number fd, and nothing can be: an earlier
\* connection with that number was closed while reading was registered.
Stale(fd) == io.ker[fd] = {} /\ "rd" \in io.ev[fd]

\* A buffered reply is always about to be written: outside the callbacks the
\* kernel watches the descriptor for writing, unless writing has failed.  The
\* exception takes a failure of epoll_wait, after which the loop reads from a
\* connection whose number is stale because it dispatches an old result.
UnsentIsArmed ==
    pc \in {"listen", "dispatch", "drain"} =>
        \A c \in Clients : peer[c] \in {"up", "half"} /\ Unsent(c) # <<>> =>
            \A k \in Serving(c) : \/ "wr" \in io.ker[conn[k].fd]
                                  \/ errors > 0 /\ Stale(conn[k].fd)

Aborted(c) == peer[c] \in {"reset", "gone"}

\* A connection that is served and not being closed is watched for reading, with
\* one exception: a descriptor number that is stale.
UnwatchedIsStale ==
    \A k \in Conns : conn[k].status = "CONNECTED" /\ ~Aborted(sock[conn[k].fd]) =>
        "rd" \in io.ker[conn[k].fd] \/ Stale(conn[k].fd)

\* Replies reach a client that stays: what is answered is written in the end.
RepliesDelivered ==
    \A c \in Clients :
        (Len(got[c]) < answered[c]) ~> (Len(got[c]) = answered[c] \/ Aborted(c))

\* A connection that is to be closed and still has replies to write is closed
\* in the end (graceful close).
ClosingFinishes ==
    \A c \in Clients :
        (\E k \in Serving(c) : conn[k].status = "CLOSING" /\ conn[k].wbuf # <<>>)
            ~> (peer[c] = "closed" \/ Aborted(c))

-----------------------------------------------------------------------------
(* What the documentation promises and the code does not keep.             *)

\* "Graceful close", "no resource leaks": the server closes a connection whose
\* client has closed its end.
HalfClosedFinishes ==
    \A c \in Clients : (peer[c] = "half") ~> (peer[c] = "closed" \/ Aborted(c))
=============================================================================
