------------------------------- MODULE Request -------------------------------
(***************************************************************************)
(* wxg::request at both ends of a connection: messages are written with    *)
(* set_request or set_response, send_to and the send_chunk functions, and  *)
(* read back by the state machine of request::parse, which is called for   *)
(* whatever has arrived and continues where it stopped.                    *)
(*                                                                         *)
(* Data.  The bytes of a message are a sequence of tokens: a start line, a *)
(* header or a chunk size without its line end is one token, CR, LF and a  *)
(* byte of the body are one each.  A token is a record of its sort and a   *)
(* number: the value of a header or of a size, the index of a body byte.   *)
(* A step of the parser handles one line, or one run of body bytes.        *)
(***************************************************************************)
EXTENDS Integers, Sequences, SequencesExt

CONSTANTS Messages,     \* what may be sent
          MaxMessages,  \* messages on the connection
          Split         \* whether the network may cut inside a line or a chunk

ASSUME SplitAssumption == Split \in BOOLEAN
ASSUME MaxMessagesAssumption == MaxMessages \in Nat

VARIABLES msgs,     \* the messages sent on the connection
          wire,     \* what has not arrived, in the parts that arrive at once
          buf,      \* the read buffer
          req,      \* the request being read: status, start, headers, ntoread, body
          field,    \* the locals k and v of parse_headers
          pc,       \* "idle", "arrived" (new data), or the function that is running
          handled,  \* the requests that were ALLREAD
          failed    \* "no", "CORRUPTED", "thrown" (an exception nobody catches)

vars == <<msgs, wire, buf, req, field, pc, handled, failed>>

Tok(sort, n) == [sort |-> sort, n |-> n]
Eol == <<Tok("cr", 0), Tok("lf", 0)>>

\* A length or size that is not a number (stol throws), and one that is not sent.
NaN == -100
Absent == -200

Keys == {"Connection", "Content-Length", "Transfer-Encoding", "Other", "Extra"}
Requests == {"GET", "POST", "HEAD"}
Responses == {"100", "200", "204", "304", "404"}

\* Messages that end with their headers.
Bodiless == {"GET", "HEAD", "100", "204", "304"}

-----------------------------------------------------------------------------
(* The sender.  A message has a start line, the size of its body, or the   *)
(* sizes of its chunks, the value of Content-Length, whether it asks to    *)
(* close the connection, and header lines the user has added.              *)

Flat(parts) == FoldLeft(LAMBDA a, b : a \o b, <<>>, parts)

Lines(tokens) == [i \in DOMAIN tokens |-> <<tokens[i]>> \o Eol]

If(cond, seq) == IF cond THEN seq ELSE <<>>

Bytes(from, n) == If(n > 0, [i \in 1 .. n |-> Tok("byte", from + i)])

\* An HTTP/1.0 reply without content has no Content-Length, and other peers may
\* leave it out.
Length(m) == If(m.length # Absent, <<Tok("Content-Length", m.length)>>)

\* set_request; std::map writes the headers in the order of their names.
RequestHeaders(m) ==
    If(m.close, <<Tok("Connection", 1)>>)
      \o If(m.start = "POST", Length(m))
      \o <<Tok("Other", 0)>>

\* set_response, and send_chunk_start for a reply in chunks.
ResponseHeaders(m) ==
    <<Tok("Connection", 0)>> \o Length(m) \o <<Tok("Other", 0)>>
      \o If(m.chunks # <<>>, <<Tok("Transfer-Encoding", 1)>>)

Headers(m) == IF m.start \in Responses THEN ResponseHeaders(m) ELSE RequestHeaders(m)

\* The number of bytes in the chunks before the i-th.
Before(sizes, i) == Len(Flat([j \in 1 .. i - 1 |-> Bytes(0, sizes[j])]))

\* send_chunk and send_chunk_end.
Chunks(sizes) ==
    [i \in DOMAIN sizes |->
        <<Tok("size", sizes[i])>> \o Eol \o Bytes(Before(sizes, i), sizes[i]) \o Eol]
      \o Lines(<<Tok("size", 0)>>) \o <<Eol>>

\* send_to: the parts of a message that arrive at once when the network cuts
\* only between lines (a folded line stays with its header), between chunks
\* and anywhere in a body that is not chunked.
Parts(m) ==
    Lines(<<Tok(m.start, 0)>>)
      \o If(m.more # <<>>, <<Flat(Lines(m.more))>>)
      \o Lines(Headers(m)) \o <<Eol>>
      \o (IF m.chunks # <<>> THEN Chunks(m.chunks)
          ELSE [i \in 1 .. m.body |-> Bytes(i - 1, 1)])

Stream(ms) == Flat([i \in DOMAIN ms |-> Parts(ms[i])])

Wire(ms) == IF Split THEN [i \in DOMAIN Flat(Stream(ms)) |-> <<Flat(Stream(ms))[i]>>]
                     ELSE Stream(ms)

\* "BREW" stands for any other start line, "colonless" for a line that is no
\* header.
Starts == Requests \cup Responses \cup {"BREW"}
Sorts == Keys \cup Starts \cup {"folded", "colonless", "size", "byte", "cr", "lf", "none"}
Token == [sort : Sorts, n : Int]

Message == [start : Starts, body : Nat, length : Int, chunks : Seq(Int),
            close : BOOLEAN, more : Seq(Token)]

\* What is sent: a body as long as Content-Length says, chunks, or neither; one
\* header that the library does not set, folded over any number of lines, or a
\* line that is no header, or none of these.  Left out: content behind a start
\* line that has no body for parse (GET, HEAD, 1xx, 204, 304; set_request and
\* set_response let the caller pass it), an empty chunk (it is the end of all
\* chunks), requests in chunks (the library sends none) and a second header of
\* the user's.
Sendable(m) ==
    /\ m \in Message
    /\ m.more # <<>> => m.more[1].sort \in {"Extra", "folded", "colonless"}
    /\ \A i \in DOMAIN m.more : i > 1 => m.more[i].sort = "folded"
    /\ m.start \in Bodiless => m.body = 0 /\ m.chunks = <<>>
    /\ m.chunks = <<>> => m.start \in Bodiless \/ m.length < 0 \/ m.length = m.body
    /\ m.chunks # <<>> => /\ m.start \in Responses
                          /\ m.body = 0 /\ m.length \in Nat \cup {Absent}
    /\ \A i \in DOMAIN m.chunks : m.chunks[i] # 0

ASSUME MessagesAssumption == \A m \in Messages : Sendable(m)

-----------------------------------------------------------------------------
(* The receiver.                                                           *)

NewRequest == [status |-> "FIRSTLINE", start |-> "none", headers |-> <<>>,
               ntoread |-> 0, body |-> <<>>]

NoField == Tok("none", 0)

\* All messages of a connection go the same way.
Init ==
    /\ msgs \in {ms \in BoundedSeq(Messages, MaxMessages) :
                    /\ ms # <<>>
                    /\ \A i \in DOMAIN ms : ms[i].start \in Responses <=> ms[1].start \in Responses}
    /\ wire = Wire(msgs)
    /\ buf = <<>>
    /\ req = NewRequest
    /\ field = NoField
    /\ pc = "idle"
    /\ handled = <<>>
    /\ failed = "no"

KindResponse == msgs[1].start \in Responses

\* handle_request: once a request with "Connection: close" is handled nothing is
\* read any more; what is in the read buffer is still parsed.
Closing ==
    /\ ~KindResponse
    /\ \E i \in DOMAIN handled :
          "Connection" \in DOMAIN handled[i].headers /\ handled[i].headers["Connection"] = 1

\* A part arrives, maybe more than one before the reader looks.
Deliver ==
    /\ pc \in {"idle", "arrived"} /\ failed = "no" /\ ~Closing
    /\ wire # <<>>
    /\ buf' = buf \o Head(wire)
    /\ wire' = Tail(wire)
    /\ pc' = "arrived"
    /\ UNCHANGED <<msgs, req, field, handled, failed>>

\* The reader has read something and calls parse.
Call ==
    /\ pc = "arrived"
    /\ pc' = "parse"
    /\ UNCHANGED <<msgs, wire, buf, req, field, handled, failed>>

\* buffer::pop: the index of the first line end, 0 if there is none.
LineEnd == SelectInSeq(buf, LAMBDA t : t.sort \in {"cr", "lf"})
Line == SubSeq(buf, 1, LineEnd - 1)
EndWidth ==
    IF LineEnd < Len(buf) /\ {buf[LineEnd].sort, buf[LineEnd + 1].sort} = {"cr", "lf"}
    THEN 2 ELSE 1

\* buf->pop() takes a line, or returns "" and takes nothing.
Pop == buf' = IF LineEnd = 0 THEN buf ELSE SubSeq(buf, LineEnd + EndWidth, Len(buf))

\* What parse returns.
NeedMore ==
    /\ pc' = "idle"
    /\ UNCHANGED <<handled, failed>>

Corrupted ==
    /\ pc' = "idle"
    /\ failed' = "CORRUPTED"
    /\ UNCHANGED handled

Throw ==
    /\ pc' = "idle"
    /\ failed' = "thrown"
    /\ UNCHANGED handled

\* Mutant of NextRequest: it starts with the headers of the last.
NextRequestKeepsHeaders == [NewRequest EXCEPT !.headers = req.headers]

\* get_current_request after a request was popped.
NextRequest == NewRequest

AllRead(body) ==
    /\ handled' = Append(handled, [start |-> req.start, headers |-> req.headers, body |-> body])
    /\ req' = NextRequest
    /\ pc' = "more"
    /\ UNCHANGED failed

\* Mutant of AfterRequest: one request for each read.
AfterRequestIdle == "idle"

AfterRequest == IF buf = <<>> THEN "idle" ELSE "parse"

\* while (processing && !get_read_buffer()->empty())
More ==
    /\ pc = "more"
    /\ pc' = AfterRequest
    /\ UNCHANGED <<msgs, wire, buf, req, field, handled, failed>>

\* parse, where it resumes.
Resume ==
    /\ pc = "parse"
    /\ req.status # "FIRSTLINE"
    /\ pc' = IF req.status = "BODY" THEN "body" ELSE "headers"
    /\ field' = NoField
    /\ UNCHANGED <<msgs, wire, buf, req, handled, failed>>

\* parse_request_line, parse_response_line.
StartLines == IF KindResponse THEN Responses ELSE Requests

FirstLine ==
    /\ pc = "parse"
    /\ req.status = "FIRSTLINE"
    /\ Pop
    /\ \/ LineEnd \in {0, 1} /\ NeedMore /\ UNCHANGED <<req, field>>
       \/ /\ LineEnd > 1
          /\ \/ /\ \E s \in StartLines :
                      /\ Line = <<Tok(s, 0)>>
                      /\ req' = [req EXCEPT !.status = "HEADERS", !.start = s]
                /\ pc' = "headers"
                /\ field' = NoField
                /\ UNCHANGED <<handled, failed>>
             \/ /\ \A s \in StartLines : Line # <<Tok(s, 0)>>
                /\ Corrupted
                /\ UNCHANGED <<req, field>>
    /\ UNCHANGED <<msgs, wire>>

\* parse_headers: the while loop has come to the end of the data.
HeadersWait ==
    /\ pc = "headers"
    /\ buf = <<>>
    /\ NeedMore
    /\ UNCHANGED <<msgs, wire, buf, req, field>>

\* The line is empty.
HeadersEnd ==
    /\ pc = "headers"
    /\ buf # <<>>
    /\ LineEnd \in {0, 1}
    /\ Pop
    /\ \/ /\ req.start \in Bodiless \/ req.status = "TRAILER"
          /\ AllRead(req.body)
       \/ /\ req.start \notin Bodiless /\ req.status = "HEADERS"
          /\ req' = [req EXCEPT !.status = "BODY"]
          /\ pc' = "body"
          /\ UNCHANGED <<handled, failed>>
    /\ UNCHANGED <<msgs, wire, field>>

IsHeader == Len(Line) = 1 /\ Line[1].sort \in Keys
IsFolded == Line[1].sort = "folded"

Put(key, value) ==
    [req EXCEPT !.headers = [k \in {key} \cup DOMAIN @ |-> IF k = key THEN value ELSE @[k]]]

Header ==
    /\ pc = "headers"
    /\ LineEnd > 1 /\ IsHeader
    /\ Pop
    /\ req' = Put(Line[1].sort, Line[1].n)
    /\ field' = Line[1]
    /\ UNCHANGED <<msgs, wire, pc, handled, failed>>

\* A folded line makes the value v, of the last header line, longer by a digit;
\* v itself stays, and the next folded line takes the place of this one.
FoldedHeader ==
    /\ pc = "headers"
    /\ LineEnd > 1 /\ IsFolded
    /\ Pop
    /\ \/ /\ field # NoField
          /\ req' = Put(field.sort, 10 * field.n + Line[1].n)
          /\ UNCHANGED <<pc, handled, failed>>
       \/ /\ field = NoField
          /\ Corrupted
          /\ UNCHANGED req
    /\ UNCHANGED <<msgs, wire, field>>

\* No colon.
BadHeader ==
    /\ pc = "headers"
    /\ LineEnd > 1 /\ ~IsHeader /\ ~IsFolded
    /\ Pop
    /\ Corrupted
    /\ UNCHANGED <<msgs, wire, req, field>>

Chunked == "Transfer-Encoding" \in DOMAIN req.headers /\ req.headers["Transfer-Encoding"] = 1

\* parse_body, chunked.
BodyChunked ==
    /\ pc = "body"
    /\ Chunked
    /\ req' = [req EXCEPT !.ntoread = -1]
    /\ pc' = "chunks"
    /\ UNCHANGED <<msgs, wire, buf, field, handled, failed>>

HasLength == "Content-Length" \in DOMAIN req.headers
BodyLen == req.headers["Content-Length"]

\* get_body_length and the rest of parse_body.
BodyUntilClose ==
    /\ pc = "body"
    /\ ~Chunked /\ ~HasLength
    /\ req' = [req EXCEPT !.ntoread = -1, !.body = @ \o buf]
    /\ buf' = <<>>
    /\ NeedMore
    /\ UNCHANGED <<msgs, wire, field>>

BodyBad ==
    /\ pc = "body"
    /\ ~Chunked /\ HasLength /\ BodyLen < 0
    /\ IF BodyLen = NaN THEN Throw ELSE Corrupted
    /\ req' = [req EXCEPT !.ntoread = BodyLen]
    /\ UNCHANGED <<msgs, wire, buf, field>>

\* Mutant of Behind: the body is copied and stays in the read buffer.
BehindAll(n) == buf

\* The read buffer without its first n bytes.
Behind(n) == SubSeq(buf, n + 1, Len(buf))

BodyLength ==
    /\ pc = "body"
    /\ ~Chunked /\ HasLength /\ BodyLen >= 0
    /\ \/ /\ Len(buf) >= BodyLen
          /\ buf' = Behind(BodyLen)
          /\ AllRead(req.body \o SubSeq(buf, 1, BodyLen))
       \/ /\ Len(buf) < BodyLen
          /\ req' = [req EXCEPT !.ntoread = BodyLen]
          /\ NeedMore
          /\ UNCHANGED buf
    /\ UNCHANGED <<msgs, wire, field>>

\* The while loop of parse_body for chunks has come to the end of the data.
ChunkWait ==
    /\ pc = "chunks"
    /\ buf = <<>> \/ Len(buf) < req.ntoread
    /\ NeedMore
    /\ UNCHANGED <<msgs, wire, buf, req, field>>

IsNumber == LineEnd > 1 /\ Line[1].sort = "size" /\ Line[1].n # NaN

\* stol of the size line; it throws when there is no line.
ChunkSize ==
    /\ pc = "chunks"
    /\ buf # <<>> /\ req.ntoread < 0
    /\ Pop
    /\ \/ /\ IsNumber
          /\ \/ /\ Line[1].n > 0
                /\ req' = [req EXCEPT !.ntoread = Line[1].n]
                /\ UNCHANGED <<pc, field, handled, failed>>
             \/ /\ Line[1].n = 0
                /\ req' = [req EXCEPT !.ntoread = 0, !.status = "TRAILER"]
                /\ pc' = "headers"
                /\ field' = NoField
                /\ UNCHANGED <<handled, failed>>
             \/ /\ Line[1].n < 0
                /\ req' = [req EXCEPT !.ntoread = Line[1].n]
                /\ Corrupted
                /\ UNCHANGED field
       \/ /\ ~IsNumber
          /\ Throw
          /\ UNCHANGED <<req, field>>
    /\ UNCHANGED <<msgs, wire>>

\* Mutant of ChunkEnd: the line end of the chunk stays.
ChunkEndNoEol == req.ntoread

\* What is taken for a chunk: its data and its line end, as far as it is there.
ChunkEnd == IF req.ntoread + 2 > Len(buf) THEN Len(buf) ELSE req.ntoread + 2

ChunkData ==
    /\ pc = "chunks"
    /\ buf # <<>> /\ req.ntoread >= 0 /\ Len(buf) >= req.ntoread
    /\ req' = [req EXCEPT !.ntoread = -1, !.body = @ \o SubSeq(buf, 1, ChunkEnd)]
    /\ buf' = SubSeq(buf, ChunkEnd + 1, Len(buf))
    /\ UNCHANGED <<msgs, wire, field, pc, handled, failed>>

ParseHeaders == HeadersWait \/ HeadersEnd \/ Header \/ FoldedHeader \/ BadHeader
ParseBody == BodyChunked \/ BodyUntilClose \/ BodyBad \/ BodyLength
                \/ ChunkWait \/ ChunkSize \/ ChunkData
Parse == More \/ Resume \/ FirstLine \/ ParseHeaders \/ ParseBody

Next == Deliver \/ Call \/ Parse

Spec == Init /\ [][Next]_vars

\* TCP delivers what was sent, and the reader reads what has arrived.
FairSpec == Spec /\ WF_vars(Deliver) /\ WF_vars(Call) /\ WF_vars(Parse)

-----------------------------------------------------------------------------
(* What was sent, as the receiver should see it.                           *)

\* No header without a colon, no folded line without a header, only numbers.
Malformed(m) ==
    \/ m.start \notin Requests \cup Responses
    \/ m.more # <<>> /\ m.more[1].sort # "Extra"
    \/ m.start \notin Bodiless /\ m.length < 0 /\ m.length # Absent
    \/ \E i \in DOMAIN m.chunks : m.chunks[i] < 0

\* The body goes on until the connection is closed.
Endless(m) == m.start \notin Bodiless /\ m.length = Absent /\ m.chunks = <<>>

\* The messages before the first that cannot be read to its end.
Readable ==
    LET i == SelectInSeq(msgs, LAMBDA m : Malformed(m) \/ Endless(m))
    IN IF i = 0 THEN msgs ELSE SubSeq(msgs, 1, i - 1)

\* The value that parse keeps of header k: of the lines folded behind the user's
\* header only the last, the ones between are lost.
HeaderValue(m, k) ==
    LET lines == m.more \o Headers(m)
        i == SelectInSeq(lines, LAMBDA t : t.sort = k)
    IN IF k = "Extra" /\ Len(m.more) > 1 THEN 10 * m.more[1].n + Last(m.more).n
       ELSE lines[i].n

HeaderKeys(m) == {t.sort : t \in ToSet(m.more \o Headers(m))} \cap Keys

\* The body that parse keeps: every chunk has its line end behind it.
BodyKept(m) ==
    IF m.chunks = <<>> THEN Bytes(0, m.body)
    ELSE Flat([i \in DOMAIN m.chunks |-> Bytes(Before(m.chunks, i), m.chunks[i]) \o Eol])

Matches(h, m) ==
    /\ h.start = m.start
    /\ h.headers = [k \in HeaderKeys(m) |-> HeaderValue(m, k)]
    /\ h.body = BodyKept(m)

-----------------------------------------------------------------------------
(* Properties.                                                             *)

\* The variables have their types; a request that has not been started is new.
TypeOK ==
    /\ pc \in {"idle", "arrived", "parse", "more", "headers", "body", "chunks"}
    /\ failed \in {"no", "CORRUPTED", "thrown"}
    /\ req.status \in {"FIRSTLINE", "HEADERS", "BODY", "TRAILER"}
    /\ req.status = "FIRSTLINE" => req = NewRequest
    /\ req.ntoread \in Int
    /\ field.sort \in Keys \cup {"none"}

\* What the receiver's parse hands over is what the sender wrote, in order, each
\* message with its start line, exactly its headers and exactly its body, and
\* nothing behind a message that cannot be read.  It differs in two ways from
\* what was sent: a header folded more than once has lost all continuations but
\* the last (HeaderValue), and in a body sent in chunks there is a CR LF behind
\* each chunk (BodyKept).
HandledIsSent ==
    /\ Len(handled) <= Len(Readable)
    /\ \A i \in DOMAIN handled : Matches(handled[i], Readable[i])

\* Between two messages the read buffer and what is still to come are exactly
\* the messages not yet handled: no byte of one is taken for another's, and
\* nothing of its fields is kept (TypeOK).
Aligned ==
    /\ TypeOK
    /\ pc \in {"idle", "arrived", "more"} /\ req.status = "FIRSTLINE" /\ failed = "no" =>
          buf \o Flat(wire) = Flat(Stream(SubSeq(msgs, Len(handled) + 1, Len(msgs))))

\* parse gives up, or throws, only at a message that is malformed, and after
\* it has handed over all before it; it throws only for want of a number.
RejectsOnlyMalformed ==
    failed # "no" =>
        /\ Len(handled) < Len(msgs)
        /\ Malformed(msgs[Len(handled) + 1])
        /\ failed = "thrown" =>
              NaN \in {msgs[Len(handled) + 1].length} \cup ToSet(msgs[Len(handled) + 1].chunks)

\* The messages that are read for: those that can be read, up to the first
\* request that asks to close the connection.
Awaited ==
    LET i == SelectInSeq(Readable, LAMBDA m : m.close)
    IN IF KindResponse \/ i = 0 THEN Len(Readable) ELSE i

\* Every message that can be read is handed over in the end, pipelined or not,
\* up to the first request that asks to close the connection, and a malformed
\* one behind them is rejected unless nothing is read any more.
AllHandled ==
    <>(/\ Len(handled) >= Awaited
       /\ ~Closing /\ Len(handled) < Len(msgs) /\ Malformed(msgs[Len(handled) + 1]) =>
             failed # "no")

=============================================================================
