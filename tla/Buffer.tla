------------------------------- MODULE Buffer -------------------------------
(***************************************************************************)
(* wxg::buffer: a block of totallen bytes that holds off bytes of content, *)
(* misalign bytes from its start.  Bytes are taken by moving the start;    *)
(* room at the back is made by moving the content to the front of the      *)
(* block or by reallocating the block.                                     *)
(*                                                                         *)
(* The functions of the class are operators on a buffer b, a record of the *)
(* block and the three counters; an action is one call of a public method. *)
(* The variable wild records a write outside of the block.                 *)
(***************************************************************************)
EXTENDS Integers, Sequences

CONSTANTS Bytes, CR, LF, NUL,  \* byte values
          Junk,         \* the value of a byte that was never written
          DefaultSize,  \* DEFAULT_SIZE
          MinSize,      \* 256, the smallest size of a reallocated block
          MaxRead,      \* MAX_READ
          MaxTotal,     \* the largest block
          MaxData       \* the longest argument of push

ASSUME SizesAssumption ==
    /\ {DefaultSize, MinSize, MaxRead, MaxTotal} \subseteq Nat \ {0}
    /\ MaxData \in Nat
ASSUME BytesAssumption == {CR, LF, NUL} \subseteq Bytes

VARIABLES b,     \* the buffer: mem, misalign, off, totallen
          out,   \* what the last call returned
          wild   \* whether a call has written outside of the block

vars == <<b, out, wild>>

Values == Bytes \cup {Junk}

-----------------------------------------------------------------------------
(* Private functions.                                                      *)

\* The bytes from index from on replaced by data, as far as the block reaches.
Store(mem, from, data) ==
    [i \in DOMAIN mem |-> IF i - from + 1 \in DOMAIN data THEN data[i - from + 1] ELSE mem[i]]

\* if (misalign_ + off_ < totallen_) buf_[off_] = '\0';
Terminate(x) ==
    [x EXCEPT !.mem = Store(@, x.misalign + x.off, <<NUL>>)]

\* Mutant of Align: the counter is not reset.
AlignKeepsMisalign(x) ==
    [x EXCEPT !.mem = [i \in DOMAIN @ |-> IF i < x.off THEN @[x.misalign + i] ELSE @[i]]]

\* __align: memmove to the front of the block.
Align(x) ==
    [x EXCEPT !.mem = [i \in DOMAIN @ |-> IF i < x.off THEN @[x.misalign + i] ELSE @[i]],
              !.misalign = 0]

\* The while loop of __expand: doubled until there is room.
IsDoubling(length, base, need) ==
    \E k \in 0 .. MaxTotal : length = base * 2^k /\ (k > 0 => length < 2 * need)

NewLengths(totallen, need) ==
    LET base == IF totallen < MinSize THEN MinSize ELSE totallen
    IN  {length \in base .. MaxTotal : length \geq need /\ IsDoubling(length, base, need)}

\* realloc: the bytes gained are not initialized.
Realloc(x, length) ==
    [x EXCEPT !.mem = [i \in 0 .. length - 1 |-> IF i < x.totallen THEN @[i] ELSE Junk],
              !.totallen = length]

\* __expand(count): the buffers it may leave (none if realloc fails).
Expanded(x, count) ==
    LET need == x.misalign + x.off + count IN
    CASE x.totallen \geq need -> {x}
      [] x.totallen < need /\ x.misalign \geq count -> {Align(x)}
      [] OTHER -> {Realloc(Align(x), length) : length \in NewLengths(x.totallen, need)}

\* Mutant of Drain: the start moves one byte too far.
DrainSkipsOne(x, length) ==
    Terminate(IF length + 1 \geq x.off
              THEN [x EXCEPT !.off = 0, !.misalign = 0]
              ELSE [x EXCEPT !.off = @ - length - 1, !.misalign = @ + length + 1])

\* __drain(length).
Drain(x, length) ==
    Terminate(IF length \geq x.off
              THEN [x EXCEPT !.off = 0, !.misalign = 0]
              ELSE [x EXCEPT !.off = @ - length, !.misalign = @ + length])

-----------------------------------------------------------------------------
(* Public methods.                                                         *)

\* The length bytes of a block from index from on.
Slice(mem, from, length) == [i \in 1 .. length |-> mem[from + i - 1]]

Content(x) == Slice(x.mem, x.misalign, x.off)

Room(x) == x.totallen - x.misalign - x.off

Init ==
    /\ b = [mem |-> [i \in 0 .. DefaultSize - 1 |-> Junk],
            misalign |-> 0, off |-> 0, totallen |-> DefaultSize]
    /\ out = <<>>
    /\ wild = FALSE

Clear ==
    /\ b' = [b EXCEPT !.misalign = 0, !.off = 0]
    /\ out' = <<>>
    /\ UNCHANGED wild

\* Room for MAX_READ bytes is made whatever arrives: data, possibly nothing.
Read(data) ==
    /\ Len(data) \leq MaxRead
    /\ \E x \in Expanded(b, MaxRead) :
          LET y == [x EXCEPT !.mem = Store(@, x.misalign + x.off, data), !.off = @ + Len(data)]
          IN  /\ b' = IF data = <<>> THEN x ELSE Terminate(y)
              /\ wild' = (wild \/ Room(x) < MaxRead)
    /\ out' = <<>>

\* write(fd), when the kernel takes n bytes.
Write(n) ==
    /\ n \in 1 .. b.off
    /\ out' = SubSeq(Content(b), 1, n)
    /\ b' = Drain(b, n)
    /\ UNCHANGED wild

\* Mutant of Push: the bytes already drained are taken for room.
PushIgnoresMisalign(data) ==
    /\ \E x \in IF b.totallen < b.off + Len(data) THEN Expanded(b, Len(data)) ELSE {b} :
          /\ b' = [x EXCEPT !.mem = Store(@, x.misalign + x.off, data), !.off = @ + Len(data)]
          /\ wild' = (wild \/ Room(x) < Len(data))
    /\ out' = <<>>

Push(data) ==
    /\ \E x \in IF Room(b) < Len(data) THEN Expanded(b, Len(data)) ELSE {b} :
          /\ b' = [x EXCEPT !.mem = Store(@, x.misalign + x.off, data), !.off = @ + Len(data)]
          /\ wild' = (wild \/ Room(x) < Len(data))
    /\ out' = <<>>

\* pop(data, length).
PopBytes(length) ==
    LET n == IF length > b.off THEN b.off ELSE length IN
    /\ out' = SubSeq(Content(b), 1, n)
    /\ b' = Terminate(IF n > 0 THEN Drain(b, n) ELSE b)
    /\ UNCHANGED wild

\* pop() finds no line end: it returns the empty string and takes nothing.
PopNoLine ==
    /\ \A i \in 1 .. b.off : Content(b)[i] \notin {CR, LF}
    /\ out' = <<>>
    /\ UNCHANGED <<b, wild>>

\* std::string line(data) ends before the first NUL, at index n + 1 of s, or where
\* pop() has put one, at index i.
CString(s, n, i) ==
    /\ n = i - 1 \/ s[n + 1] = NUL
    /\ \A j \in 1 .. n : s[j] # NUL

\* pop() finds the first line end at index i; \r\n and \n\r are one line end.  It
\* overwrites the line end with NULs and drains it.
PopLine(i) ==
    LET s == Content(b)
        onemore == IF i < b.off /\ {s[i], s[i + 1]} = {CR, LF} THEN 1 ELSE 0
        cut == [b EXCEPT !.mem = Store(@, b.misalign + i - 1, [k \in 1 .. onemore + 1 |-> NUL])]
    IN  /\ i \in 1 .. b.off
        /\ s[i] \in {CR, LF}
        /\ \A j \in 1 .. i - 1 : s[j] \notin {CR, LF}
        /\ \E n \in 0 .. i - 1 : CString(s, n, i) /\ out' = SubSeq(s, 1, n)
        /\ b' = Drain(cut, i + onemore)
        /\ UNCHANGED wild

Data == UNION {[1 .. n -> Bytes] : n \in 0 .. MaxData}

Next ==
    \/ Clear
    \/ \E data \in Data : Read(data) \/ Push(data)
    \/ \E n \in 1 .. MaxTotal : Write(n)
    \/ \E n \in 0 .. MaxTotal : PopBytes(n)
    \/ PopNoLine
    \/ \E i \in 1 .. MaxTotal : PopLine(i)

Spec == Init /\ [][Next]_vars

-----------------------------------------------------------------------------
(* Properties.                                                             *)

\* A buffer whose content lies in its block.
Fits(x) ==
    /\ x \in [mem : [0 .. x.totallen - 1 -> Values],
              misalign : Nat, off : Nat, totallen : Nat]
    /\ x.misalign + x.off \leq x.totallen

\* The block has the length the counter says and the content lies in it, after
\* any sequence of calls.
ContentFits == Fits(b)

\* No call writes outside of the block, whatever was pushed, read and drained
\* before: the room left by earlier calls is never overestimated.
NoWildWrite == ~wild

F == INSTANCE ByteFifo WITH content <- Content(b)

\* The buffer is a queue of bytes: no call loses, repeats or reorders a byte, and
\* what is returned is the front of what was put in, although the content moves
\* in its block and the block moves in memory.
ImplementsByteFifo == F!Spec
=============================================================================
