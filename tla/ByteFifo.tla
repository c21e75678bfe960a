------------------------------ MODULE ByteFifo ------------------------------
(***************************************************************************)
(* What wxg::buffer promises: a queue of bytes that is filled at the back  *)
(* and emptied at the front, by length or by line, without a word about    *)
(* the memory that holds it.  Buffer implements this specification.        *)
(***************************************************************************)
EXTENDS Naturals, Sequences

CONSTANTS Bytes, CR, LF, NUL,
          Data  \* what is put into the queue at once

VARIABLES content,  \* the bytes in the queue
          out       \* what the last call returned

vars == <<content, out>>

Init == content = <<>> /\ out = <<>>

Put(data) ==
    /\ content' = content \o data
    /\ out' = <<>>

Take(n) ==
    /\ out' = SubSeq(content, 1, n)
    /\ content' = SubSeq(content, n + 1, Len(content))

\* The first line, whose end is at index i and takes width bytes, as a C string.
LineAt(i, width) ==
    /\ content[i] \in {CR, LF}
    /\ \A j \in 1 .. i - 1 : content[j] \notin {CR, LF}
    /\ width = 2 <=> i < Len(content) /\ {content[i], content[i + 1]} = {CR, LF}

TakeLine ==
    \E i \in DOMAIN content, width \in {1, 2} :
        /\ LineAt(i, width)
        /\ \E n \in 0 .. i - 1 :
              /\ n = i - 1 \/ content[n + 1] = NUL
              /\ \A j \in 1 .. n : content[j] # NUL
              /\ out' = SubSeq(content, 1, n)
        /\ content' = SubSeq(content, i + width, Len(content))

NoLine ==
    /\ \A i \in DOMAIN content : content[i] \notin {CR, LF}
    /\ out' = <<>>
    /\ UNCHANGED content

Drop ==
    /\ content' = <<>>
    /\ out' = <<>>

Next ==
    \/ \E data \in Data : Put(data)
    \/ \E n \in 0 .. Len(content) : Take(n)
    \/ TakeLine
    \/ NoLine
    \/ Drop

Spec == Init /\ [][Next]_vars
=============================================================================
