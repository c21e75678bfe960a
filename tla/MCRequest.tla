------------------------------ MODULE MCRequest ------------------------------
(* Small instances of Request for TLC.                                      *)
EXTENDS Request

Plain(start, body) == [start |-> start, body |-> body, length |-> body, chunks |-> <<>>,
                       close |-> FALSE, more |-> <<>>]

\* Folded once, and twice.
Once == <<Tok("Extra", 1), Tok("folded", 2)>>
Twice == Append(Once, Tok("folded", 3))

GoodRequests == {Plain("POST", 2), [Plain("HEAD", 0) EXCEPT !.more = Once],
                 [Plain("GET", 0) EXCEPT !.close = TRUE, !.more = Twice]}
BadRequests == {Plain("BREW", 0),
                [Plain("GET", 0) EXCEPT !.more = <<Tok("folded", 2)>>],
                [Plain("HEAD", 0) EXCEPT !.more = <<Tok("colonless", 0)>>],
                [Plain("POST", 1) EXCEPT !.length = -1],
                [Plain("POST", 1) EXCEPT !.length = NaN],
                [Plain("POST", 1) EXCEPT !.length = Absent]}
InChunks(sizes) == [Plain("200", 0) EXCEPT !.chunks = sizes]
GoodResponses == {Plain("200", 2), Plain("404", 1), Plain("204", 0), InChunks(<<2, 1>>)}
BadResponses == {InChunks(<<1, NaN>>), InChunks(<<-1>>)}

AllMessages == GoodRequests \cup BadRequests \cup GoodResponses \cup BadResponses
Gets == {Plain("GET", 0)}
=============================================================================
