----------------------------- MODULE MCProactor ------------------------------
(* A small instance of Proactor for TLC: accepting and one session, as in   *)
(* test_proactor.  accept posts the first read and accepts again, the read  *)
(* posts a write and the next read.                                         *)
EXTENDS Proactor

MCOps == {"accept1", "accept2", "read1", "write1", "read2"}

MCTarget ==
    [o \in MCOps |-> CASE o \in {"accept1", "accept2"} -> <<"listen", "rd">>
                       [] o \in {"read1", "read2"} -> <<"session", "rd">>
                       [] o = "write1" -> <<"session", "wr">>]

MCFollow ==
    [o \in MCOps |-> CASE o = "accept1" -> <<"read1", "accept2">>
                       [] o = "read1" -> <<"write1", "read2">>
                       [] OTHER -> <<>>]

=============================================================================
