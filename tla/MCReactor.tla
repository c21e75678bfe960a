------------------------------ MODULE MCReactor ------------------------------
(* A small instance of Reactor for TLC.                                     *)
EXTENDS Reactor

\* The block of select has 192 bytes at first, and it refuses descriptor 2000.
MCEvents == [select |-> {<<1, "rd">>, <<200, "wr">>, <<2000, "rd">>},
             poll |-> {<<1, "rd">>, <<1, "wr">>, <<200, "rd">>}]
MCHangups == {<<1, "hup">>}
=============================================================================
