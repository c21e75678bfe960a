---------------------------- MODULE MCProcessLoop ----------------------------
(* A small instance of ProcessLoop for TLC.                                 *)
EXTENDS ProcessLoop
=============================================================================
