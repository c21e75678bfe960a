---------------------------- MODULE MCThreadLoop -----------------------------
(* A small instance of ThreadLoop for TLC.                                  *)
EXTENDS ThreadLoop
=============================================================================
