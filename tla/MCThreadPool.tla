---------------------------- MODULE MCThreadPool ----------------------------
(* Small instances of ThreadPool for TLC.                                  *)
EXTENDS ThreadPool

Symmetry == Permutations(Tasks) \cup Permutations(Workers)
=============================================================================
