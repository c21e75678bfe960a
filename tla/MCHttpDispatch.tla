--------------------------- MODULE MCHttpDispatch ---------------------------
(* Instances of HttpDispatch for TLC. *)
EXTENDS HttpDispatch

Symmetry == Permutations(Fds)
=============================================================================
