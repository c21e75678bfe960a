-------------------------- MODULE MCHttpConnection --------------------------
(* Small instances of HttpConnection for TLC.                              *)
EXTENDS HttpConnection

Symmetry == Permutations(Fds) \cup Permutations(Clients) \cup Permutations(Conns)
=============================================================================
