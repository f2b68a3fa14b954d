--------------------------- MODULE MCConnectionPool ---------------------------
(* ConnectionPool on a small instance. *)
EXTENDS ConnectionPool, TLC

Symmetry == Permutations(Key) \cup Permutations(Rec) \cup Permutations(Att)
=============================================================================
