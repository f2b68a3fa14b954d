---------------------------- MODULE MCTaskBoard ----------------------------
(* TaskBoard for TLC: the members of a team are interchangeable.           *)
EXTENDS TaskBoard, TLC

Symmetry == Permutations(Member)
=============================================================================
