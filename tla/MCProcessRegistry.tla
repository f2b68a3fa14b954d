-------------------------- MODULE MCProcessRegistry --------------------------
(* ProcessRegistry on a small instance; the commands are interchangeable. *)
EXTENDS ProcessRegistry, TLC

Symmetry == Permutations(Proc)
=============================================================================
