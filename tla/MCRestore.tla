------------------------------- MODULE MCRestore -------------------------------
(* Two names in the source directory, one in each of its subdirectories: every *)
(* tree when the backup is made, and every tree when it is restored.           *)
EXTENDS Restore, TLC

CONSTANTS n1, n2, n3

Symmetry == Permutations({n1, n2})
=============================================================================
