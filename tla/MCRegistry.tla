----------------------------- MODULE MCRegistry -----------------------------
(* Registry on small instances. *)
EXTENDS Registry, TLC

CONSTANTS r1, r2, prod

Symmetry == Permutations(Runs)
=============================================================================
