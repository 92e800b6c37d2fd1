------------------------------ MODULE MCAccess ------------------------------
(* An instance of Access for the model checker. *)
EXTENDS Access, TLC

CONSTANTS r1, r2

Symmetry == Permutations(Requests)
=============================================================================
