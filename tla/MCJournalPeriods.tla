-------------------------- MODULE MCJournalPeriods --------------------------
(* Instances of JournalPeriods for the model checker. *)
EXTENDS JournalPeriods, TLC

CONSTANTS sale, draft, r1, r2, r3

Symmetry == Permutations(Requests)
=============================================================================
