-------------------------- MODULE MCChartOfAccounts --------------------------
(* Instances of ChartOfAccounts for the model checker. *)
EXTENDS ChartOfAccounts, TLC

CONSTANTS a1, a2, a3, a4, cash, bank

\* The seed maps both keys; every other account is created later.
SeededChart == cash :> a1 @@ bank :> a2

Symmetry == Permutations({a3, a4})
=============================================================================
