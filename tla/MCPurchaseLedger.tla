-------------------------- MODULE MCPurchaseLedger --------------------------
(* Instances of PurchaseLedger, with its reports, for the model checker. *)
EXTENDS AccountsPayable

CONSTANTS a1, a2, payable, p1, p2, k1, r1, r2

\* One invoice may be edited or paid in two parts; the other is paid at once.
TotalsOf == 1 :> {1, 2} @@ 2 :> {1}

\* One is overdue by the least number of days of its bucket, the other never is.
OverdueOf == 1 :> {31} @@ 2 :> {}

Symmetry == Permutations(Accounts) \cup Permutations(Payments) \cup Permutations(Requests)
=============================================================================
