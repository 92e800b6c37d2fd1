--------------------------- MODULE MCSalePayments ---------------------------
(* Instances of SalePayments for the model checker. *)
EXTENDS SalePayments, TLC

CONSTANTS s1, s2, p1, p2, p3, p4, r1, r2

\* The first sale can be paid in parts, the second by one payment.
MCTotal == s1 :> 3 @@ s2 :> 1

Symmetry == Permutations(Requests) \cup Permutations(Payments)
=============================================================================
