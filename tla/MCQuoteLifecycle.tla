-------------------------- MODULE MCQuoteLifecycle --------------------------
(* Instances of QuoteLifecycle for the model checker. *)
EXTENDS QuoteLifecycle, TLC

CONSTANTS PEN, USD, i1, s1, s2, q1, q2, r1, r2, v1, v2

Symmetry ==
  UNION {Permutations(set) : set \in {Requests, Sales, Currencies, Revisions, Quotes}}
=============================================================================
