-------------------------- MODULE MCStockValuation --------------------------
(* Instances of StockValuation for the model checker. *)
EXTENDS StockValuation, TLC

CONSTANTS k1, k2, k3, s1, s2, r1, r2

\* Two products that the lines list in the opposite order; the amount of the
\* second line does not divide among its two lots, nor do unit costs.
TwoProducts    == 1 :> 2 @@ 2 :> 1
TwoQuantities  == 1 :> 1 @@ 2 :> 2
TwoAmounts     == 1 :> 400 @@ 2 :> 50001
ManualOnFirst  == 1 :> 1 @@ 2 :> 0
OneAccount     == 1 :> 1 @@ 2 :> 1

\* One product, bought in two lines at different prices.
TwoPrices      == 1 :> 1 @@ 2 :> 1
OneEach        == 1 :> 1 @@ 2 :> 1
CheapAndDear   == 1 :> 10 @@ 2 :> 20

\* One line of two units.
OneLine        == 1 :> 1
TwoUnits       == 1 :> 2
RoundAmount    == 1 :> 100
NoManual       == 1 :> 0

Symmetry == UNION {Permutations(set) : set \in {Receipts, Sales, Requests}}
=============================================================================
