--------------------------- MODULE CostAllocation ---------------------------
(***************************************************************************)
(* How the cost of an import is shared out, in whole cents                 *)
(* (import-expense-allocation-calculator.ts) and how much of a share the   *)
(* goods already received carry (import-receipt-cost-attribution.ts).      *)
(*                                                                         *)
(* The targets of a distribution are numbers, in the order in which the    *)
(* code has sorted them: the last of them takes the residue.               *)
(***************************************************************************)
EXTENDS Naturals, Integers, Sequences, FiniteSets, Functions

Total(f) == FoldFunction(+, 0, f)

LastOf(S) == CHOOSE k \in S : \A j \in S : j <= k

\* toDecimalPlaces(2, ROUND_HALF_UP) of n / d, both in cents and not negative.
HalfUp(n, d) == (2 * n + d) \div (2 * d)

\* computeProportionalAllocation.  Roundings up may leave the last target with
\* nothing, or with less than nothing.
Proportional(weight, amount) ==
  LET last    == LastOf(DOMAIN weight)
      rounded == [k \in DOMAIN weight \ {last} |-> HalfUp(amount * weight[k], Total(weight))]
  IN  [k \in DOMAIN weight |-> IF k = last THEN amount - Total(rounded) ELSE rounded[k]]

\* Mutated form: what has not been received is rounded, too.
SplitWithoutResidue(received, planned, amount) ==
  LET Share(quantity) == HalfUp(amount * quantity, planned)
  IN  [perKey       |-> [k \in DOMAIN received |-> Share(received[k])],
       unattributed |-> Share(planned - Total(received))]

\* computeCostAttributionSplit: what is planned and not received is one more
\* target, the last, and the residue falls on it.
Split(received, planned, amount) ==
  LET rest    == planned - Total(received)
      targets == IF rest > 0 THEN Append(received, rest) ELSE received
      shares  == IF targets = <<>> THEN <<>> ELSE Proportional(targets, amount)
  IN  [perKey       |-> SubSeq(shares, 1, Len(received)),
       unattributed |-> IF rest > 0 THEN shares[Len(targets)] ELSE 0]
=============================================================================
