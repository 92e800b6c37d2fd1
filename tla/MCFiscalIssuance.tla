-------------------------- MODULE MCFiscalIssuance --------------------------
(* Instances of FiscalIssuance for the model checker. *)
EXTENDS FiscalIssuance

CONSTANTS s1, s2, d1, d2, x1, x2, r1, r2

\* Every sale may be billed in every series.
AllPairs == Sales \X Series
=============================================================================
