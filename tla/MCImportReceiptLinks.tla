------------------------ MODULE MCImportReceiptLinks ------------------------
(* Instances of ImportReceiptLinks for the model checker. *)
EXTENDS ImportReceiptLinks, TLC

CONSTANTS sl1, sl2, rl1, rl2, rc1, rc2, k1, l1, l2, r1, r2

\* One receipt line per receipt.
MCReceiptOf == rl1 :> rc1 @@ rl2 :> rc2

\* Two units on one line of each kind, three on the other.
MCPlanned  == sl1 :> 2 @@ sl2 :> 3
MCReceived == rl1 :> 2 @@ rl2 :> 3

\* The second shipment line carries a product the first receipt does not.
MCCompatible == (ShipmentLines \X ReceiptLines) \ {<<sl2, rl1>>}

\* One line of each kind.
OneReceipt  == rl1 :> rc1
OnePlanned  == sl1 :> 2
OneReceived == rl1 :> 2
OneCompatible == {<<sl1, rl1>>}

Symmetry == Permutations(Linkers) \cup Permutations(Links)
=============================================================================
