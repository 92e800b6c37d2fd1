----------------------------- MODULE PayableBook -----------------------------
(***************************************************************************)
(* What the company owes a supplier, one step per operation: an invoice is *)
(* recognised, payments settle parts of recognised invoices, each one as a *)
(* whole, and are taken back; an invoice that nothing settles is voided.   *)
(* Nothing is paid twice under one key, and never more than what is owed.  *)
(***************************************************************************)
EXTENDS Integers, Functions

CONSTANTS Invoices, Totals, Payments, Amounts, IdempotencyKeys

VARIABLES
  owed,     \* the total of each recognised invoice, 0 for the others
  voided,   \* invoices that were recognised and are no longer
  settled,  \* what each standing payment settles, per invoice
  keys,     \* keys that payments have used, those taken back included
  undone    \* payments taken back

vars == <<owed, voided, settled, keys, undone>>

Nothing == [i \in {} |-> 0]

\* What the standing payments settle of an invoice.
Settled(i) ==
  SumFunction([p \in {p \in Payments : i \in DOMAIN settled[p]} |-> settled[p][i]])

Allocations == UNION {[is -> Amounts] : is \in (SUBSET Invoices) \ {{}}}

Init ==
  /\ owed = [i \in Invoices |-> 0]
  /\ voided = {}
  /\ settled = [p \in Payments |-> Nothing]
  /\ keys = {}
  /\ undone = {}

Recognise(i, total) ==
  /\ owed[i] = 0 /\ i \notin voided
  /\ owed' = [owed EXCEPT ![i] = total]
  /\ UNCHANGED <<voided, settled, keys, undone>>

Settle(p, allocation, key) ==
  /\ settled[p] = Nothing /\ p \notin undone
  /\ key \cap keys = {}
  /\ \A i \in DOMAIN allocation : Settled(i) + allocation[i] <= owed[i]
  /\ settled' = [settled EXCEPT ![p] = allocation]
  /\ keys' = keys \cup key
  /\ UNCHANGED <<owed, voided, undone>>

Undo(p) ==
  /\ settled[p] # Nothing
  /\ settled' = [settled EXCEPT ![p] = Nothing]
  /\ undone' = undone \cup {p}
  /\ UNCHANGED <<owed, voided, keys>>

Void(i) ==
  /\ owed[i] > 0
  /\ Settled(i) = 0
  /\ owed' = [owed EXCEPT ![i] = 0]
  /\ voided' = voided \cup {i}
  /\ UNCHANGED <<settled, keys, undone>>

Next ==
  \/ \E i \in Invoices : (\E total \in Totals[i] : Recognise(i, total)) \/ Void(i)
  \/ \E p \in Payments :
       \/ \E allocation \in Allocations, key \in {{}} \cup {{k} : k \in IdempotencyKeys} :
            Settle(p, allocation, key)
       \/ Undo(p)

Spec == Init /\ [][Next]_vars
=============================================================================
