--------------------------- MODULE MCImportCosts ---------------------------
(***************************************************************************)
(* An instance of ImportCosts and ImportReports.  Requests that meet are   *)
(* explored over few data, and the data that make shares round, with one   *)
(* request at a time.                                                      *)
(***************************************************************************)
EXTENDS ImportReports, TLC

CONSTANTS o1, o2, s1, s2, e1, e2, i1, k1, p1, p2

\* A light line of invoiced goods, and a heavy one next to one without measure.
Light == [planned |-> 1, item |-> i1, WEIGHT |-> 1, VOLUME |-> 1]
Heavy == [planned |-> 2, item |-> i1, WEIGHT |-> 3, VOLUME |-> 0]
Loose == [planned |-> 1, item |-> NoItem, WEIGHT |-> Unmeasured, VOLUME |-> 1]

\* Two lines that are both weighed, among which odd amounts do not divide.
Crate == [planned |-> 1, item |-> i1, WEIGHT |-> 2, VOLUME |-> 1]
Bags  == [planned |-> 3, item |-> NoItem, WEIGHT |-> 5, VOLUME |-> 1]

Weighed == <<Crate, Bags>>

ContentsOf == {<<Heavy>>, <<Light, Loose>>, Weighed}
InvoicedOf == i1 :> 3

Symmetry ==
  Permutations(Operations) \cup Permutations(Shipments) \cup Permutations(Importers)

-----------------------------------------------------------------------------
(* Bounds *)

Linked == \E l \in DOMAIN line : line[l].links # <<>>

Asks(r, field, values) == field \in DOMAIN r => r[field] \in values

\* Requests that meet: one expense in the currency of the company, allocated by
\* single cents.
Meeting ==
  /\ expense[e2] = Absent
  /\ expense[e1] = Absent \/ expense[e1].currency = CompanyCurrency
  /\ \A l \in DOMAIN line : line[l].WEIGHT \notin {Crate.WEIGHT, Bags.WEIGHT}
  /\ \A p \in Importers : /\ Asks(request[p], "amount", {1} \cup ExpenseAmounts)
                          /\ Asks(request[p], "currency", {CompanyCurrency})
                          /\ Asks(request[p], "content", Contents \ {Weighed})
  /\ \A k \in DOMAIN batches[e1] : batches[e1][k].requested = 1

\* Amounts that do not divide: two expenses of one operation, allocated without
\* keys to the lines of one shipment before anything is received; and receipts
\* that are linked to those lines once the operation is completed.
Rounding ==
  /\ \E p \in Importers :
       /\ \A q \in Importers \ {p} : request[q] = Idle
       /\ Asks(request[p], "content", {Weighed})
       /\ Asks(request[p], "key", {NoExpenseKey})
       /\ Linked => request[p] = Idle
  /\ \E o \in Operations :
       /\ \A other \in Operations \ {o} : operation[other] = "NONE"
       /\ Linked => operation[o] = "COMPLETED"
  /\ \E s \in Shipments : \A other \in Shipments \ {s} : shipment[other] = Absent
  /\ \A l \in DOMAIN line : line[l].WEIGHT \in {Crate.WEIGHT, Bags.WEIGHT}
  /\ Len(batches[e1]) + Len(batches[e2]) <= 2
  /\ \A e \in Expenses :
       /\ expense[e].status # "FINALIZED"
       /\ expense[e] = Absent \/ expense[e].amount = 4
       /\ \A k \in DOMAIN batches[e] : batches[e][k].key = NoExpenseKey
  /\ expense[e2] # Absent => expense[e1] # Absent /\ expense[e1].currency = CompanyCurrency

BoundedNext == CostsNext /\ (Meeting \/ Rounding)'

Spec == CostsInit /\ [][BoundedNext]_costVars
=============================================================================
