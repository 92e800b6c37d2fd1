----------------------------- MODULE SaleIntake -----------------------------
(***************************************************************************)
(* The rows that a sale is confirmed against (SalesService): its           *)
(* transaction locks the customer, the products and, in share mode, their  *)
(* categories and units, while administrators go on editing them.          *)
(***************************************************************************)
EXTENDS Catalog, Parties

VARIABLES
  pc,        \* what each request is about
  order      \* the sale it asks for: none or one

intakeVars == <<pc, order>>

Orders == [customer : Customers, product : Products,
           quoted : BOOLEAN,       \* made from a quote
           debt : BOOLEAN,         \* not paid in full
           fraction : BOOLEAN]     \* of a unit

IntakeInit ==
  /\ RecordsInit
  /\ pc = [r \in Sellers |-> "idle"]
  /\ order = [r \in Sellers |-> {}]

Proceed(r, step) == pc' = [pc EXCEPT ![r] = step]

\* FOR UPDATE waits for every holder; FOR SHARE for none of these, since only
\* the commit of an edit, in one step, takes those rows alone.
Lock(r, ids) == holders' = [i \in Ids |-> holders[i] \cup (IF i \in ids THEN {r} ELSE {})]

Release(r) == holders' = [i \in Ids |-> holders[i] \ {r}]

\* assertCustomerUsable; quotes are never for the generic customer.
CustomerUsable(o) ==
  /\ Exists(o.customer) /\ rows[o.customer].status # "INACTIVE"
  /\ o.quoted => o.customer # Generic

\* Mutated form: the customer is read without a lock, as the generic one is.
ReadCustomer(r, o) ==
  /\ pc[r] = "idle"
  /\ CustomerUsable(o)
  /\ order' = [order EXCEPT ![r] = {Written([seen |-> rows[o.customer]], o)}]
  /\ Proceed(r, "customer")
  /\ UNCHANGED records

\* lockCustomerForSale: the generic customer is read without a lock.
LockCustomer(r, o) ==
  /\ pc[r] = "idle"
  /\ o.customer = Generic \/ holders[o.customer] = {}
  /\ CustomerUsable(o)
  /\ Lock(r, {o.customer} \ {Generic})
  /\ order' = [order EXCEPT ![r] = {Written([seen |-> rows[o.customer]], o)}]
  /\ Proceed(r, "customer")
  /\ UNCHANGED <<rows, edit>>

\* assertCustomerDebtRules, on the customer that was read
DebtAllowed(o, customer) ==
  o.debt => o.customer # Generic /\ customer.status # "BLOCKED" /\ customer.credit

\* validateProductEligibility, assertQuantityAllowedForUnit, assertSufficientStock
Eligible(o) ==
  LET p == o.product
  IN  /\ Active(p) /\ Active(rows[p].category) /\ Active(rows[p].unit)
      /\ o.fraction => rows[rows[p].unit].decimal
      /\ rows[p].tracked => rows[p].stock > 0

\* lockProductsForSale, and the checks that follow it
LockProducts(r) ==
  /\ pc[r] = "customer"
  /\ \E o \in order[r] :
       /\ Exists(o.product) /\ holders[o.product] = {}
       /\ Eligible(o) /\ DebtAllowed(o, o.seen)
       /\ Lock(r, {o.product, rows[o.product].category, rows[o.product].unit})
  /\ Proceed(r, "checked")
  /\ UNCHANGED <<rows, edit, order>>

\* The sale leaves the stock, and makes a customer of a prospect.
Confirm(r) ==
  /\ pc[r] = "checked"
  /\ \E o \in order[r] :
       rows' = [i \in Ids |->
         CASE i = o.product /\ rows[i].tracked -> [rows[i] EXCEPT !.stock = @ - 1]
           [] i = o.customer /\ o.customer # Generic -> [rows[i] EXCEPT !.stage = "CUSTOMER"]
           [] OTHER -> rows[i]]
  /\ Release(r)
  /\ Proceed(r, "confirmed")
  /\ order' = [order EXCEPT ![r] = {}]
  /\ UNCHANGED edit

\* The answer is given, or the transaction rolled back.
EndRequest(r) ==
  /\ pc[r] # "idle"
  /\ Proceed(r, "idle")
  /\ order' = [order EXCEPT ![r] = {}]
  /\ Release(r)
  /\ UNCHANGED <<rows, edit>>

\* Stock comes in, as StockMovementEngine lets it.
Restock(p) ==
  /\ Exists(p) /\ holders[p] = {}
  /\ rows[p].tracked /\ rows[p].type # "SERVICE"
  /\ Active(p) /\ Usable(rows[p])
  /\ rows[p].stock < MaxStock
  /\ rows' = [rows EXCEPT ![p].stock = @ + 1]
  /\ UNCHANGED <<edit, holders, intakeVars>>

IntakeStep(r) ==
  \/ \E o \in Orders : LockCustomer(r, o)
  \/ LockProducts(r) \/ Confirm(r) \/ EndRequest(r)

EditRows(u) ==
  \/ CatalogStep(u)
  \/ \E c \in Customers : CustomerStep(u, c)
  \/ \E s \in Suppliers : SupplierStep(u, s)
  \/ \E m \in Methods : MethodStep(u, m)
  \/ CommitEdit(u) \/ AbandonEdit(u)

IntakeNext ==
  \/ (\E u \in Admins : EditRows(u)) /\ UNCHANGED intakeVars
  \/ \E r \in Sellers : IntakeStep(r)
  \/ \E p \in Products : Restock(p)

IntakeSpec == IntakeInit /\ [][IntakeNext]_<<records, intakeVars>>

-----------------------------------------------------------------------------
(* Properties *)

\* A sale is confirmed only if, at that moment, its customer may buy it, on
\* credit if it leaves a debt, and its product, its category and its unit are
\* in use: nobody blocks, deactivates or edits them behind its back.
SalesFitTheRows ==
  [][\A r \in Sellers : pc[r] # "confirmed" /\ pc'[r] = "confirmed" =>
       \A o \in order[r] :
         /\ CustomerUsable(o) /\ DebtAllowed(o, rows[o.customer])
         /\ Eligible(o)]_<<records, intakeVars>>
=============================================================================
