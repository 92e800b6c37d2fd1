----------------------------- MODULE ImportCosts -----------------------------
(***************************************************************************)
(* Import operations (ImportOperationsService), the shipments that bring   *)
(* their goods (ImportShipmentsService) and the expenses that are shared   *)
(* out among the lines of those shipments (ImportExpensesService).         *)
(*                                                                         *)
(* A request is a transaction, at READ COMMITTED.  The operations that     *)
(* take more than one step are those that look at rows they do not lock or *)
(* wait for rows that others have locked; the rest lock the one row they   *)
(* read and change, and are one step.  A request that is refused, times    *)
(* out or loses its connection is rolled back.                             *)
(*                                                                         *)
(* Lines of shipments are numbers, because a distribution sorts them.      *)
(* Amounts are cents, quantities are whole.                                *)
(***************************************************************************)
EXTENDS CostAllocation, FiniteSetsExt

CONSTANTS
  Operations, Shipments, Expenses,
  MaxLines,       \* numbers for lines of shipments
  Contents,       \* the lists of lines that a shipment may be given
  Items,          \* the lines of confirmed purchase invoices
  Invoiced,       \* their quantities
  Currencies,
  ExpenseAmounts, \* amounts of expenses
  Portions,       \* amounts that are allocated of them
  Methods,        \* methods of allocation in use
  ExpenseKeys,    \* idempotency keys
  NoExpenseKey,
  NoItem, Unmeasured,
  MaxBatches,     \* allocations of one expense
  Importers

ASSUME ImportCostsAssumption ==
  /\ MaxLines \in Nat /\ MaxBatches \in Nat
  /\ Invoiced \in [Items -> Nat] /\ NoItem \notin Items /\ NoExpenseKey \notin ExpenseKeys
  /\ ExpenseAmounts \cup Portions \subseteq Nat \ {0}
  /\ Methods \subseteq {"MANUAL", "QUANTITY", "WEIGHT", "VOLUME"}
  /\ Contents \subseteq Seq([planned : Nat \ {0}, item : Items \cup {NoItem},
                            WEIGHT : Nat \cup {Unmeasured}, VOLUME : Nat \cup {Unmeasured}])

VARIABLES
  operation,   \* status of each operation
  shipment,    \* status and operation of each shipment
  line,        \* the lines that exist: their shipment, what they say, and the
               \* quantities of their active receipt links, in order
  expense,     \* status, operation, currency and amount; when it was finalized
  batches,     \* the batches of allocations of each expense
  request      \* what each request is doing, and the rows it has locked

costVars == <<operation, shipment, line, expense, batches, request>>

Idle   == [does |-> "nothing", locks |-> {}]
Absent == [status |-> "NONE"]

CostsInit ==
  /\ operation = [o \in Operations |-> "NONE"]
  /\ shipment = [s \in Shipments |-> Absent]
  /\ line = <<>>
  /\ expense = [e \in Expenses |-> Absent]
  /\ batches = [e \in Expenses |-> <<>>]
  /\ request = [p \in Importers |-> Idle]

-----------------------------------------------------------------------------
(* Rows and locks. *)

Free(taken) == \A p \in Importers : request[p].locks \cap taken = {}

FreeFor(p, taken) == \A q \in Importers \ {p} : request[q].locks \cap taken = {}

OperationRow(o) == {<<"operation", o>>}
ShipmentRow(s)  == {<<"shipment", s>>}
ExpenseRow(e)   == {<<"expense", e>>}
LineRows(ls)    == {<<"line", l>> : l \in ls}
ItemRows(content) ==
  {<<"item", content[k].item>> : k \in {k \in DOMAIN content : content[k].item # NoItem}}

Continue(p, next) == request' = [request EXCEPT ![p] = next]
Commit(p)         == Continue(p, Idle)

LinesOf(s) == {l \in DOMAIN line : line[l].shipment = s}

Allocated(l) ==
  \E e \in Expenses : \E k \in DOMAIN batches[e] : l \in DOMAIN batches[e][k].shares

\* The quantity that the lines ls plan of an invoice line.
PlannedOf(i, ls) ==
  Total([l \in {l \in ls : line[l].item = i} |-> line[l].planned])

RequestedOf(i, content) ==
  Total([k \in {k \in DOMAIN content : content[k].item = i} |-> content[k].planned])

\* groupBy of the lines of shipments that are not cancelled.
Shipped(i, except) ==
  PlannedOf(i, {l \in DOMAIN line : /\ line[l].shipment \notin except
                                    /\ shipment[line[l].shipment].status # "CANCELLED"})

\* resolveAndValidateLines, after the lines of the invoices have been locked.
FitsInvoices(content, except) ==
  \A i \in Items : LET q == RequestedOf(i, content)
                   IN  q > 0 => Shipped(i, except) + q <= Invoiced[i]

FreshLines(old) ==
  (1..MaxLines) \ ((DOMAIN line \ old) \cup
                   UNION {request[p].lines : p \in {p \in Importers : request[p].does = "allocate"}})

\* The table of lines without the old ones and with those of s.
WithLines(old, s, content) ==
  LET fresh == FreshLines(old)
      new   == CHOOSE f \in [1..Len(content) -> fresh] :
                 \A j, k \in 1..Len(content) : j < k => f[j] < f[k]
  IN  [l \in (DOMAIN line \ old) \cup Range(new) |->
         IF l \in Range(new)
         THEN LET c == content[CHOOSE k \in DOMAIN new : new[k] = l]
              IN  [shipment |-> s, planned |-> c.planned, item |-> c.item,
                   WEIGHT |-> c.WEIGHT, VOLUME |-> c.VOLUME, links |-> <<>>]
         ELSE line[l]]

-----------------------------------------------------------------------------
(* ImportOperationsService *)

CreateOperation(o) ==
  /\ operation[o] = "NONE"
  /\ operation' = [operation EXCEPT ![o] = "DRAFT"]
  /\ UNCHANGED <<shipment, line, expense, batches, request>>

ShipmentsOf(o) == {s \in Shipments : shipment[s].status # "NONE" /\ shipment[s].operation = o}

CompleteOperation(o) ==
  /\ Free(OperationRow(o))
  /\ operation[o] = "IN_PROGRESS"
  /\ \A s \in ShipmentsOf(o) : shipment[s].status \notin {"PLANNED", "IN_TRANSIT"}
  /\ operation' = [operation EXCEPT ![o] = "COMPLETED"]
  /\ UNCHANGED <<shipment, line, expense, batches, request>>

\* cancel(): nothing keeps a shipment from arriving afterwards.
CancelOperation(o) ==
  /\ Free(OperationRow(o))
  /\ operation[o] \in {"DRAFT", "IN_PROGRESS"}
  /\ \A s \in ShipmentsOf(o) : shipment[s].status # "ARRIVED"
  /\ operation' = [operation EXCEPT ![o] = "CANCELLED"]
  /\ UNCHANGED <<shipment, line, expense, batches, request>>

-----------------------------------------------------------------------------
(* ImportShipmentsService *)

\* create() until the lines of the invoices are locked and their sums fit.
BeginShipmentUnlocked(p, o, content) ==
  /\ request[p] = Idle
  /\ Free(ItemRows(content))
  /\ operation[o] \in {"DRAFT", "IN_PROGRESS"}
  /\ FitsInvoices(content, {})
  /\ Continue(p, [does |-> "createShipment", locks |-> ItemRows(content),
                  operation |-> o, content |-> content])
  /\ UNCHANGED <<operation, shipment, line, expense, batches>>

BeginShipment(p, o, content) ==
  /\ request[p] = Idle
  /\ Free(OperationRow(o) \cup ItemRows(content))
  /\ operation[o] \in {"DRAFT", "IN_PROGRESS"}
  /\ FitsInvoices(content, {})
  /\ Continue(p, [does |-> "createShipment", locks |-> OperationRow(o) \cup ItemRows(content),
                  operation |-> o, content |-> content])
  /\ UNCHANGED <<operation, shipment, line, expense, batches>>

\* The insertion; the first shipment starts its operation.
CreateShipment(p, s) ==
  LET r == request[p]
  IN  /\ r.does = "createShipment"
      /\ shipment[s] = Absent
      /\ Cardinality(FreshLines({})) >= Len(r.content)
      /\ shipment' = [shipment EXCEPT ![s] = [status |-> "PLANNED", operation |-> r.operation]]
      /\ line' = WithLines({}, s, r.content)
      /\ operation' = [operation EXCEPT ![r.operation] = IF @ = "DRAFT" THEN "IN_PROGRESS" ELSE @]
      /\ Commit(p)
      /\ UNCHANGED <<expense, batches>>

\* update() with lines: assertNoActiveExpenseAllocations.
BeginReplace(p, s, content) ==
  /\ request[p] = Idle
  /\ Free(ShipmentRow(s))
  /\ shipment[s].status = "PLANNED"
  /\ \A l \in LinesOf(s) : ~Allocated(l)
  /\ Continue(p, [does |-> "replace", locks |-> ShipmentRow(s), shipment |-> s, content |-> content])
  /\ UNCHANGED <<operation, shipment, line, expense, batches>>

\* Mutated form: the lines of the invoices are summed and not locked.
DeleteLinesUnlocked(p) ==
  LET r == request[p]
      old == LinesOf(r.shipment)
  IN  /\ r.does = "replace"
      /\ FreeFor(p, LineRows(old))
      /\ \A l \in old : ~Allocated(l)
      /\ FitsInvoices(r.content, {r.shipment})
      /\ Continue(p, [r EXCEPT !.does = "insertLines", !.locks = @ \cup LineRows(old)])
      /\ UNCHANGED <<operation, shipment, line, expense, batches>>

\* deleteMany, which waits for an allocation that has locked a line and is then
\* refused by the foreign key of its shares; and resolveAndValidateLines, which
\* no longer counts what it has deleted.
DeleteLines(p) ==
  LET r == request[p]
      old == LinesOf(r.shipment)
  IN  /\ r.does = "replace"
      /\ FreeFor(p, LineRows(old) \cup ItemRows(r.content))
      /\ \A l \in old : ~Allocated(l)
      /\ FitsInvoices(r.content, {r.shipment})
      /\ Continue(p, [r EXCEPT !.does = "insertLines",
                               !.locks = @ \cup LineRows(old) \cup ItemRows(r.content)])
      /\ UNCHANGED <<operation, shipment, line, expense, batches>>

InsertLines(p) ==
  LET r == request[p]
      old == LinesOf(r.shipment)
  IN  /\ r.does = "insertLines"
      /\ Cardinality(FreshLines(old)) >= Len(r.content)
      /\ line' = WithLines(old, r.shipment, r.content)
      /\ Commit(p)
      /\ UNCHANGED <<operation, shipment, expense, batches>>

Depart(s) ==
  /\ Free(ShipmentRow(s))
  /\ shipment[s].status = "PLANNED"
  /\ shipment' = [shipment EXCEPT ![s].status = "IN_TRANSIT"]
  /\ UNCHANGED <<operation, line, expense, batches, request>>

\* arrive() does not look at the operation.
Arrive(s) ==
  /\ Free(ShipmentRow(s))
  /\ shipment[s].status \in {"PLANNED", "IN_TRANSIT"}
  /\ shipment' = [shipment EXCEPT ![s].status = "ARRIVED"]
  /\ UNCHANGED <<operation, line, expense, batches, request>>

\* cancel(), which reads the allocations of its lines and locks none of them.
BeginCancelShipment(p, s) ==
  /\ request[p] = Idle
  /\ Free(ShipmentRow(s))
  /\ shipment[s].status \in {"PLANNED", "IN_TRANSIT"}
  /\ \A l \in LinesOf(s) : ~Allocated(l)
  /\ Continue(p, [does |-> "cancelShipment", locks |-> ShipmentRow(s), shipment |-> s])
  /\ UNCHANGED <<operation, shipment, line, expense, batches>>

CommitCancelShipment(p) ==
  /\ request[p].does = "cancelShipment"
  /\ shipment' = [shipment EXCEPT ![request[p].shipment].status = "CANCELLED"]
  /\ Commit(p)
  /\ UNCHANGED <<operation, line, expense, batches>>

-----------------------------------------------------------------------------
(* ImportExpensesService *)

CreateExpense(e, o, currency, amount) ==
  /\ expense[e] = Absent
  /\ operation[o] # "NONE"
  /\ expense' = [expense EXCEPT ![e] =
       [status |-> "DRAFT", operation |-> o, currency |-> currency, amount |-> amount,
        finalized |-> FALSE]]
  /\ UNCHANGED <<operation, shipment, line, batches, request>>

\* update() of the amount or the currency: it looks at the expense and at its
\* batches, locks neither, and writes afterwards.
BeginUpdateExpense(p, e, currency, amount) ==
  /\ request[p] = Idle
  /\ expense[e].status = "DRAFT"
  /\ batches[e] = <<>>
  /\ Continue(p, [does |-> "updateExpense", locks |-> {},
                  expense |-> e, currency |-> currency, amount |-> amount])
  /\ UNCHANGED <<operation, shipment, line, expense, batches>>

UpdateExpense(p) ==
  LET r == request[p]
  IN  /\ r.does = "updateExpense"
      /\ FreeFor(p, ExpenseRow(r.expense))
      /\ expense' = [expense EXCEPT ![r.expense].currency = r.currency,
                                    ![r.expense].amount = r.amount]
      /\ Commit(p)
      /\ UNCHANGED <<operation, shipment, line, batches>>

FinalizeExpense(e) ==
  /\ Free(ExpenseRow(e))
  /\ expense[e].status = "DRAFT"
  /\ expense' = [expense EXCEPT ![e].status = "FINALIZED", ![e].finalized = TRUE]
  /\ UNCHANGED <<operation, shipment, line, batches, request>>

\* The CHECK import_expenses_finalized_consistency.
FinalizedConsistency(x) == (x.status = "FINALIZED") = x.finalized

\* Mutated form: the batches of the expense are not counted.
CancelWithBatches(e) ==
  /\ Free(ExpenseRow(e))
  /\ expense[e].status \in {"DRAFT", "FINALIZED"}
  /\ expense' = [expense EXCEPT ![e].status = "CANCELLED"]
  /\ FinalizedConsistency(expense'[e])
  /\ UNCHANGED <<operation, shipment, line, batches, request>>

\* cancel(), for a DRAFT or a FINALIZED; it leaves the date of finalization.
CancelExpense(e) ==
  /\ Free(ExpenseRow(e))
  /\ expense[e].status \in {"DRAFT", "FINALIZED"}
  /\ batches[e] = <<>>
  /\ expense' = [expense EXCEPT ![e].status = "CANCELLED"]
  /\ FinalizedConsistency(expense'[e])
  /\ UNCHANGED <<operation, shipment, line, batches, request>>

\* sumActiveBatches
Assigned(e) == Total([k \in DOMAIN batches[e] |-> batches[e][k].requested])

\* Mutated form: the expense is read and not locked.
BeginAllocateUnlocked(p, e, key, amount, method, ls) ==
  /\ request[p] = Idle
  /\ expense[e].status \in {"DRAFT", "FINALIZED"}
  /\ \A k \in DOMAIN batches[e] : key = NoExpenseKey \/ batches[e][k].key # key
  /\ Assigned(e) + amount <= expense[e].amount
  /\ Continue(p, [does |-> "allocate", locks |-> {}, expense |-> e,
                  key |-> key, amount |-> amount, method |-> method, lines |-> ls])
  /\ UNCHANGED <<operation, shipment, line, expense, batches>>

\* allocate() under the lock of the expense.  A key that has a batch answers
\* that batch and changes nothing.
BeginAllocate(p, e, key, amount, method, ls) ==
  /\ request[p] = Idle
  /\ Free(ExpenseRow(e))
  /\ expense[e].status \in {"DRAFT", "FINALIZED"}
  /\ \A k \in DOMAIN batches[e] : key = NoExpenseKey \/ batches[e][k].key # key
  /\ Assigned(e) + amount <= expense[e].amount
  /\ Continue(p, [does |-> "allocate", locks |-> ExpenseRow(e), expense |-> e,
                  key |-> key, amount |-> amount, method |-> method, lines |-> ls])
  /\ UNCHANGED <<operation, shipment, line, expense, batches>>

\* assertLinesEligible
Eligible(o, ls) ==
  /\ ls \subseteq DOMAIN line
  /\ \A l \in ls : LET s == shipment[line[l].shipment]
                   IN  s.operation = o /\ s.status # "CANCELLED"

\* lockEligibleLines: the lines are locked, their shipments are only read.
LockLines(p) ==
  LET r == request[p]
  IN  /\ r.does = "allocate"
      /\ FreeFor(p, LineRows(r.lines))
      /\ Eligible(expense[r.expense].operation, r.lines)
      /\ Continue(p, [r EXCEPT !.does = "insertBatch", !.locks = @ \cup LineRows(r.lines)])
      /\ UNCHANGED <<operation, shipment, line, expense, batches>>

\* resolveWeightForMethod
Weight(method, l) == IF method = "QUANTITY" THEN line[l].planned ELSE line[l][method]

\* computeAllocationLines: what the client says, if it adds up, or the shares in
\* proportion to a base that every line has and is not zero.
AllocationShares(method, amount, ls) ==
  IF method = "MANUAL"
  THEN {f \in [ls -> 1..amount] : Total(f) = amount}
  ELSE LET weight == [l \in ls |-> Weight(method, l)]
       IN  IF (\E l \in ls : weight[l] = Unmeasured) \/ Total(weight) = 0
           THEN {} ELSE {Proportional(weight, amount)}

\* The CHECK import_expense_allocations_amount_positive.
AmountsPositive(shares) == \A l \in DOMAIN shares : shares[l] > 0

InsertBatch(p) ==
  LET r == request[p]
  IN  /\ r.does = "insertBatch"
      /\ \E shares \in AllocationShares(r.method, r.amount, r.lines) :
           /\ AmountsPositive(shares)
           /\ batches' = [batches EXCEPT ![r.expense] =
                Append(@, [key |-> r.key, requested |-> r.amount, shares |-> shares])]
      /\ Commit(p)
      /\ UNCHANGED <<operation, shipment, line, expense>>

-----------------------------------------------------------------------------
(* What module ImportReceiptLinks does to these rows: receipts are linked to a *)
(* line that has arrived, up to its quantity, and unlinked.                    *)

LinkReceipts(l, quantity) ==
  /\ shipment[line[l].shipment].status = "ARRIVED"
  /\ Total(line[l].links) + quantity <= line[l].planned
  /\ line' = [line EXCEPT ![l].links = Append(@, quantity)]
  /\ UNCHANGED <<operation, shipment, expense, batches, request>>

UnlinkReceipts(l, k) ==
  /\ line' = [line EXCEPT ![l].links = SubSeq(@, 1, k - 1) \o SubSeq(@, k + 1, Len(@))]
  /\ UNCHANGED <<operation, shipment, expense, batches, request>>

-----------------------------------------------------------------------------
\* A transaction that does not commit leaves nothing behind.
RollBackCosts(p) ==
  /\ request[p] # Idle
  /\ Commit(p)
  /\ UNCHANGED <<operation, shipment, line, expense, batches>>

NextOperation ==
  \E o \in Operations : CreateOperation(o) \/ CompleteOperation(o) \/ CancelOperation(o)

NextShipment ==
  \/ \E p \in Importers, content \in Contents :
       \/ \E o \in Operations : BeginShipment(p, o, content)
       \/ \E s \in Shipments : BeginReplace(p, s, content)
  \/ \E p \in Importers, s \in Shipments : CreateShipment(p, s) \/ BeginCancelShipment(p, s)
  \/ \E p \in Importers : DeleteLines(p) \/ InsertLines(p) \/ CommitCancelShipment(p)
  \/ \E s \in Shipments : Depart(s) \/ Arrive(s)

NextExpense ==
  \/ \E e \in Expenses, c \in Currencies, a \in ExpenseAmounts :
       \/ \E o \in Operations : CreateExpense(e, o, c, a)
       \/ \E p \in Importers : BeginUpdateExpense(p, e, c, a)
  \/ \E p \in Importers, e \in Expenses, m \in Methods, a \in Portions :
       \E k \in ExpenseKeys \cup {NoExpenseKey}, ls \in (SUBSET DOMAIN line) \ {{}} :
         Len(batches[e]) < MaxBatches /\ BeginAllocate(p, e, k, a, m, ls)
  \/ \E e \in Expenses : FinalizeExpense(e) \/ CancelExpense(e)
  \/ \E p \in Importers : UpdateExpense(p) \/ LockLines(p) \/ InsertBatch(p)

NextLink ==
  \E l \in DOMAIN line :
    \/ \E quantity \in 1..line[l].planned : LinkReceipts(l, quantity)
    \/ \E k \in DOMAIN line[l].links : UnlinkReceipts(l, k)

CostsNext ==
  NextOperation \/ NextShipment \/ NextExpense \/ NextLink \/ \E p \in Importers : RollBackCosts(p)

CostsSpec == CostsInit /\ [][CostsNext]_costVars

-----------------------------------------------------------------------------
(* The lines of an invoice are never shipped twice: whatever shipments are     *)
(* created, edited and cancelled at once, those that are not cancelled plan at *)
(* most the quantity invoiced (resolveAndValidateLines).                       *)
NeverOverShipped == \A i \in Items : Shipped(i, {}) <= Invoiced[i]

(* A completed operation has nothing under way: no shipment slips in while it  *)
(* is being completed (complete, create).                                      *)
CompletedIsOver ==
  \A o \in Operations : operation[o] = "COMPLETED" =>
    \A s \in ShipmentsOf(o) : shipment[s].status \in {"ARRIVED", "CANCELLED"}

(* What an expense has been charged to stands: every batch is shared out to    *)
(* the cent among lines that still exist and belong to the operation of the    *)
(* expense, and an expense that has any is not cancelled (allocate, cancel and *)
(* the replacement of lines, at once).                                         *)
BatchesStand ==
  \A e \in Expenses : \A k \in DOMAIN batches[e] :
    LET b == batches[e][k]
    IN  /\ expense[e].status # "CANCELLED"
        /\ Total(b.shares) = b.requested
        /\ \A l \in DOMAIN b.shares :
             /\ l \in DOMAIN line
             /\ shipment[line[l].shipment].operation = expense[e].operation

(* No batch is added beyond the amount that the expense has at that moment,    *)
(* nor a second one for the same key, however many are asked for at once       *)
(* (allocate).                                                                 *)
AllocationFits ==
  [][\A e \in Expenses : Len(batches'[e]) > Len(batches[e]) =>
       /\ Assigned(e)' <= expense[e].amount
       /\ \A j, k \in DOMAIN batches'[e] :
            j # k /\ batches'[e][j].key # NoExpenseKey => batches'[e][j].key # batches'[e][k].key]_costVars

(* An expense without allocations can be cancelled while it is a draft and     *)
(* after it has been finalized ("DRAFT o FINALIZED -> CANCELLED").             *)
FinalizedMayBeCancelled ==
  \A e \in Expenses :
    expense[e].status = "FINALIZED" /\ batches[e] = <<>> /\ Free(ExpenseRow(e)) =>
      ENABLED CancelExpense(e)
=============================================================================
