--------------------------- MODULE StockValuation ---------------------------
(***************************************************************************)
(* Physical stock (StockMovementEngine), its value                         *)
(* (InventoryValuationEngine) and the documents that move both: the        *)
(* receipts of a purchase invoice (PurchaseReceiptsService), which bring   *)
(* value in, and sales (SalesService), which take it out at the moving     *)
(* average as cost of goods sold, with the cancellations of each.          *)
(*                                                                         *)
(* Identifiers of products and of invoice lines are numbers, because the   *)
(* order in which rows are locked depends on theirs.  Amounts are cents.   *)
(***************************************************************************)
EXTENDS Integers, FiniteSets, FiniteSetsExt, Functions

CONSTANTS
  Products,
  Valued,         \* products with a valuationMethod
  AccountOf,      \* the inventory account each product was bought into
  Lines,          \* the lines of the one purchase invoice, all eligible
  LineProduct, LineQuantity,
  LineAmount,     \* taxable base and the tax that is not credited, per line
  Receipts,       \* idempotency keys of receipts
  Sales,
  Requests, NoRequest,
  MaxStock,       \* MAX_STOCK_VALUE
  Lot,            \* how many units a quantity of 1 stands for
  MaxManual       \* bound on the net of manual movements of each product, for
                  \* the model checker only

ASSUME StockValuationAssumption ==
  /\ Products \subseteq Nat /\ Lines \subseteq Nat
  /\ IsFiniteSet(Products) /\ IsFiniteSet(Lines) /\ IsFiniteSet(Receipts) /\ IsFiniteSet(Sales)
  /\ Valued \subseteq Products
  /\ LineProduct \in [Lines -> Products]
  /\ LineQuantity \in [Lines -> Nat \ {0}]
  /\ LineAmount \in [Lines -> Nat]
  /\ MaxStock \in Nat /\ Lot \in Nat \ {0}
  /\ MaxManual \in [Products -> Nat]
  /\ NoRequest \notin Requests
  /\ Receipts \cap Sales = {}

VARIABLES
  stock,         \* products.stock_current
  manual,        \* the net quantity of manual movements of each product
  invoice,       \* the status of the purchase invoice
  receipts,      \* purchase_receipts with their lines
  sales,         \* sales with their items
  valuations,    \* inventory_valuations, append-only
  cogs,          \* the entries of cost of goods sold, append-only
  productLock, invoiceLock,
  docLock,       \* who has locked each receipt or sale
  pc, reqDoc, reqQty,
  reqPrior,      \* what a request read as already received of each line
  reqSeen        \* the stock and the pool that it read of each product it locked

rows  == <<stock, manual, invoice, receipts, sales, valuations, cogs>>
locks == <<productLock, invoiceLock, docLock>>
reqs  == <<pc, reqDoc, reqQty, reqPrior, reqSeen>>
vars  == <<rows, locks, reqs>>

Docs == Receipts \cup Sales
None == [x \in {} |-> 0]
Total(f, S) == SumFunction(Restrict(f, S))

\* Quantities per line or per product, of some of them and at least one.
Quantities(S, max) ==
  {q \in UNION {[T -> 1..max] : T \in SUBSET S} : q # None}
Document(S, max) ==
  [status : {"ACTIVE", "CANCELLED"}, qty : Quantities(S, max)]
NoDocument == [status |-> "NONE", qty |-> None]

MaxLine == IF Lines = {} THEN 0 ELSE Max({LineQuantity[l] : l \in Lines})

Init ==
  /\ stock = [p \in Products |-> 0]
  /\ manual = [p \in Products |-> 0]
  /\ invoice = "CONFIRMED"
  /\ receipts = [d \in Receipts |-> NoDocument]
  /\ sales = [d \in Sales |-> NoDocument]
  /\ valuations = {}
  /\ cogs = {}
  /\ productLock = [p \in Products |-> NoRequest]
  /\ invoiceLock = NoRequest
  /\ docLock = [d \in Docs |-> NoRequest]
  /\ pc = [r \in Requests |-> "idle"]
  /\ reqDoc = [r \in Requests |-> {}]
  /\ reqQty = [r \in Requests |-> None]
  /\ reqPrior = [r \in Requests |-> None]
  /\ reqSeen = [r \in Requests |-> None]

-----------------------------------------------------------------------------
(* InventoryValuation: rows, pool and costs *)

Row(doc, item, product, event, quantity, cost) ==
  [doc |-> doc, item |-> item, product |-> product, event |-> event,
   quantity |-> quantity, cost |-> cost]

\* valuationEventSign: what enters the stock adds to the pool.
Sign(row) == IF (row.doc \in Receipts) = (row.event = "ORIGINAL") THEN 1 ELSE -1

\* computeCurrentPool
Pool(p, table) ==
  LET ofProduct == {row \in table : row.product = p}
  IN  [quantity |-> SumFunction([row \in ofProduct |-> Sign(row) * row.quantity]),
       value    |-> SumFunction([row \in ofProduct |-> Sign(row) * row.cost])]

\* ROUND_HALF_UP of n / d, for d > 0: halves go away from zero.
HalfUp(n, d) ==
  IF n >= 0 THEN (2 * n + d) \div (2 * d) ELSE -((2 * (-n) + d) \div (2 * d))

ReceivedOf(d, l) == IF l \in DOMAIN receipts[d].qty THEN receipts[d].qty[l] ELSE 0
ActiveReceipts == {d \in Receipts : receipts[d].status = "ACTIVE"}
Received(l) == SumFunction([d \in ActiveReceipts |-> ReceivedOf(d, l)])

\* What active receipts have already capitalized of a line.
Capitalized(l) ==
  SumFunction([row \in {row \in valuations :
                         /\ row.event = "ORIGINAL"
                         /\ row.doc \in ActiveReceipts /\ row.item = l} |-> row.cost])

\* Mutated form: each receipt takes its own share, rounded by itself.
IsolatedCost(l, prior, quantity) ==
  HalfUp(LineAmount[l] * quantity, LineQuantity[l])

\* computeReceiptValuationCost: what the line is worth up to this receipt, less
\* what is capitalized already; the receipt that completes it takes the rest.
ReceiptCost(l, prior, quantity) ==
  LET reached == prior + quantity
      target  == IF reached >= LineQuantity[l] THEN LineAmount[l]
                 ELSE HalfUp(LineAmount[l] * reached, LineQuantity[l])
  IN  Max({target - Capitalized(l), 0})

\* The decimals that a unit cost has beyond cents.
UnitScale == 10000

\* The weighted average of computeWeightedAverage, rounded to six decimals, times
\* the quantity, rounded to cents.
AverageCost(pool, quantity) ==
  LET unitCost == HalfUp(pool.value * UnitScale, pool.quantity * Lot)
  IN  HalfUp(unitCost * quantity * Lot, UnitScale)

\* computeSaleConsumptionCost: a sale that empties the pool takes its whole value.
ConsumptionCost(pool, quantity) ==
  IF quantity = pool.quantity THEN pool.value ELSE AverageCost(pool, quantity)

\* Mutated form: what a document took is put back at today's average.
ReversalsAtAverage(r, d) ==
  {Row(d, row.item, row.product, "REVERSAL", row.quantity,
       IF reqSeen[r][row.product].quantity = 0 THEN row.cost
       ELSE AverageCost(reqSeen[r][row.product], row.quantity))
     : row \in {row \in valuations : row.doc = d}}

\* reverseForReceiptLine and reverseForSaleItem copy the original's amounts.
Reversals(r, d) ==
  {Row(d, row.item, row.product, "REVERSAL", row.quantity, row.cost)
     : row \in {row \in valuations : row.doc = d /\ row.event = "ORIGINAL"}}

-----------------------------------------------------------------------------
(* Transactions *)

Goto(r, place) == pc' = [pc EXCEPT ![r] = place]

Begin(r, place, d, qty) ==
  /\ pc[r] = "idle"
  /\ Goto(r, place)
  /\ reqDoc' = [reqDoc EXCEPT ![r] = {d}]
  /\ reqQty' = [reqQty EXCEPT ![r] = qty]

Free(lock, r) == [x \in DOMAIN lock |-> IF lock[x] = r THEN NoRequest ELSE lock[x]]

EndTransaction(r) ==
  /\ productLock' = Free(productLock, r)
  /\ docLock' = Free(docLock, r)
  /\ invoiceLock' = IF invoiceLock = r THEN NoRequest ELSE invoiceLock
  /\ Goto(r, "idle")
  /\ reqDoc' = [reqDoc EXCEPT ![r] = {}]
  /\ reqQty' = [reqQty EXCEPT ![r] = None]
  /\ reqPrior' = [reqPrior EXCEPT ![r] = None]
  /\ reqSeen' = [reqSeen EXCEPT ![r] = None]

InReceipt == {"receiving", "unreceiving"}
InSale    == {"selling", "unselling"}

ProductOf(r, item) == IF pc[r] \in InReceipt THEN LineProduct[item] ELSE item
ProductsOf(r) == {ProductOf(r, item) : item \in DOMAIN reqQty[r]}
QuantityOf(r, p) == Total(reqQty[r], {item \in DOMAIN reqQty[r] : ProductOf(r, item) = p})

\* Items whose product is not locked yet, and the product that comes next:
\* a receipt follows the order of the lines of the invoice, a cancelled receipt
\* no order at all, and a sale the order of its products.
Pending(r) == {item \in DOMAIN reqQty[r] : ProductOf(r, item) \notin DOMAIN reqSeen[r]}
NextProducts(r) ==
  IF Pending(r) = {} THEN {}
  ELSE IF pc[r] = "unreceiving" THEN {ProductOf(r, item) : item \in Pending(r)}
  ELSE {ProductOf(r, Min(Pending(r)))}

\* What a request has read of its products, and now of p: its stock and its pool.
Seeing(r, p) ==
  LET pool == Pool(p, valuations)
  IN  [q \in DOMAIN reqSeen[r] \cup {p} |->
         IF q = p THEN [stock |-> stock[p], quantity |-> pool.quantity, value |-> pool.value]
         ELSE reqSeen[r][q]]

\* Mutated form: the product is read without a lock.
ReadProduct(r, p) ==
  /\ p \in NextProducts(r)
  /\ reqSeen' = [reqSeen EXCEPT ![r] = Seeing(r, p)]
  /\ UNCHANGED <<rows, locks, pc, reqDoc, reqQty, reqPrior>>

\* SELECT ... FOR UPDATE of a product; its stock and its pool are read behind it.
LockProduct(r, p) ==
  /\ p \in NextProducts(r)
  /\ productLock[p] = NoRequest
  /\ productLock' = [productLock EXCEPT ![p] = r]
  /\ reqSeen' = [reqSeen EXCEPT ![r] = Seeing(r, p)]
  /\ UNCHANGED <<rows, invoiceLock, docLock, pc, reqDoc, reqQty, reqPrior>>

Ready(r, place) == pc[r] = place /\ Pending(r) = {}

\* StockMovementEngine.apply() on every product of the document
MoveStock(r, sign) ==
  LET moved == [p \in ProductsOf(r) |-> reqSeen[r][p].stock + sign * QuantityOf(r, p)]
  IN  /\ \A p \in ProductsOf(r) : moved[p] \in 0..MaxStock
      /\ stock' = [p \in Products |-> IF p \in ProductsOf(r) THEN moved[p] ELSE stock[p]]

\* InventoryService: entries, exits and adjustments, a transaction each.  An
\* initial balance is an entry that needs a stock of zero and no movement yet.
\* No manual movement touches the pool.
MoveManually(p, n) ==
  /\ productLock[p] = NoRequest
  /\ stock[p] + n \in 0..MaxStock
  /\ manual[p] + n \in -MaxManual[p]..MaxManual[p]
  /\ stock' = [stock EXCEPT ![p] = @ + n]
  /\ manual' = [manual EXCEPT ![p] = @ + n]
  /\ UNCHANGED <<invoice, receipts, sales, valuations, cogs, locks, reqs>>

-----------------------------------------------------------------------------
(* PurchaseReceiptsService *)

\* create(): the invoice and its lines are locked, and what was received of
\* them is read.  A key that has a receipt answers it and does nothing.
BeginReceipt(r, d, qty) ==
  /\ Begin(r, "receiving", d, qty)
  /\ invoiceLock = NoRequest
  /\ invoiceLock' = r
  /\ invoice = "CONFIRMED"
  /\ receipts[d] = NoDocument
  /\ \A l \in DOMAIN qty : Received(l) + qty[l] <= LineQuantity[l]
  /\ reqPrior' = [reqPrior EXCEPT ![r] = [l \in DOMAIN qty |-> Received(l)]]
  /\ UNCHANGED <<rows, productLock, docLock, reqSeen>>

\* recordOriginal on every line: none for a product without valuation, nor for
\* a cost of zero.
CommitReceipt(r) ==
  /\ Ready(r, "receiving")
  /\ MoveStock(r, 1)
  /\ \E d \in reqDoc[r] :
       LET qty == reqQty[r]
           cost(l) == ReceiptCost(l, reqPrior[r][l], qty[l])
       IN  /\ receipts' = [receipts EXCEPT ![d] = [status |-> "ACTIVE", qty |-> qty]]
           /\ valuations' = valuations \cup
                {Row(d, l, LineProduct[l], "ORIGINAL", qty[l], cost(l))
                   : l \in {l \in DOMAIN qty : LineProduct[l] \in Valued /\ cost(l) > 0}}
  /\ EndTransaction(r)
  /\ UNCHANGED <<manual, invoice, sales, cogs>>

\* cancel(): the receipt is locked, the invoice is not.
BeginCancelReceipt(r, d) ==
  /\ Begin(r, "unreceiving", d, receipts[d].qty)
  /\ docLock[d] = NoRequest
  /\ docLock' = [docLock EXCEPT ![d] = r]
  /\ receipts[d].status = "ACTIVE"
  /\ UNCHANGED <<rows, productLock, invoiceLock, reqPrior, reqSeen>>

CommitCancelReceipt(r) ==
  /\ Ready(r, "unreceiving")
  /\ MoveStock(r, -1)
  /\ \E d \in reqDoc[r] :
       /\ \A p \in ProductsOf(r) :
            reqSeen[r][p].quantity >=
              SumFunction([row \in {row \in Reversals(r, d) : row.product = p} |-> row.quantity])
       /\ receipts' = [receipts EXCEPT ![d].status = "CANCELLED"]
       /\ valuations' = valuations \cup Reversals(r, d)
  /\ EndTransaction(r)
  /\ UNCHANGED <<manual, invoice, sales, cogs>>

\* PurchaseInvoicesService.cancel()
CancelInvoice ==
  /\ invoiceLock = NoRequest
  /\ invoice = "CONFIRMED"
  /\ ActiveReceipts = {}
  /\ invoice' = "CANCELLED"
  /\ UNCHANGED <<stock, manual, receipts, sales, valuations, cogs, locks, reqs>>

-----------------------------------------------------------------------------
(* SalesService, as far as stock and its cost are concerned *)

BeginSale(r, d, qty) ==
  /\ sales[d] = NoDocument
  /\ Begin(r, "selling", d, qty)
  /\ UNCHANGED <<rows, locks, reqPrior, reqSeen>>

Entry(sale, event, amount) == [sale |-> sale, event |-> event, amount |-> amount]

\* applyOutboundMovements: the pool must have the quantity; the amount of each
\* inventory account must be positive for the entry to balance, and costs are
\* not negative (a CHECK of the table).
CommitSale(r) ==
  LET qty    == reqQty[r]
      costed == DOMAIN qty \cap Valued
      cost   == [p \in costed |-> ConsumptionCost(reqSeen[r][p], qty[p])]
  IN  /\ Ready(r, "selling")
      /\ MoveStock(r, -1)
      /\ \A p \in costed : reqSeen[r][p].quantity >= qty[p] /\ cost[p] >= 0
      /\ \A p \in costed : Total(cost, {q \in costed : AccountOf[q] = AccountOf[p]}) > 0
      /\ \E d \in reqDoc[r] :
           /\ sales[d] = NoDocument
           /\ sales' = [sales EXCEPT ![d] = [status |-> "ACTIVE", qty |-> qty]]
           /\ valuations' = valuations \cup
                {Row(d, p, p, "ORIGINAL", qty[p], cost[p]) : p \in costed}
           /\ cogs' = cogs \cup
                (IF costed = {} THEN {} ELSE {Entry(d, "ORIGINAL", Total(cost, costed))})
      /\ EndTransaction(r)
      /\ UNCHANGED <<manual, invoice, receipts>>

BeginCancelSale(r, d) ==
  /\ Begin(r, "unselling", d, sales[d].qty)
  /\ docLock[d] = NoRequest
  /\ docLock' = [docLock EXCEPT ![d] = r]
  /\ sales[d].status = "ACTIVE"
  /\ UNCHANGED <<rows, productLock, invoiceLock, reqPrior, reqSeen>>

\* reverseOriginalForSource, if the sale has an entry
CogsReversals(d) ==
  {Entry(d, "REVERSAL", e.amount) : e \in {e \in cogs : e.sale = d}}

CommitCancelSale(r) ==
  /\ Ready(r, "unselling")
  /\ MoveStock(r, 1)
  /\ \E d \in reqDoc[r] :
       /\ sales' = [sales EXCEPT ![d].status = "CANCELLED"]
       /\ valuations' = valuations \cup Reversals(r, d)
       /\ cogs' = cogs \cup CogsReversals(d)
  /\ EndTransaction(r)
  /\ UNCHANGED <<manual, invoice, receipts>>

\* A failed check, a deadlock that the database breaks, a lost connection.
RollBack(r) ==
  /\ pc[r] # "idle"
  /\ EndTransaction(r)
  /\ UNCHANGED rows

-----------------------------------------------------------------------------
Next ==
  \/ \E p \in Products, n \in {-1, 1} : MoveManually(p, n)
  \/ CancelInvoice
  \/ \E r \in Requests :
       \/ \E d \in Receipts, qty \in Quantities(Lines, MaxLine) : BeginReceipt(r, d, qty)
       \/ \E d \in Receipts : BeginCancelReceipt(r, d)
       \/ \E d \in Sales, qty \in Quantities(Products, MaxStock) : BeginSale(r, d, qty)
       \/ \E d \in Sales : BeginCancelSale(r, d)
       \/ \E p \in Products : LockProduct(r, p)
       \/ CommitReceipt(r)
       \/ CommitCancelReceipt(r)
       \/ CommitSale(r)
       \/ CommitCancelSale(r)
       \/ RollBack(r)

Spec == Init /\ [][Next]_vars

-----------------------------------------------------------------------------
(* Properties *)

\* Rows, locks and requests have the shape the schema and the code give them;
\* in particular no stock is negative or above its maximum.
TypeOK ==
  /\ stock \in [Products -> 0..MaxStock]
  /\ \A p \in Products : manual[p] \in -MaxManual[p]..MaxManual[p]
  /\ invoice \in {"CONFIRMED", "CANCELLED"}
  /\ receipts \in [Receipts -> Document(Lines, MaxLine) \cup {NoDocument}]
  /\ sales \in [Sales -> Document(Products, MaxStock) \cup {NoDocument}]
  /\ \A row \in valuations :
       /\ row.doc \in Docs /\ row.product \in Valued
       /\ row.event \in {"ORIGINAL", "REVERSAL"}
       /\ row.quantity \in Nat \ {0} /\ row.cost \in Nat
  /\ \A e \in cogs : e.sale \in Sales /\ e.amount \in Nat \ {0}
  /\ productLock \in [Products -> Requests \cup {NoRequest}]
  /\ invoiceLock \in Requests \cup {NoRequest}
  /\ docLock \in [Docs -> Requests \cup {NoRequest}]
  /\ pc \in [Requests -> {"idle"} \cup InReceipt \cup InSale]
  /\ reqDoc \in [Requests -> SUBSET Docs]

ActiveQuantity(docs, p) ==
  SumFunction([d \in DOMAIN docs |->
                 IF docs[d].status = "ACTIVE" /\ p \in DOMAIN docs[d].qty
                 THEN docs[d].qty[p] ELSE 0])

\* The stock of a product is what its active documents and its manual movements
\* say: no movement is lost or applied twice, whatever runs at the same time.
\* And no more is received of a line than an invoice that stands says, over all
\* its receipts: nothing when it is cancelled, not even by a receipt that was
\* under way then.
StockMatchesDocuments ==
  /\ \A p \in Products :
       stock[p] = manual[p] - ActiveQuantity(sales, p)
                  + SumFunction([l \in {l \in Lines : LineProduct[l] = p} |-> Received(l)])
  /\ \A l \in Lines : Received(l) <= IF invoice = "CANCELLED" THEN 0 ELSE LineQuantity[l]

\* Over any partial receipts, cancellations and rounding, a line is never
\* capitalized beyond what was paid for it, and exactly that when it is
\* complete.
LineCapitalizedExactly ==
  \A l \in Lines : LineProduct[l] \in Valued =>
    /\ Capitalized(l) <= LineAmount[l]
    /\ Received(l) = LineQuantity[l] => Capitalized(l) = LineAmount[l]

StatusOf(d) == IF d \in Receipts THEN receipts[d].status ELSE sales[d].status

\* The pool of a product is what its active documents brought in and took out,
\* in quantity and in value, and its quantity is never negative: cancelled
\* documents leave nothing behind.
PoolMatchesDocuments ==
  \A p \in Products :
    /\ Pool(p, valuations) =
         Pool(p, {row \in valuations : row.event = "ORIGINAL" /\ StatusOf(row.doc) = "ACTIVE"})
    /\ Pool(p, valuations).quantity >= 0

\* The ledger's cost of goods sold is the value that sales took from the pools,
\* sale by sale.
CogsMatchesConsumption ==
  \A d \in Sales :
    SumFunction([row \in {row \in valuations : row.doc = d} |-> -Sign(row) * row.cost])
    = SumFunction([e \in {e \in cogs : e.sale = d} |->
                     IF e.event = "ORIGINAL" THEN e.amount ELSE -e.amount])

\* Neither the pools nor the ledger drift from the documents, whatever is
\* received, sold and cancelled in whatever order.
ValuationMatchesDocuments == PoolMatchesDocuments /\ CogsMatchesConsumption

\* A sale that takes the last valued unit of a product takes its last cent too.
EmptiesValue ==
  \A row \in valuations' \ valuations :
    row.doc \in Sales /\ row.event = "ORIGINAL" /\ Pool(row.product, valuations').quantity = 0
      => Pool(row.product, valuations').value = 0
DepletionTakesAllValue == [][EmptiesValue]_vars


=============================================================================
