---------------------------- MODULE ImportReports ----------------------------
(***************************************************************************)
(* The reports on imports (ImportReportsService) and the preview of the    *)
(* attribution of an allocation, as functions of the rows of ImportCosts.  *)
(* Each report is read in one transaction at REPEATABLE READ, so that it   *)
(* sees one state: as a list, cut in pages, or as an export of all of it.  *)
(*                                                                         *)
(* A filter of a query is a set, empty when it is not given.               *)
(***************************************************************************)
EXTENDS ImportCosts, SequencesExt

CONSTANT CompanyCurrency

\* The rows of a table, which are counted and summed.
ASSUME ImportReportsAssumption == IsFiniteSet(Operations) /\ IsFiniteSet(Expenses)

NotNegative(n) == IF n < 0 THEN 0 ELSE n

-----------------------------------------------------------------------------
(* Quantities: shipments against receipts. *)

ReceivedOf(l) == Total(line[l].links)

\* loadOperationContext and buildShipmentLineWhere leave cancelled shipments out.
CargoOf(o) ==
  {l \in DOMAIN line : LET s == shipment[line[l].shipment]
                       IN  s.operation = o /\ s.status # "CANCELLED"}

\* buildCargoByUnit, of goods of one unit.
Cargo(o) ==
  LET planned  == Total([l \in CargoOf(o) |-> line[l].planned])
      received == Total([l \in CargoOf(o) |-> ReceivedOf(l)])
  IN  [planned |-> planned, received |-> received, unlinked |-> NotNegative(planned - received)]

CountByStatus(o) ==
  [status \in {"PLANNED", "IN_TRANSIT", "ARRIVED", "CANCELLED"} |->
     Cardinality({s \in ShipmentsOf(o) : shipment[s].status = status})]

\* relatedPurchaseInvoices, by their lines.
RelatedItems(o) == {line[l].item : l \in CargoOf(o)} \ {NoItem}

\* buildReconciliationRow; receipts of another product or invoice line are
\* refused by ImportReceiptLinks.
Discrepancies(l) ==
  LET arrived   == shipment[line[l].shipment].status = "ARRIVED"
      remaining == line[l].planned - ReceivedOf(l)
  IN  {c \in {"QUANTITY_EXCEEDS_SHIPPED"} : remaining < 0} \cup
      {c \in {"PARTIAL_RECEIPT_LINKAGE"} : arrived /\ remaining > 0 /\ ReceivedOf(l) > 0} \cup
      {c \in {"ARRIVED_WITH_UNLINKED_CARGO"} : arrived /\ remaining > 0 /\ ReceivedOf(l) = 0} \cup
      {c \in {"MISSING_PURCHASE_INVOICE_LINK"} : arrived /\ line[l].item = NoItem}

WithDiscrepancies(ls) == {l \in ls : Discrepancies(l) # {}}

\* collectDiscrepancyCodes
Codes(ls) == UNION {Discrepancies(l) : l \in ls}

\* buildShipmentLineWhere: a status that is asked for takes the place of the
\* condition that shipments are not cancelled.
LinesShown(query) ==
  {l \in DOMAIN line : LET s == shipment[line[l].shipment]
                       IN  /\ query.operation \in {{}, {s.operation}}
                           /\ IF query.status = {} THEN s.status # "CANCELLED"
                              ELSE query.status = {s.status}}

\* The rows that skip and take keep, of rows in some order.
Rows(R, page, limit) ==
  SubSeq(SetToSeq(R), (page - 1) * limit + 1, Min({page * limit, Cardinality(R)}))

\* getShipmentReconciliation: what is left of the discrepancies is cut in pages,
\* or else the lines are.
ShipmentPage(query, onlyWithDiscrepancies, page, limit) ==
  LET R == LinesShown(query)
  IN  Rows(IF onlyWithDiscrepancies THEN WithDiscrepancies(R) ELSE R, page, limit)

\* exportShipmentReconciliationXlsx
ShipmentExport(query, onlyWithDiscrepancies) ==
  {[line |-> l, operation |-> shipment[line[l].shipment].operation,
    planned |-> line[l].planned, linked |-> ReceivedOf(l), codes |-> Discrepancies(l)] :
     l \in {l \in LinesShown(query) : onlyWithDiscrepancies => Discrepancies(l) # {}}}

-----------------------------------------------------------------------------
(* Money: expenses, what is allocated and what the goods received carry. *)

\* The allocations of an expense, one by one.
AllocationsOf(e) ==
  UNION {{<<k, l>> : l \in DOMAIN batches[e][k].shares} : k \in DOMAIN batches[e]}

AmountOf(e, a) == batches[e][a[1]].shares[a[2]]

\* attributeAllocation: one share, against all that its line has received.
Attribute(amount, planned, received) ==
  IF planned = 0 THEN 0 ELSE Split(<<received>>, planned, amount).perKey[1]

\* The lines ls are those whose quantities the report has loaded.
Attributed(e, ls) ==
  Total([a \in AllocationsOf(e) |->
           IF a[2] \in ls THEN Attribute(AmountOf(e, a), line[a[2]].planned, ReceivedOf(a[2])) ELSE 0])

AllocatedTo(e) == Total([a \in AllocationsOf(e) |-> AmountOf(e, a)])

FinancialStatus(currency) ==
  IF currency # CompanyCurrency THEN "PENDING_FX" ELSE "PENDING_ACCOUNTING_POLICY"

\* Of an amount: what has been allocated and attributed of it, and what has not.
Shared(amount, allocated, attributed, financial) ==
  [total        |-> amount,
   allocated    |-> allocated,
   unallocated  |-> NotNegative(amount - allocated),
   attributed   |-> attributed,
   unattributed |-> NotNegative(allocated - attributed),
   financial    |-> financial]

\* buildExpenseReconciliationRow, with the quantities of the lines ls.
ExpenseReconciliation(e, ls) ==
  Shared(expense[e].amount, AllocatedTo(e), Attributed(e, ls),
         IF AllocatedTo(e) = 0 THEN "NONE" ELSE FinancialStatus(expense[e].currency))

\* loadLineQuantities, of the lines that some of the expenses are allocated to.
LinesOfAllocations(R) == UNION {{a[2] : a \in AllocationsOf(e)} : e \in R}

\* buildExpenseWhere
ExpensesShown(query) ==
  {e \in Expenses : /\ expense[e].status # "NONE"
                    /\ query.operation \in {{}, {expense[e].operation}}
                    /\ query.status \in {{}, {expense[e].status}}
                    /\ query.currency \in {{}, {expense[e].currency}}}

ExpensesOf(o, currency) ==
  ExpensesShown([operation |-> {o}, status |-> {}, currency |-> {currency}])

\* getExpenseReconciliation loads the quantities that its page needs, ...
ExpensePage(query, page, limit) ==
  LET R == Rows(ExpensesShown(query), page, limit)
  IN  [k \in DOMAIN R |-> ExpenseReconciliation(R[k], LinesOfAllocations(Range(R)))]

\* ... exportExpenseReconciliationXlsx those of all expenses.
ExpenseExport(query) ==
  LET R == ExpensesShown(query)
  IN  [e \in R |-> ExpenseReconciliation(e, LinesOfAllocations(R))]

\* buildExpensesByCurrency: the allocations of a cancelled expense would count,
\* its amount does not.
ExpensesByCurrency(o, currency) ==
  LET all   == ExpensesOf(o, currency)
      live  == {e \in all : expense[e].status # "CANCELLED"}
  IN  Shared(Total([e \in live |-> expense[e].amount]),
             Total([e \in all |-> AllocatedTo(e)]),
             Total([e \in all |-> Attributed(e, CargoOf(o))]),
             FinancialStatus(currency))

\* classifyReconciliation, in its order of precedence.
Classify(codes, aggregates) ==
  IF codes \cap {"QUANTITY_EXCEEDS_SHIPPED", "INCONSISTENT_PRODUCT_REFERENCE"} # {}
  THEN "DATA_INCONSISTENCY"
  ELSE IF codes \cap {"ARRIVED_WITH_UNLINKED_CARGO", "PARTIAL_RECEIPT_LINKAGE"} # {}
  THEN "PARTIAL_PENDING_OPERATIONAL_LINK"
  ELSE IF \E x \in aggregates : x.financial = "PENDING_FX" THEN "PENDING_FX"
  ELSE IF \E x \in aggregates : x.financial = "PENDING_ACCOUNTING_POLICY" /\ x.allocated > 0
  THEN "PENDING_ACCOUNTING_POLICY"
  ELSE "CONSISTENT"

CurrenciesOf(o) == {c \in Currencies : ExpensesOf(o, c) # {}}

Reconciliation(o) ==
  Classify(Codes(CargoOf(o)), {ExpensesByCurrency(o, c) : c \in CurrenciesOf(o)})

\* previewCostAttribution: the same share, split among the receipts of its line.
Preview(e, a) == Split(line[a[2]].links, line[a[2]].planned, AmountOf(e, a))

SummaryOf(o) ==
  [shipments |-> CountByStatus(o), cargo |-> Cargo(o), invoiced |-> RelatedItems(o),
   expenses  |-> [c \in CurrenciesOf(o) |-> ExpensesByCurrency(o, c)]]

\* buildOperationWhere
OperationsShown(query) ==
  {o \in Operations : /\ operation[o] # "NONE"
                      /\ query.operation \in {{}, {o}}
                      /\ query.status \in {{}, {operation[o]}}}

\* getOperationsSummary
SummaryPage(query, page, limit) ==
  LET R == Rows(OperationsShown(query), page, limit) IN [k \in DOMAIN R |-> SummaryOf(R[k])]

\* exportOperationsSummaryXlsx reads batches of operations, ...
SummaryRows(query) == [o \in OperationsShown(query) |-> SummaryOf(o)]

\* ... and writes a row per currency, an empty one if there is none.
PerCurrency(o, aggregates) ==
  IF DOMAIN aggregates = {}
  THEN {[operation |-> o, currency |-> "", total |-> 0, allocated |-> 0, attributed |-> 0]}
  ELSE {[operation |-> o, currency |-> c, total |-> aggregates[c].total,
         allocated |-> aggregates[c].allocated, attributed |-> aggregates[c].attributed] :
          c \in DOMAIN aggregates}

SummaryExport(query) ==
  LET rows == SummaryRows(query) IN UNION {PerCurrency(o, rows[o].expenses) : o \in DOMAIN rows}

\* getConsolidatedReconciliation: a page loses the operations of another status.
ReconciliationPage(query, status, page, limit) ==
  {o \in Range(Rows(OperationsShown(query), page, limit)) : status \in {{}, {Reconciliation(o)}}}

\* exportConsolidatedReconciliationXlsx: what it keeps of the batches, ...
ReconciliationRows(query, status) ==
  {o \in OperationsShown(query) : status \in {{}, {Reconciliation(o)}}}

\* ... and the rows that it writes.
ReconciliationExport(query, status) ==
  UNION {{[row |-> row, status |-> Reconciliation(o), codes |-> Codes(CargoOf(o))] :
            row \in PerCurrency(o, SummaryOf(o).expenses)} : o \in ReconciliationRows(query, status)}

-----------------------------------------------------------------------------
(* Properties *)

Query(o, c) == [operation |-> o, status |-> {}, currency |-> c]

\* The summary of an operation equals the sum of the rows of its expenses,
\* although each loads quantities of its own set of lines and treats cancelled
\* expenses in its own way; nothing is lost to a value cut off at zero as long as
\* no update of an expense overtook its allocation.
SummaryMatchesExpenses(o, c) ==
  LET x    == SummaryOf(o).expenses[c]
      rows == ExpenseExport(Query({o}, {c}))
      live == {e \in DOMAIN rows : expense[e].status # "CANCELLED"}
  IN  /\ x.attributed = Total([e \in DOMAIN rows |-> rows[e].attributed])
      /\ x.unattributed = Total([e \in DOMAIN rows |-> rows[e].unattributed])
      /\ x.attributed + x.unattributed = x.allocated
      /\ (\A e \in DOMAIN rows : Assigned(e) <= expense[e].amount) =>
           /\ x.allocated + x.unallocated = x.total
           /\ x.unallocated = Total([e \in live |-> rows[e].unallocated])

AttributedByReports(e, a) == Attribute(AmountOf(e, a), line[a[2]].planned, ReceivedOf(a[2]))

\* The preview of an allocation, which splits it receipt by receipt, differs from
\* what the reports attribute by a cent for each receipt at most.
PreviewMatchesReports(e, a) ==
  LET byReceipt == Total(Preview(e, a).perKey)
  IN  /\ byReceipt + Preview(e, a).unattributed = AmountOf(e, a)
      /\ byReceipt - AttributedByReports(e, a) \in -Len(line[a[2]].links)..Len(line[a[2]].links)

\* A completed operation without a gap in its quantities has none in its money:
\* all that was allocated to goods of shipments that were not cancelled is
\* carried by what was received.
ReceivedCarriesAll(o) ==
  /\ operation[o] = "COMPLETED"
  /\ Reconciliation(o) \notin {"DATA_INCONSISTENCY", "PARTIAL_PENDING_OPERATIONAL_LINK"}
  => /\ SummaryOf(o).cargo.unlinked = 0
     /\ SummaryOf(o).shipments["PLANNED"] + SummaryOf(o).shipments["IN_TRANSIT"] = 0
     /\ {l \in WithDiscrepancies(CargoOf(o)) : line[l].item # NoItem} = {}
     /\ \A e \in Expenses : \A a \in AllocationsOf(e) :
          a[2] \in CargoOf(o) => AttributedByReports(e, a) = AmountOf(e, a)

\* The exports of one operation add up to the same: its money by currency and by
\* expense, its goods and their discrepancies by operation and by line.
ExportsMatch(o) ==
  LET all      == Query({o}, {})
      lines    == ShipmentExport(all, FALSE)
      expenses == ExpenseExport(all)
      both     == {SummaryExport(all), {x.row : x \in ReconciliationExport(all, {})}}
  IN  /\ \A rows \in both :
           /\ Total([x \in rows |-> x.allocated]) = Total([e \in DOMAIN expenses |-> expenses[e].allocated])
           /\ Total([x \in rows |-> x.attributed]) = Total([e \in DOMAIN expenses |-> expenses[e].attributed])
      /\ Total([x \in lines |-> x.linked]) = SummaryOf(o).cargo.received
      /\ \A x \in ReconciliationExport(all, {}) : x.codes = UNION {y.codes : y \in lines}

\* Someone who turns the pages of a list sees what its export has, also where a
\* filter empties part of a page after it was cut.
ListsMatchExports ==
  LET all == Query({}, {})
  IN  /\ UNION {Range(SummaryPage(all, k, 1)) : k \in 1..Cardinality(Operations)} = Range(SummaryRows(all))
      /\ UNION {Range(ExpensePage(all, k, 1)) : k \in 1..Cardinality(Expenses)} = Range(ExpenseExport(all))
      /\ \A only \in BOOLEAN :
           UNION {Range(ShipmentPage(all, only, k, 1)) : k \in 1..MaxLines}
             = {x.line : x \in ShipmentExport(all, only)}
      /\ \A status \in {{Reconciliation(o)} : o \in OperationsShown(all)} :
           UNION {ReconciliationPage(all, status, k, 1) : k \in 1..Cardinality(Operations)}
             = {x.row.operation : x \in ReconciliationExport(all, status)}

\* The reports tell one story.  They see what has been committed, so that it is
\* enough to look when nobody is writing: whoever is may be rolled back.
ReportsAgree ==
  (\A p \in Importers : request[p] = Idle) =>
  /\ \A o \in Operations : \A c \in CurrenciesOf(o) : SummaryMatchesExpenses(o, c)
  /\ \A e \in Expenses : \A a \in AllocationsOf(e) : PreviewMatchesReports(e, a)
  /\ \A o \in OperationsShown(Query({}, {})) : ReceivedCarriesAll(o) /\ ExportsMatch(o)
  /\ ListsMatchExports
=============================================================================
