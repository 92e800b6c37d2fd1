# Verification of the ERP backend

TLA+ models, TLC runs and TLAPS proofs for the backend in `src/` (NestJS,
Prisma, PostgreSQL): sales, quotes, payments, stock, electronic invoicing,
double-entry accounting, purchases, imports, the catalog, users and sessions.  Paths below are relative to
`src/src/` unless they say otherwise.

## 1. The system

Every operation is an HTTP request handled by a service method.  Nearly every
method that writes runs one interactive transaction (`prisma.$transaction`),
under PostgreSQL's default READ COMMITTED.  So:

- requests run concurrently and interleave **statement by statement**;
- a `SELECT ... FOR UPDATE`, an `UPDATE` or an `INSERT ... ON CONFLICT` takes
  row locks that are kept to the end of the transaction, and a reader without
  `FOR UPDATE` sees whatever is committed at that instant;
- a thrown exception (a 4xx answer, a lost connection, the timeout of an
  interactive transaction) rolls everything back;
- nothing serialises two requests except the row locks a method takes, the
  unique indexes and the CHECK constraints.

Hence the correctness of the system is mostly about **which rows each method
locks, in which order, and which facts it re-reads behind the lock**.  The one
operation that spans several transactions is the submission of a fiscal
document, which calls a provider between them.

### Components

| component (directory) | state | operations that change it | what makes it correct |
|---|---|---|---|
| Electronic invoicing (`electronic-invoicing`) | `electronic_documents`, `fiscal_series` | issue, retrySubmission | one live document per sale, gap-free numbers, never registered twice, agrees with the provider |
| Sales (`sales`) | `sales`, `sale_items`, delivery status | createDirect, createFromQuote, cancel, markDelivered, markObserved | stock, receivable and ledger move together; a cancelled sale leaves no trace but its history |
| Payments (`payments`, `payment-methods`) | `payments`, the sale's payment summary | register, cancel, cascade on sale cancellation | never more collected than the total; summary equals the active payments |
| Quotes (`quotes`) | `quotes` and items, status with effective expiry | create, update, accept, reject, conversion by a sale | converted at most once, never edited after that |
| Inventory (`inventory`) | `products.current_stock`, `inventory_movements` | StockMovementEngine.apply, manual movements | stock is the sum of its movements, never negative; locks in product order |
| Inventory valuation (`inventory-valuation`) | `inventory_valuations` (append-only pool) | recordOriginal, reverseForReceiptLine, recordSaleConsumption, reverseForSaleItem | the value of the pool matches its quantity |
| Accounting (`accounting`) | `accounting_entries`, lines, `accounting_periods`, `accounts` | postings of every engine, reversals, manual entries, periods, edits of the chart | balanced entries, at most one original and one reversal per source, numbers gap-free per period, closed periods untouched; the chart a forest, every mapped key with a usable account |
| Purchases (`purchase-invoices`, `purchase-receipts`, `supplier-payments`, `suppliers`) | invoices, receipts, payments with allocations | create, confirm, cancel of each | received at most what was bought, paid at most what is owed |
| Imports (`import-operations`) | operations, shipments and their lines, expenses, batches of allocations, receipt links | lifecycle of each, allocation by quantity, weight, volume or by hand | a receipt line is linked at most once over; no line is shipped beyond what was invoiced; expenses are shared out exactly, to lines that stay |
| Configuration (`configuration`) | `company_settings`, `document_sequences` | updateConfiguration, updateSequence | currency frozen with history, IGV invariants, sequences never go back |
| Users and auth (`users`, `auth`, `common/guards`) | `users`, `user_roles`; sessions are signed tokens that the server does not keep | login with lockout, change and reset of passwords, switch of the active role, block, unblock, create and update | there is always an active administrator; who is locked out is told so everywhere; no role reaches what is not its own |
| Catalog (`products`, `categories`, `units`, `payment-methods`) | their tables; `product_images` and the files on disk | create, update, activate, deactivate; images added, removed, made primary | the tree stays a tree, what is active hangs from what is active, images and files agree, hidden rows stay hidden |
| Customers, suppliers (`customers`, `suppliers`) | their tables | create, update, activate, block, credit, conversion of prospects | sales are made to those that may buy |
| Reports (`reports`, `accounting/accounting-reports`, `import-operations/import-reports`, `supplier-payments/accounts-payable`) | none | reads in one REPEATABLE READ transaction | they agree with the documents and with each other |
| Audit, health, common | audit: append-only | audit records | not modelled |

### Interactions

`SalesService.create*` → settings, customer and products locked → sequence →
stock (`StockMovementEngine`) → valuation → accounting → initial payments
(`PaymentEngine`) → accounting.  `SalesService.cancel` undoes the same chain
and looks at `electronic_documents`.  `PurchaseReceiptsService` → stock →
valuation → accounting.  `ImportReceiptLinks` read receipts.  All postings go
through `AccountingEngine`, which resolves the open period and increments its
counter.  `ImportExpensesService` allocates to lines of shipments, which
`ImportShipmentsService` may replace.  Every route passes the three global guards
(`JwtAuthGuard`, `PasswordChangeGuard`, `RolesGuard`) first.  They share the rows of `sales`, `products`, `customers`,
`company_settings`, `accounting_periods` and `document_sequences`, mostly under
row locks.

### Behaviours that are hard

- **Read, then lock, then write.** Several methods check a status on a row read
  without a lock, then lock another row and write (`closePeriod`,
  receipt cancellation against import links, patches of the settings).
- **Two locks for two facts.** A receipt reads quantities behind the lock of the
  invoice and capitalized amounts behind the lock of the product.
- **Counters inside transactions.** Fiscal numbers and journal numbers are
  increments that a rollback takes back; gaps and repetitions are possible if
  the counter and its user do not commit together.
- **Cascades.** Cancelling a sale cancels its payments, reverses stock,
  valuation and every posting, while other requests pay or cancel the same rows.
- **A remote provider** between three persistence phases: lost answers, late
  answers, retries, a crash between phases.
- **Derived columns** (payment summary, stock, moving average) that must equal
  what their rows say after any interleaving, and integer rounding in the
  average cost.
- **Rows that nobody locks.** Master data is edited by a read, a check and an
  update; the roles of a user are deleted and inserted while he logs in.
- **Files and rows** that no transaction covers together.
- **Deadlocks** of row locks taken in different orders, which PostgreSQL breaks
  by aborting a transaction.

The complete list, each at its line, is under `hazards` in `PROJECT.json`, with
the properties that would catch it.

## 2. How the models are written

**Transactions.** `pc[r]` is where request `r` stands between two statements; a
lock variable maps a row to the request that holds it.  A step is one statement
that may wait for a lock, with everything the code does up to the next such
statement.  Statements that neither wait nor read what another transaction may
change in between are merged with their neighbour.  A transaction's writes are
private until its commit step, which publishes them all and releases its locks
(`ReleaseLocks`, `EndTransaction`); what it must see of its own writes before is
in `pending[r]` or `work[r]`.  `RollBack(r)` is possible at every place: it
stands for a failed check, a violated index, a deadlock that PostgreSQL
resolves, a timeout and a lost connection.

**Operations without a contended statement** after their only lock (accepting a
quote, cancelling a link, delivering a sale) are one action guarded by the lock
being free.

**Data.** Amounts are small integers where arithmetic is what is checked
(payments in units; stock and valuation in cents with unit costs of six
decimals; import costs in cents) and one opaque value where it is not (`revision`
for the wording of a quote).  Dates are day or month numbers.  Rows of the catalog
keep the columns on which some check depends.  An update of names, descriptions
or addresses is an edit without columns.  Validation of the body is left out, and
the roles admitted to an operation are in `Routes` and `Access` only.

**Reports.** A report reads one state (REPEATABLE READ), so it is an operator on
it; the property that compares reports is evaluated in every state (those on imports in
every state in which no request is between two statements, because the model writes
rows before their commit there, which no report sees).

**Bounds.** `MaxSubmissions`, `MaxClosings`, `MaxManual`, `MaxSessions`,
`MaxOperations`, `MaxLines`, `MaxBatches`, `MaxNumber`, `Catalog`'s `MaxStock` and
`LastDay`/`LastMonth` cap what would grow for ever; `MaxFiscalNumber`, `MaxAttempts`
and `StockValuation`'s `MaxStock` are limits of the code with small values.  All are CONSTANTS; proofs are for every value of them.

## 3. Modules

| module | models | extends / composes |
|---|---|---|
| `FiscalIssuance` | issue, submission, retry, provider; `SalesService.cancel` against them | |
| `FiscalIssuance_proofs` | its theorems | `FiscalIssuance` |
| `JournalPeriods` | postings, reversals, journal numbers; periods created, closed, reopened | |
| `PaymentBook` | abstract: what collecting a sale promises | |
| `RecursionTheorems` | facts about sums of rows and walks up a hierarchy, for the proofs | |
| `SalePayments` | payments, their cancellation, sale cancellation and its cascade, delivery | refines `PaymentBook` |
| `SalePayments_proofs` | its theorems, with the refinement | `SalePayments`, `RecursionTheorems` |
| `CompanySettings` | the settings row and the documents that copy its currency | |
| `QuoteLifecycle` | quotes, their expiry, decisions and conversion | composes `CompanySettings` (INSTANCE over shared variables) |
| `QuoteLifecycle_proofs` | its theorems | `QuoteLifecycle` |
| `ImportReceiptLinks` | links of shipment and receipt lines, against shipments and receipt cancellation | |
| `Purchasing_proofs` | theorems of purchases, with the refinement, of payables, of receipt links, of import costs and their reports | `AccountsPayable`, `ImportReceiptLinks`, `ImportReports`, `RecursionTheorems` |
| `StockValuation` | stock, valuation, receipts, sales, cost of sales | |
| `StockValuation_proofs` | its theorems | `StockValuation`, `RecursionTheorems` |
| `AccountMapping` | abstract: which account a system key stands for, as the engine sees it | |
| `ChartOfAccounts` | the hierarchy of accounts and the mapping of system keys | refines `AccountMapping` |
| `Accounting_proofs` | theorems of journals and periods, and of the chart, with its refinement | `JournalPeriods`, `ChartOfAccounts`, `RecursionTheorems` |
| `PayableBook` | abstract: what a supplier is owed and what has been settled of it | |
| `PurchaseLedger` | purchase invoices, supplier payments and their lines on payable accounts | extends `AccountMapping`, refines `PayableBook` |
| `AccountsPayable` | the list, detail, summary, aging and reconciliation of payables | extends `PurchaseLedger` |
| `CostAllocation` | the arithmetic of shared costs, as functions | |
| `ImportCosts` | import operations, shipments with their lines, expenses and their allocation | extends `CostAllocation` |
| `ImportReports` | the reports on imports and the attribution of costs to receipts | extends `ImportCosts` |
| `Routes` | every route of the API with the roles it admits | |
| `Access` | users, roles, sessions, guards | extends `Routes` |
| `Records` | rows of master data and how they are edited | |
| `Catalog` | categories, units, products | extends `Records` |
| `Parties` | customers, suppliers, payment methods | extends `Records` |
| `ProductImages` | images of products, rows and files | extends `Records` |
| `CatalogViews` | what each role is shown of them | extends `Catalog`, `Parties`, `ProductImages` |
| `SaleIntake` | the checks of a sale against customers and products that are being edited | extends `Catalog`, `Parties` |
| `DocumentSequences` | numbers of quotes and sales, and their administration | |
| `Administration_proofs` | theorems of what administrators keep | `Access`, `CatalogViews`, `SaleIntake`, `DocumentSequences`, `RecursionTheorems` |
| `MC*` | instances for TLC; `MCCatalog` composes the modules of the catalog | |

### FiscalIssuance

State: `sales.status` and its lock, `fiscal_series.current_number` and its lock,
the rows of `electronic_documents` column by column, and, for the provider,
`inTransit` (calls under way), `processed` (registrations) and `verdict`.
`BeginIssue`, `CheckSale`, `AllocateNext`, `CommitDocument` are the statements of
`createFiscalDocument`; `SubmitIssued`/`RetrySubmission` the first persistence
phase of `submitDocument`, `CallProvider` the call outside every transaction, and
`ReceiveAnswer`, `ProviderRefuses`, `LoseAnswer` followed by the final updates
the second and third phases.  `ProviderProcesses` may happen long after the
caller has given up.  `Abort` rolls a transaction back, `Crash` ends a request at
any place without a trace in the database.

### JournalPeriods

State: `status`, `last_journal_number` and lock of each month's period,
`accounting_entries`, and the entries a transaction has inserted and not
committed.  `BeginPosting` → `CheckEntry` → `FindPeriod` → (`InsertPeriod`) →
`TakeNumber` are the statements of `postOriginal` and `reverseOriginalForSource`;
from `posted` a transaction may go on to one more posting, as the cascade of a
sale's cancellation does.  `BeginClose`/`BeginReopen` are the plain reads,
`UpdatePeriod` the update by id, `CommitClose`/`CommitReopen` the commits.

### SalePayments and PaymentBook

State: sales with their summary, payments, the entries of both, `work[r]` for
payment rows changed and not committed.  `BeginRegister` locks the sale,
`InsertPayment` checks the balance, `SumPayments` and `CommitSummary` are
`PaymentEngine.refreshSummary` (read, then write).  `BeginCancel`/`CancelPayment`
lock sale and payment; `BeginVoid`, `CancelActivePayments`, `CommitVoid` are
`SalesService.cancel`.  `ImplementsPaymentBook` maps an existing sale to `open` or
`void` and its active payments to what is held; every commit must be one step
of the book and every other statement a stutter.

### QuoteLifecycle and CompanySettings

`CompanySettings` keeps the row, the currency snapshot of each sale and the
purchase invoices; `QuoteLifecycle` adds the quotes, the calendar and the
conversion, which locks the quote and then the settings.  All of the actions of
`CompanySettings` run in every behaviour of `QuoteLifecycle` (`SettingsStep`,
`InvoiceStep`), so a patch of the currency races with direct sales, invoices,
the editing of quotes and conversions at once.

### ImportReceiptLinks

`LockShipmentLine`, `LockReceiptLine`, `RepeatLink` (the answer to a repeated
key), `CheckLink`, `CommitLink` are the statements of `create`; `LockReceipt`,
`CheckNoActiveLink`, `CommitCancelReceipt` those of the cancellation of a receipt.

### StockValuation

State: `products.stock_current`, the purchase invoice, receipts and sales with
their quantities, the append-only `inventory_valuations` and the entries of cost
of sales; the pool of a product is, as in the code, the sum of its rows.
`BeginReceipt` locks the invoice and checks what remains; `LockProduct` takes the
next product in the order of the document in question (lines of a receipt,
ascending ids of a sale, any order for the cancellation of a receipt);
`CommitReceipt` and its siblings move the stock and write the valuation rows with
the calculators' half-up rounding, the rule of the line that completes
(`calculateReceiptCapitalization`) and the rule of the depleted pool
(`calculateSaleConsumption`).  Amounts above the integers of TLC are avoided by
choosing the instance, not by changing the arithmetic: `Lot` makes one unit of
quantity stand for many, so that rounding shows with small counts.

### ChartOfAccounts and AccountMapping

State: the rows of `accounts`, which accounts have entry lines, and `edit[u]`, the
columns that an administrator has decided to write.  No operation of
`ChartOfAccountsService` locks a row, so each one is a decision (`CreateAccount`,
`UpdateAccount`, `ActivateAccount`, `DeactivateAccount`, `ReassignKey`) followed by
`CommitEdit` or `AbandonEdit`.  The module allows any number of administrators;
what is claimed of it is for one at a time, because the code excludes none of the
races listed under "Disagreements".  `AccountMapping` is what the engine sees of
the chart; `ImplementsMapping` checks that the sequences of edits are steps of
it, and `PurchaseLedger` uses it in place of the chart.  Two administrators at
once may leave a key without account, which is no step of `AccountMapping`; then
`ResolvePayable` has nothing to resolve and confirmations are refused, as they are
before the key first gets an account (`MappingInit` includes it).

### PurchaseLedger and PayableBook

State: invoices, payments with their allocations, the lines that both leave on
payable accounts, the locks of the invoices and of the settings.  `BeginConfirm`,
`ResolvePayable`, `CommitConfirm` are the statements of `confirm`;
`BeginCancel`, `CommitCancel` those of `cancel`; `BeginPayment` looks for the key,
`LockNextInvoice` takes one more row of the `SELECT ... ORDER BY id FOR UPDATE`,
`LockSettings`, `CheckBalance`, `CommitPayment` are the rest of
`SupplierPaymentsService.create`.  Steps of `AccountMapping` happen at any time,
so the key of the payable account may move between confirmation, payment and
cancellation.  `PayableBook` knows neither accounts nor locks: an invoice is
recognised or voided, a payment settles or is undone, each in one step.

`AccountsPayable` reads the state of `PurchaseLedger`: `Payables` is `computeRows`,
`Summary`, `Aging`, `Page` and `History` the reports made of it, `Differences` and
`Consistent` the reconciliation with the entry lines.

### CostAllocation, ImportCosts and ImportReports

State: operations, shipments, their lines with the quantities of their receipt
links, expenses, the batches of each, and what each request has locked.
`BeginShipment` locks operation and invoice lines and checks
`FitsInvoices`; `CreateShipment` inserts.  `BeginReplace`, `DeleteLines`,
`InsertLines` are the replacement of the lines of a shipment, `BeginAllocate`,
`LockLines`, `InsertBatch` the allocation of an expense (`Weight` and
`AllocationShares` are `computeProportionalAllocation` by method), `BeginUpdateExpense`
and `UpdateExpense` the update that takes no lock.  `LinkReceipts` and
`UnlinkReceipts` are what `ImportReceiptLinks` does to the quantities received of a line.  `Proportional` and
`Split` are the two calculators; the reports built on them are operators of
`ImportReports`: the summary, both reconciliations, the lists with their filters and
pages, and the exports, which gather the same rows by other queries.  `ReportsAgree`
compares each with the others.

### Routes, Access

`Routes` is a table; `Access` has a request per handler: `Start*` is what the guards
and the handler check before the first statement, and each further action one
statement of `users.service.ts` or `auth.service.ts`.  The operations that may take
an ADMIN away lock the row of the role first (`LockAdminRole`); `DeleteRoles`,
`Duplicate` and `BreakDeadlock` are what two updates of one user's roles do to each
other.  The token of a session keeps its active role until it is replaced.

### Records, Catalog, Parties, ProductImages, CatalogViews, SaleIntake

State: `rows` (one function over all the identifiers), `edit` (what an
administrator has decided and not yet written), `holders` (requests with a lock on
a row).  None of these services locks anything, so, as in `ChartOfAccounts`, an
operation is a decision followed by `CommitEdit` or `AbandonEdit`; a sale's locks
delay `CommitEdit`.  The modules allow any number of administrators and the run
has one, for the same reason as there.  `SaleIntake` is the part of `SalesService`
that reads these rows: `LockCustomer`, `LockProducts` (with their categories and
units in share mode), `Confirm`.  In `ProductImages` an image is added by `SaveFile`,
`CountImages` and `InsertImage`, made primary by `ReadImage` and `SetPrimary`, and removed
by `ReadImage`, `RemoveRow` and `DeleteFile`: what a request reads may change before
it writes, for its transaction locks nothing it reads.  What a transaction writes is one
step, since nobody sees it before the commit and the unique index refuses a second
primary image.  The `catch` of `addImage` is `InsertFails` when nothing was
committed and `CommitUnanswered` when the row was and the answer is lost: the file is
deleted in both, and the ghost variable `unanswered` remembers the rows of the second.
`Stop` ends a request after any step (a commit of the other operations whose answer is
lost is the step followed by `Stop`).

### DocumentSequences

`NextNumber` is `DocumentSequenceService.next()` in the transaction of a document
(which `CommitDocument` or `RollBackNumber` ends); `LockSequence` and `ChangeNumber`
are `updateSequence`.  It is composed with the catalog in one run because it is
too small for one of its own.

## 4. Runs

Twelve runs.  Those that pass explore their whole state graph; the one that ends
in a violation stops at it.

| run | instance | shows | distinct states |
|---|---|---|---|
| `fiscal_issuance` | 2 sales, 2 documents, 2 series of 1 number, 2 requests, 2 submissions | the safety of issue, submission and cancellation with exhausted series and crashes; every request ends | 101,774 |
| `journal_periods` | a sale and a manual draft, 2 months, 2 requests, 1 closing per month | numbering, reversals, closed periods | 590,390 |
| `sale_payments` | 2 sales (one generic, total 1; one of total 3), 4 payments of 1 or 2, 2 requests | summary, ledger, refinement of `PaymentBook` | 22,741 |
| `quote_lifecycle` | 2 currencies, 2 sales, 1 invoice, 1 quote with 2 wordings, 2 days, 2 requests | conversion, decisions, currency | 235,284 |
| `import_receipt_links` | 2 lines and 2 receipts with quantities 2 and 3, 2 links, 1 key, 2 requests | no over-linking, no double link, only what has arrived is linked | 411,288 |
| `stock_valuation` | 2 products that the lines list in descending order, quantities 1 and 2, amounts that do not divide, 2 receipts, 1 sale, manual movements on one product, 2 requests | stock, valuation, cost of sales | 120,819 |
| `chart_of_accounts` | 4 accounts (2 seeded with keys, 2 that may be groups), 1 type, 2 keys, 1 administrator | the hierarchy stands, keys keep usable accounts | 68,444 |
| `purchase_ledger` | 2 invoices (of 1 or 2, and of 1), 2 payments, 1 key, 2 payable accounts, 2 requests | payments against cancellations, locks without cycles, the ledger of the payables and every report on them, refinement of `PayableBook` | 394,715 |
| `access` | 2 users, 3 collections of roles, 2 requests, 2 attempts before the lockout, 1 session, 3 operations of administrators, all the routes | an active administrator remains, the lockout is coherent, each role keeps to its duties | 1,097,413 |
| `import_costs` | 2 operations, 2 shipments of 1 or 2 lines, 1 invoice line, 2 expenses of 1 or 4 cents in 2 currencies, portions of 1 and 3 cents, by weight, 1 key, 2 requests (bounded together as below) | shipments within the invoice, completed operations, allocations within the expense and on standing lines, the reports with rounded shares and two batches | 280,882 |
| `import_finalized` | the same | **violation**: a finalized expense cannot be cancelled | stops |
| `catalog` | 2 categories, 1 unit, 1 product, the generic customer and another, 1 supplier, 1 method, 1 administrator, 1 sale, 2 images, 2 requests on them, 2 document types, 2 numberings, numbers up to 3, stocks up to 1 | the tree, what each role sees, images and files, sales against edits, numbers | 150,629 |

Why the bounds are enough.  The interleavings that the properties speak of are
between two transactions over one row or one pair of rows.  Two documents per
kind let one be cancelled while the other goes on; two months let a posting be
dated in a month that is not the current one; two lines of different quantities let sums exceed one and not the other; a
series of one number is exhausted by the first document, so that both the first
allocation and the refused one happen, and the two series keep requests on
different counters apart (for longer series and more requests, section 6).  Two
invoices make a payment lock more than one row, an invoice of 2 can be paid in
two parts, and two payable accounts let the key move away and back.  Four
accounts are enough for a group within a group with accounts below.  Two users are
what two administrators need to demote each other; three operations let a third
undo what the other two did, and two attempts let one be left over from before a
reset.

`MCImportCosts` explores two regions of the data (`Meeting` and `Rounding`, conjoined
with `Next`).  In the first, requests meet: two operations, two shipments that together
may plan more than the 3 units invoiced, and one expense allocated by single cents, in
two batches or with a repeated key, to a heavy line (a second one does not fit in the
invoice) or refused by a line without a weight.  In the second, amounts do not divide:
one request at a time shares out 1 or 3 cents, in two batches of one expense or one of
each of two (of one currency or two), by the weights 2 and 5 of two lines that plan 1
and 3 units; shares and residues
round, and round again when receipts are linked in parts, so that the preview and the
reports differ by a cent.  There receipts are linked once the operation is completed:
before, the order of links and allocations is that of the first region.

The catalog has too many independent rows to explore at once, so `MCCatalog` bounds
which of them exist together (`Bounds`, conjoined with `Next`, so that no transition
leads out of the graph).  Two categories are explored without customers and sales,
and with products of the plain kind; customers and sales with one category and with
units of decimals; suppliers and methods without anything else; images over an
active catalog nobody edits; sequences with all the rest idle.  The parts that are set
apart share no row, except that a sale reads categories: of those it only asks the
status of the one the product has.  Cycles of three categories, and
`MAX_ANCESTOR_DEPTH`, are not reached.  Every
action and disjunct of every `Next` fires in some passing run, and each property has a mutant of the
code it depends on under which its run fails (`mutants` in `PROJECT.json`): a
dropped lock, a check before it, a status that is not looked at, an increment
outside the transaction.

`CHECK_DEADLOCK FALSE` is set because the models are finite: when every sale is
cancelled, every number used and every month closed for the last time, the system
legitimately stops.

Symmetry is used over identifiers that no expression orders or distinguishes
(in `chart_of_accounts` only over the accounts that the seed does not have), never
in the run with the liveness property.

### Disagreements found

The violation run shows a behaviour of the code that one of its comments excludes
(`findings` quotes it): `import_finalized` — `import-expenses.service.ts:405` cancels a
finalized expense without clearing the columns of its finalization, which a CHECK
of the database then refuses, so the transition its comment promises fails.

Met while modelling, without a run:

- `accounting-periods.service.ts:200`: the status is read without a lock, so two
  closings of one period may both succeed, and the second rewrites who closed it
  and when (`test/accounting-periods.e2e-spec.ts:398` expects the second to be
  refused, one after the other).
- `configuration.service.ts:216`: two patches of the two tax columns are each
  checked against a row that the other changes.
- `purchase-invoices.service.ts:430`, `supplier-payments.service.ts:277`: an invoice
  drafted before a change of currency is confirmed in its own currency, in which
  no payment is then accepted.
- `supplier-payments.service.ts:373`: an account that invoices have credited can be
  switched off once the key has moved; they cannot be paid until it is activated.
- `supplier-payments.service.ts:219`: a retry that starts while the first payment
  runs is refused by the unique index, not answered with the first payment.
- `sales.service.ts:480`: the business date is read before the lock of the quote is
  waited for, so a quote that expires at midnight may be converted just after.
- `accounting-calculator.ts:189`: a sale whose consumption rounds to nothing cannot
  post a balanced entry and is refused.
- `inventory-valuation.engine.ts:72`: no service writes `valuationMethod`; one given
  by hand to a product that is partly received makes the next receipt capitalize
  what earlier ones did not.
- `accounts-payable.service.ts:545`: a reconciliation filtered by dates, supplier or
  status compares some invoices with the payments of the whole account, and then
  reports `ACCOUNT_BALANCE_MISMATCH` though nothing is wrong; `PayablesAgree` says
  by how much.
- `purchase-receipts.service.ts:723`: a reclassification resolves its source account
  by the mapping of the moment; after two purchase keys have exchanged accounts
  it moves an amount out of an account that the invoice did not debit.
- `chart-of-accounts.service.ts:341`: moving a group leaves the levels of what is
  under it as they were (`prisma/schema.prisma:2059` says that the level is the
  depth).
- `chart-of-accounts.service.ts`, two administrators at once: two moves may close
  a cycle (341), two reassignments onto one account leave a key without any (563),
  a reassignment may meet a deactivation (473), a change of type the first
  posting (671).
- `purchase-receipts.service.ts:528`, `import-receipt-links.service.ts:427`: they lock
  different rows, so a link may be committed onto a receipt that is being cancelled.
- `quotes.service.ts:870`, `sales.service.ts:526`: the currency of a quote is rewritten
  while its amounts stay, and the sale takes both.
- `inventory-valuation.engine.ts:205`: a pool is compared by quantity, not by value,
  before a cancelled receipt's own cost leaves it, so a pool of no units may keep a
  value, also a negative one.
- `purchase-receipts.service.ts:289`: quantities are read behind one lock, capitalized
  amounts behind another, so a half received line may be capitalized in full.
- `purchase-receipts.service.ts:357`: a receipt locks products in the order of its
  lines and its cancellation in no stated order, against the ascending order of
  sales: two of them may deadlock, and PostgreSQL aborts one.
- `users.service.ts:289`: two updates of one user's roles, each deleting and then
  inserting them, may leave the union of both.
- `import-expenses.service.ts:262`: `update` reads the expense without a lock, so a
  change of currency or amount may land after an allocation or a finalization
  that did not see it.
- `import-shipments.service.ts` (cancel) against `import-expenses.service.ts` (allocate):
  a shipment may be cancelled while its lines are being allocated to, and keeps the
  allocation; `arrive` does not look at the operation, nor the cancellation of a
  purchase invoice at shipments that carry its lines.
- `import-expense-allocation-calculator.ts`: the last target takes the residue, which
  roundings up may leave at nothing or below; the CHECK on the amounts refuses to
  store it, while the preview of the attribution shows it.
- `import-reports.service.ts:1317`: the consolidated reconciliation filters by status
  after it has cut a page, so that pages come short, and `total` counts what the
  filter drops.
- `import-reports.service.ts`: a foreign expense that is cancelled or not allocated is
  reported as pending an exchange rate.
- `categories.service.ts:365` and its callers, two administrators at once: two moves
  may close a cycle, a deactivation may miss a child that is being activated.
- `product-images.service.ts`: removing an image while another is added may leave the
  product without a primary one, and so may removing one while it is made primary; when
  the answer to a commit is lost, `addImage` deletes the file of a row that was
  committed (`CommitUnanswered`), which stays listed and cannot be opened: `ImagesStand`
  excepts the rows in `unanswered`, and would fail without the exception.
- `products.service.ts`: a product with stock may become a service, or untracked, and
  keeps the stock.
- `sequence-admin.service.ts`: a new prefix or padding can make formatted numbers
  collide with older ones; the index then refuses the documents until it is changed.

## 5. Fairness

Only `FiscalIssuance` states fairness, in its one run.  `WF_vars(Step(r))`: the server executes
the statements of a request that it has begun; nothing is assumed of `Begin`
(clients may stop calling), `Abort`, `Crash` or of the provider, whose silence
ends in the client's timeout (`LoseAnswer` is a step of the request).
`SF_vars(AllocateNext(r))`: PostgreSQL queues the transactions that wait for a row
lock, so one is not overtaken for ever; weak fairness would not do, because the
lock of the series is taken and released again and again.  `RequestsEnd` holds
under it without `Abort` or `Crash` being forced, hence the two locks of an issue
(sale, then series) never form a cycle.

## 6. Proofs

TLAPS proves the theorems below for every value of the constants, from the
ASSUMEs of the modules: the bounds are natural numbers, the "none" values are
not identifiers, there is at least one month.  Nothing is assumed of the number of
requests, rows, documents or months; where rows are summed or counted, that they are
finitely many (see "Assumptions" below).

**`FiscalIssuance_proofs`.** Inductive invariant `IInv`:

- `Locking`: a transaction holds the rows it has locked, and the number it took is
  the one after the committed counter.  Without it, nothing excludes two requests
  at `issueNumbered` with one number.
- `Checked`: what was checked behind the lock of the sale (active, no document,
  nothing blocking) is still true at the commit.
- `Submitting`: a document is submitted by one request at a time.  This follows
  from the conditional update to `SUBMITTED`, and is why the final updates, which
  carry no condition, are harmless.
- `WithProvider`: at most one submission of a document is ever with the provider,
  and a document that may be resubmitted has none there.

It is preserved lemma by lemma (one step per action) and gives type correctness,
`NoLiveDocumentOnCancelledSale`, `PrimaryIndexNeverFires`, `GapFreeNumbers`,
`ProcessedAtMostOnce`, `AgreesWithProvider` and `OutcomeIsFinal`.  Type correctness of
this module and the next is stated by theorems alone; no run checks it.

**`Accounting_proofs`, of `JournalPeriods`.** Inductive invariant `IInv`:

- `Finite`: entries, committed or pending, are finitely many (cardinalities are
  then numbers).
- `Holding`: a transaction with a pending entry holds the rows of its month and of
  its source, and the month has not been closed.  Closing a period takes the same
  row lock: that is the whole reason why a posting under way cannot land in it.
- `Placed`: what a request has done by its place; `EntryAllowed` stays true from
  the check to the insertion because of the lock of the source.
- `Numbered`: the pending entries of a month carry the numbers just after the
  committed counter.  With `Holding`, one transaction at most has any.
- `Grounded`: a pending reversal has its original, committed or pending with it.

From it: type correctness, `GapFreeJournal`, `ReversedAtMostOnce` and the action
property `ClosedPeriodIsFrozen`.  The arithmetic rests on small lemmas about
intervals and on the finite-set theorems of the library.

**`Accounting_proofs`, of `ChartOfAccounts`.** Nothing is locked, so the theorems are about one
administrator (`OneAdministrator`; no more is true, see "Disagreements"), with any number
of postings meanwhile.  The invariant `ChartIInv` has two parts: the rows fit (`Fits`: what
`ChartStands` says, and that a key has one account at most, active and postable), and
what the administrator has decided, and not yet written, would leave rows that fit and
take no key away (`Decidable`).  Each operation is then one lemma about
two tables of rows, before and after, with no lemma about interleavings: its checks are
what makes the later table fit.  That a move closes no cycle is `MovesKeepForest`, from
`assertNoCycle`'s own check.  `ChartTypes` found that a level has no bound: a bound by
the number of accounts, which held in every instance TLC explored, is not inductive, since
a group that moves leaves the levels under it as they were, and what is then
created there is deeper than it is.  `ChartImplementsMapping` is the refinement of
`AccountMapping`: a write that moves no key and changes no mapped account is a stutter,
whatever else of the chart it changes.

**`RecursionTheorems`.** Balances, summaries, pools and allocations are sums of rows, which
the modules take with `SumFunction`.  The library's folds are recursive functions of
which it states nothing that can be cited, so this module proves first that the
recursion has one solution (`SolutionExists`, `SolutionsAgree`, by induction over
the size of a set, with the induction stated of a set of numbers and not of a
predicate) and then what a ledger needs: a sum is an integer (`SumType`), it is
taken apart (`SumRemove`, `SumPlus`, `SumParts`), changes by what one row changes
(`SumUpdate`), is bounded by its terms (`SumLeq`, `SumBounds`), is that of its groups
(`SumGrouped`), takes a common factor out (`SumScaled`), does not depend on the names of
the rows (`SumRenamed`), and is nothing when each row has been reversed (`SumTakenBack`).

The way up from an account or a category (`Climb`) is the other recursion, treated
alike: `ClimbLeast` shows that as many steps as there are rows meet all there is
to meet, so that what the loop of `assertNoCycle` has seen when it stops is the least
set closed under "parent of".  `MovesKeepForest` and `MovesKeepRoots` then say that
one row that is created, or moved to where it is not above, leaves no cycle, and every row
under a root.

**`SalePayments_proofs`.** Inductive invariant `IInv`:

- `RequestOK`, with `Holds`: whoever is between two statements holds the row of its
  sale, the sale is active, and the payment it has written and not committed is either
  a new one or an active one that it cancels; once it has summed, the sum is still the
  sum.  This is what makes reading in one statement and writing in another harmless.
- `InsertsApart`: two requests never insert under one identifier.
- `PaymentsHaveSales`: payments are of existing sales, active ones of active sales.
- `PaymentPosted`, `SalePosted`: which entries each payment and sale has.
- the properties `SummaryMatchesPayments` and `GenericSaleIsPaid` themselves.

`LedgerMatchesSales` follows from it without being part of it: the entries that exist
are those of the rows, and what they leave as receivable is a sum over the payments
(`LedgerFollows`).  `ImplementsBook` is the refinement of `PaymentBook`, action by action:
the four commits are `Open`, `Collect`, `Refund` and `Void`, with the balance checked at
the insertion still there at the commit; every other statement leaves the mapped
variables alone.

**`Purchasing_proofs`, of `PurchaseLedger`.** `IInv` says of each request which rows it holds and what it
has found behind their locks (`RequestOK`): an operation on one invoice finds it in the
status it first saw; a payment waits for an invoice only while all that it holds come
before it, and takes the settings when it has them all; after the check, each part still
fits what is due.  `InvoicePosted` and `PaymentPosted` say which lines stand for an
invoice and for a payment, and the last conjunct that each account's balance is what is
owed on it.  From it: `PaidInvoicesStand`; `NoCircularWait`, for every set of requests (in
any set, whoever holds the settings, or else the greatest invoice, waits for none of
them); the ledger of the payables (`LedgerOwes`), where the proof has to follow one
payment over several invoices that were credited to different accounts; and the
refinement of `PayableBook`, whose "settled" of an invoice is a sum over the payments
that the lock of the invoice keeps still between the check and the commit.

**`Purchasing_proofs`, of `AccountsPayable`.** The reports write nothing, so `PayablesAgree`
follows in each state from `IInv` and one more inductive invariant, `InvoicesPost`: the
lines of invoices alone add up, by account, to the totals of the confirmed ones.  `IInv`
speaks of all lines at once, and the reconciliation of the debits that payments left on
an account; the difference of the two balances is that (`NetDebitIsPaid`).  From
it, a reconciliation of some invoices differs on an account exactly by what the payments
took off for the others (`DifferencesAreLeftOut`).  The buckets partition the invoices,
so their amounts and counts add up to those of the summary (`SumGrouped`, `SumOfOnes`);
the total of the aging is that of the accounts, by the same lemma.  There is
an ascending order (`AscendingExists`), and pages of any size are adjacent pieces of
it (`PagesFit`).

**`Purchasing_proofs`, of `ImportReceiptLinks`.** `LinksFit` is not inductive: nothing in it says why
a link that was found to fit still does when it is inserted.  `LinksStand` adds what each
request holds by the place it has reached (`HoldsLines`): the shipment line, whose
shipment has arrived and cannot leave that status any more, then the receipt line, and
after the check the room for its quantity on both (`HasRoom`).  Another insertion takes no
room from it (`RoomStays`), since its two lines are both others: sharing one of them
would be sharing its lock.  Cancellations of links, which lock neither line, only make
room.  Both locks are needed; the quantities of a line are sums over the table of links
(`SumOn`), of which `NewLinkAdds` says what one more row does to them.

**`Purchasing_proofs`, of `ImportCosts`.** Here the properties hold because of rows that other
requests have locked, so the invariant `CostsStand` has three parts: what the rows
say (`CostRowsStand`: the properties, and that lines have shipments and batches have
expenses), that no row is locked twice (`LocksExclude`), and for each request what it has
found behind its locks (`HoldsRows`: `Creating`, `Replacing`, `Cancelling`, `Updating`,
`Allocating`).  The proof has the same shape for every step:

- the step keeps `CostRowsStand`;
- it `Respects` every set of locks that does not hold the rows it writes: those rows stay, a
  locked line gets no allocation, and of a locked item no more is shipped, with or
  without the lines of a shipment that is locked along with it;
- therefore every other request still finds what it found (`OtherImportersStand`).

The middle one is where the lock of the items matters: two shipments may be
inserted at once because what each of them plans is of items that the other has not
locked (`RelinesStands`).  A shipment may be cancelled meanwhile, for that only lowers
the sums, and an inequality is all a request needs.  That lines are numbered anew when they
are inserted (`WithLinesReplaces`), and that what they plan is the sum of the request
(`ReplacedShips`), are lemmas about the table of lines.  `BatchesStand` needs that shares add
up to the cent: the residue of the roundings falls on the last line
(`ProportionalExact`), for any weights and amount.  `AllocationFits` is an action
property, from the same invariant: only `InsertBatch` adds a batch
(`OnlyInsertBatchAdds`), and it still holds the expense that it added up.  It says
nothing of an update that lowers the amount afterwards, which takes no lock (section 4).

**`Purchasing_proofs`, of `ImportReports`.** `ReportsAgree` follows in each state from `CostsStand` and
one more inductive invariant, `LinksHold`: receipts are linked only to lines that have
arrived, and to no more than each plans (`LinksAlwaysHold`).  The argument has four parts:

- The reports attribute the same to an expense whatever lines they have loaded
  (`AttributedAlike`), as long as those left out have received nothing.  The summary leaves
  the lines of cancelled shipments out, and only `LinksHold` says that this is harmless
  (`CargoLoads`).  What is allocated is the sum of the batches (`AllocatedIsAssigned`), hence
  nothing for a cancelled expense, and what is attributed is no more: none of the
  differences that are cut off at zero is cut (`SummaryAndExpenses`).
- Shares are rounded to the nearest cent, so those of one line, added up, differ
  from that of their sum by half a cent each (`RoundingsAddUp`) and the preview from the
  reports by a cent per receipt (`SplitIsNear`); when all has arrived the residue makes
  them equal.  This is linear in the quantities once the products are named.
- What a completed operation has received: `CompletedIsOver` leaves no shipment under way,
  so that a line without a discrepancy has received all it plans (`ReceivedCarries`).
- The rows by currency partition the expenses (`CurrenciesAddUp`), and a list cut in pages
  of one row meets each row (`PagesShowAll`).

The hypothesis of `ReportsAgree` that nobody is writing is not used.  The proof changed the
model in one place: `Classify` was a CASE whose conditions overlap, from which no order of
precedence follows, although TLC takes the first; it is now the chain of conditions
that `classifyReconciliation` is.

**`QuoteLifecycle_proofs`.** `IInv` is what holds of the rows (`RowsStand`), and of each
request by the place it has reached (`RequestOK`): whoever is about to write a sale or to
change the currency holds the row of the settings, the one with what it read still
being the row, the other having found that there are no sales; whoever edits or
converts a quote holds it, and it is still in a status that allows it.  The two
properties follow.  That a converted quote never changes rests on the guard of every
operation, and that it never has two sales on the lock: each is a step of the proof
that fails without it.

**`StockValuation_proofs`.** `IInv` has, of the rows, the three properties stated of the
tables they read (`StockStands`, `ReceivedStands`, `CapitalStands`, `PoolStands`,
`CogsStands`) with which rows and entries a document may have (`RowsFit`, `EntriesFit`);
and of the requests:

- `SeenStands`: the stock and the pool that a request has read of a product are still
  those of the product, because it holds its lock.
- `ReceivingStands`: the only receipt under way holds the invoice.  What it has read as
  received can only be more than what is, since a cancellation takes no lock of the
  invoice; that is all the over-receipt check needs, and why it is an inequality.
- `CancellingStands`: a document under cancellation is active until then.

`LineCapitalizedExactly` needs the arithmetic of `ReceiptCost`: an amount's share, rounded
half up, is never more than the amount, for all quantities.  The reversal rows
of a document take back, row by row, what it had recorded (`SumTakenBack`), so a
cancelled document leaves nothing in the pool or in the cost of sales.
`DepletionTakesAllValue` is an action property, from the same invariant: the consumption
of the whole pool is its whole value by the rule of the depleted pool, and the pool
compared is the one the lock protects.  Assumed: products, lines, receipts and sales
are finite in number.

**`Administration_proofs`, of `Access`.** Inductive invariant `IInv`, and `Tokens` (sessions
are of users):

- `Shape`: the types on which the rest stands.
- `Existing`: an unblocking or a reset has found its user.
- `LockHeld`: whoever may be about to take an ADMIN away holds the row of the role.
- `Founded`: whoever has decided to, with the lock, leaves another active ADMIN.
  The lock alone makes this stable: nobody else can take that other one away, and
  the operations without the lock only add administrators.
- `AdminsRemain`, the property itself: without it the count that a request has read
  says nothing of the state it writes to.

The theorem is `AdminsStand`: an active ADMIN remains unless failed logins have
blocked the last one, which nothing in the code prevents (`lockout` is a ghost
variable that records it).  Type correctness and `LockoutIsCoherent` come
from `Columns`: an account that is *not blocked* (not only an active one: one that does
not exist yet, too) has fewer failed logins than the limit.
`DutiesKept` needs no induction: it holds of the table `Routes`, whoever is in it.
`Dutiful` says what it asks of one route; reads, writes and the two areas that another
role keeps each have a lemma for any such route, who reads in an area is shown by
one of its routes (`AdmittedToRead`), and the table is gone through group by group.

**`Administration_proofs`, of the catalog.** The modules that `MCCatalog` composes are
proved each under its own specification:

- `SalesKeepFitting` (`IntakeSpec`): `IntakeStands` says which rows a sale holds by the place
  it has reached, that products and customers are held by one sale at a time while
  categories and units are shared, that nothing edits the generic customer (which is
  read without a lock), and that a product names a category and a unit that exist in
  their tables, in its row and in every edit under way.  What a sale has found then stays
  true because every row it read is a row it holds (`HeldRowsKeep`): any number of
  administrators and other sales only write rows that nobody else holds.
- `ImagesKeepStanding` (`ImagesSpec`): `UploadsStand` gives the file of a row that is still to be
  written to one request, so that nobody else deletes it before; and a file is to be
  deleted only when its row is gone, or its commit was not answered (`UploadStands`).  A
  listed image is hence in `files` or in `unanswered`, and one outside `unanswered` opens.
  What `SetPrimary` and `RemoveRow` have read may be stale: that one image at most is
  primary comes from the index (`OnePrimaryMeans`) and not from what was read.
- `NumbersStayUnique` (`SequencesSpec`): `SequencesStand`; between the drawing of a number and the
  end of its transaction, the lock keeps the counter at the number that was found, or one
  above, and documents of the type at or below what was found (`HoldStands`).
- `CatalogKeepsStanding` (`IntakeSpec`): as of the chart, for one administrator, with any number of
  sales and entries of stock meanwhile.  `CatalogFits` is said of a table of rows, and
  the invariant of two: the rows, and the rows as the edit under way would leave
  them.  Sales and entries write stocks and stages, on which nothing in it depends
  (`StockAside`); that a sale writes only a product that exists comes from
  `IntakeStands`.  A category that changes status stays where it is, and is in no
  cycle because it reaches a root (`RootsMakeForest`).
- `ViewsAgree`: on any rows, reachable or not, since it compares the conditions of the
  queries with each other.

**Assumptions.** Besides the ones named above, the sets of payments and invoices
(`SalePayments`, `PurchaseLedger`), of the rows of `StockValuation`, of users (`Access`) and
of images (`ProductImages`), of import operations and expenses (`ImportReports`), of accounts and of
categories are finite: sums, counts and walks
through infinitely many rows would mean nothing.  The tables of `Records` share no identifier, and no filter that is not given is a
status.  Every
assumption is evaluated by a run.

**Only model-checked**:

- `RequestsEnd` (liveness) and ENABLED, out of the provers' reach.  Every invariant of
  the runs is proved.

## 7. Not modelled

Audit, health and process configuration: they change nothing that the
rest depends on.  The accounting statements, the reports on sales and the dashboard:
they sum rows that the models of their sources check.  Prices, discounts and taxes
of documents: arithmetic on a single request's data, of which the models keep the
total.  Entries are modelled by source, event, month and number in `JournalPeriods`,
by their amount in `SalePayments` and `StockValuation`, and by their line on the
payable account in `PurchaseLedger`; the other lines and the balance of each entry
are not.  Creation and activation of fiscal series, the editing of manual drafts,
the reclassification of receipts.  Specifications of products, prefixes and paddings
of sequences, and the uniqueness of names, codes and documents, which is a matter of
the indexes.  The age of tokens and the throttling of logins.

## 8. Plan

In the order of what money or stock depends on:

1. `FiscalIssuance`, `JournalPeriods`, with proofs — done.
2. `SalePayments` with `PaymentBook`; `QuoteLifecycle` with `CompanySettings`;
   `ImportReceiptLinks`; `StockValuation` — done.
3. `ChartOfAccounts` with `AccountMapping`; `PurchaseLedger` with `PayableBook`, with
   proofs — done.
4. `AccountsPayable` — done.
5. `Routes`, `Access`, with a proof — done.
6. `CostAllocation`, `ImportCosts`, `ImportReports`, with proofs — done.
7. `Records`, `Catalog`, `Parties`, `ProductImages`, `CatalogViews`, `SaleIntake`,
   `DocumentSequences`, with proofs — done.
8. Left to model: the amounts that receipts move between purchase accounts, on top of
   `AccountMapping`; the accounting statements; the calculators of quotes.
9. Proofs of `SalePayments`, `PurchaseLedger`, `QuoteLifecycle`, `StockValuation`, `Access`,
   `ImportReceiptLinks`, `ImportCosts`, with two refinements and the sums they rest on —
   done.
10. Proofs of `ChartOfAccounts`, with its refinement, of the tree of `Catalog`, of the
   duties of the roles in `Access`, and of the
   reports of `AccountsPayable` and of `ImportReports` — done.
