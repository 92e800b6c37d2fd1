--------------------------- MODULE CompanySettings ---------------------------
(***************************************************************************)
(* The one row of company_settings (ConfigurationService) and the          *)
(* documents that copy its currency: direct sales, which lock the row to   *)
(* read it, and purchase invoices, which do so as drafts and post to the   *)
(* ledger later, when they are confirmed.                                  *)
(***************************************************************************)
EXTENDS Naturals, FiniteSets

CONSTANTS
  Currencies,
  Sales,          \* identifiers of sales
  Invoices,       \* identifiers of purchase invoices
  Rates,          \* tax rates: they are told apart only by being zero or not
  Requests,
  NoRequest

SettingsRow == [currency : Currencies, taxEnabled : BOOLEAN, taxRate : Rates]

\* The body of PATCH /configuration: some of the columns, with their values.
Patch == {[c \in cs |-> row[c]] : cs \in (SUBSET DOMAIN CHOOSE r \in SettingsRow : TRUE) \ {{}},
                                  row \in SettingsRow}

VARIABLES
  settings,      \* the row of company_settings
  sales,         \* the currency of each sale, {} while there is none
  invoices,      \* rows of purchase_invoices
  settingsLock,  \* who has locked the row of company_settings
  pc,            \* where each request stands
  reqData        \* the changed columns, or the settings read

rows == <<settings, sales, invoices>>
vars == <<rows, settingsLock, pc, reqData>>

NoInvoice == [status |-> "NONE"]
Invoice == [status : {"DRAFT", "CONFIRMED", "CANCELLED"}, currency : Currencies]

NoData == [c \in {} |-> 0]

Init ==
  /\ settings \in SettingsRow
  /\ settings.taxEnabled => settings.taxRate > 0
  /\ sales = [s \in Sales |-> {}]
  /\ invoices = [i \in Invoices |-> NoInvoice]
  /\ settingsLock = NoRequest
  /\ pc = [r \in Requests |-> "idle"]
  /\ reqData = [r \in Requests |-> NoData]

Goto(r, place) == pc' = [pc EXCEPT ![r] = place]

EndTransaction(r) ==
  /\ settingsLock' = IF settingsLock = r THEN NoRequest ELSE settingsLock
  /\ Goto(r, "idle")
  /\ reqData' = [reqData EXCEPT ![r] = NoData]

\* settings-reader: the row is read without a lock.
ReadSettings(r, next) ==
  /\ pc[r] = "idle"
  /\ reqData' = [reqData EXCEPT ![r] = settings]
  /\ Goto(r, next)
  /\ UNCHANGED <<rows, settingsLock>>

\* SELECT ... FOR UPDATE of the row, which is then read.
LockSettings(r, next) ==
  /\ pc[r] = "idle"
  /\ settingsLock = NoRequest
  /\ settingsLock' = r
  /\ reqData' = [reqData EXCEPT ![r] = settings]
  /\ Goto(r, next)
  /\ UNCHANGED rows

-----------------------------------------------------------------------------
(* ConfigurationService.updateConfiguration() *)

\* What a patch leaves of a row; only the columns that differ are written.
Merge(row, data) == [c \in DOMAIN row |-> IF c \in DOMAIN data THEN data[c] ELSE row[c]]
Changed(row, patch) == [c \in {c \in DOMAIN patch : patch[c] # row[c]} |-> patch[c]]

TaxRule(row) == row.taxEnabled => row.taxRate > 0

\* The row is locked only if the patch names the currency.
BeginUpdate(r, patch) ==
  /\ pc[r] = "idle"
  /\ "currency" \in DOMAIN patch => settingsLock = NoRequest
  /\ settingsLock' = IF "currency" \in DOMAIN patch THEN r ELSE settingsLock
  /\ TaxRule(Merge(settings, patch))
  /\ Changed(settings, patch) # NoData
  /\ reqData' = [reqData EXCEPT ![r] = Changed(settings, patch)]
  /\ Goto(r, IF "currency" \in DOMAIN reqData'[r] THEN "history" ELSE "update")
  /\ UNCHANGED rows

SaleExists == \E s \in Sales : sales[s] # {}

\* Confirmation posts an entry, and entries are never deleted.
EntryExists ==
  SaleExists \/ \E i \in Invoices : invoices[i].status \in {"CONFIRMED", "CANCELLED"}

\* assertCurrencyChangeAllowed
CheckHistory(r) ==
  /\ pc[r] = "history"
  /\ ~SaleExists /\ ~EntryExists
  /\ Goto(r, "update")
  /\ UNCHANGED <<rows, settingsLock, reqData>>

CommitUpdate(r) ==
  /\ pc[r] = "update"
  /\ settingsLock \in {r, NoRequest}
  /\ settings' = Merge(settings, reqData[r])
  /\ EndTransaction(r)
  /\ UNCHANGED <<sales, invoices>>

-----------------------------------------------------------------------------
(* SalesService.createDirect(): settings are locked, read and copied. *)

BeginSale(r) == LockSettings(r, "sale")

CommitSale(r, s) ==
  /\ pc[r] = "sale"
  /\ sales[s] = {}
  /\ sales' = [sales EXCEPT ![s] = {reqData[r].currency}]
  /\ EndTransaction(r)
  /\ UNCHANGED <<settings, invoices>>

-----------------------------------------------------------------------------
(* PurchaseInvoicesService *)

BeginInvoice(r) == LockSettings(r, "invoice")

CommitInvoice(r, i) ==
  /\ pc[r] = "invoice"
  /\ invoices[i] = NoInvoice
  /\ invoices' = [invoices EXCEPT ![i] =
       [status |-> "DRAFT", currency |-> reqData[r].currency]]
  /\ EndTransaction(r)
  /\ UNCHANGED <<settings, sales>>

\* confirm() and cancel() lock the invoice and look at nothing else here.
MoveInvoice(i, from, to) ==
  /\ invoices[i].status = from
  /\ invoices' = [invoices EXCEPT ![i].status = to]
  /\ UNCHANGED <<settings, sales, settingsLock, pc, reqData>>

ConfirmInvoice(i) == MoveInvoice(i, "DRAFT", "CONFIRMED")

CancelInvoice(i) == MoveInvoice(i, "CONFIRMED", "CANCELLED")

\* A failed check, a lost connection.
RollBack(r) ==
  /\ pc[r] # "idle"
  /\ EndTransaction(r)
  /\ UNCHANGED rows

Next ==
  \/ \E r \in Requests :
       \/ \E patch \in Patch : BeginUpdate(r, patch)
       \/ CheckHistory(r)
       \/ CommitUpdate(r)
       \/ BeginSale(r)
       \/ \E s \in Sales : CommitSale(r, s)
       \/ BeginInvoice(r)
       \/ \E i \in Invoices : CommitInvoice(r, i)
       \/ RollBack(r)
  \/ \E i \in Invoices : ConfirmInvoice(i) \/ CancelInvoice(i)

Spec == Init /\ [][Next]_vars

-----------------------------------------------------------------------------
(* Properties *)

\* The rows of settings and of invoices have the shape of the schema; a sale
\* has one currency.
RowsOK ==
  /\ settings \in SettingsRow
  /\ \A s \in Sales : sales[s] \subseteq Currencies /\ Cardinality(sales[s]) <= 1
  /\ invoices \in [Invoices -> Invoice \cup {NoInvoice}]

\* Rows, the lock and requests have the shape the schema and the code give them.
TypeOK ==
  /\ RowsOK
  /\ settingsLock \in Requests \cup {NoRequest}
  /\ pc \in [Requests -> {"idle", "history", "update", "sale", "invoice"}]
  /\ reqData \in [Requests -> Patch \cup {NoData}]

\* Every sale is in the currency the company has now: neither a change of
\* currency under way nor a sale under way misses the other.
SalesInCompanyCurrency == \A s \in Sales : sales[s] \subseteq {settings.currency}
=============================================================================
