--------------------------- MODULE PurchaseLedger ---------------------------
(***************************************************************************)
(* The invoices of one supplier (PurchaseInvoicesService), the payments    *)
(* allocated to them (SupplierPaymentsService) and the lines both leave on *)
(* liability accounts (AccountingEngine), while an administrator edits the *)
(* chart of accounts (AccountMapping is what the engine sees of it): the   *)
(* account of ACCOUNTS_PAYABLE may be another one when an invoice is paid  *)
(* than when it was confirmed.                                             *)
(*                                                                         *)
(* Identifiers of invoices are numbers, because a payment locks its        *)
(* invoices in ascending order.                                            *)
(***************************************************************************)
EXTENDS AccountMapping, Integers, FiniteSets, Functions

CONSTANTS
  Invoices,
  Totals,           \* totals that each invoice may have
  Payments,
  Amounts,          \* amounts that may be allocated
  IdempotencyKeys,
  PayableKey,       \* the system key ACCOUNTS_PAYABLE
  Requests, NoRequest

ASSUME PurchaseLedgerAssumption ==
  /\ Invoices \subseteq Nat /\ IsFiniteSet(Invoices)
  /\ IsFiniteSet(Payments)                        \* identifiers are UUIDs
  /\ Totals \in [Invoices -> SUBSET (Nat \ {0})] /\ Amounts \subseteq Nat \ {0}
  /\ Invoices \cap Payments = {}
  /\ PayableKey \in Keys
  /\ NoAccount \notin Accounts
  /\ NoRequest \notin Requests

VARIABLES
  invoices, payments,
  lines,          \* entry lines on liability accounts, append-only
  invoiceLock,
  settingsLock,   \* who has locked the row of company_settings
  pc,
  reqInvoices,    \* the invoices that a request works on
  reqPayment,     \* the payment that it is about to insert
  reqAccount      \* the account it has resolved

rows  == <<invoices, payments, lines>>
locks == <<invoiceLock, settingsLock>>
reqs  == <<pc, reqInvoices, reqPayment, reqAccount>>
vars  == <<mapping, rows, locks, reqs>>

NoInvoice == [status |-> "NONE"]
NoPayment == [status |-> "NONE"]

Invoice(i) == [status : {"DRAFT", "CONFIRMED", "CANCELLED"}, total : Totals[i],
               account : Accounts \cup {NoAccount}]

\* A payment has at least one allocation, and none is repeated.
Allocations == UNION {[is -> Amounts] : is \in (SUBSET Invoices) \ {{}}}

Payment == [status : {"ACTIVE", "CANCELLED"}, allocation : Allocations,
            key : {{}} \cup {{k} : k \in IdempotencyKeys}]

\* Positive amounts are credits, negative ones debits.
Line(source, event, account, credit) ==
  [source |-> source, event |-> event, account |-> account, credit |-> credit]

Init ==
  /\ MappingInit
  /\ invoices = [i \in Invoices |-> NoInvoice]
  /\ payments = [p \in Payments |-> NoPayment]
  /\ lines = {}
  /\ invoiceLock = [i \in Invoices |-> NoRequest]
  /\ settingsLock = NoRequest
  /\ pc = [r \in Requests |-> "idle"]
  /\ reqInvoices = [r \in Requests |-> {}]
  /\ reqPayment = [r \in Requests |-> NoPayment]
  /\ reqAccount = [r \in Requests |-> NoAccount]

Goto(r, place) == pc' = [pc EXCEPT ![r] = place]

EndTransaction(r) ==
  /\ invoiceLock' = [i \in Invoices |-> IF invoiceLock[i] = r THEN NoRequest ELSE invoiceLock[i]]
  /\ settingsLock' = IF settingsLock = r THEN NoRequest ELSE settingsLock
  /\ Goto(r, "idle")
  /\ reqInvoices' = [reqInvoices EXCEPT ![r] = {}]
  /\ reqPayment' = [reqPayment EXCEPT ![r] = NoPayment]
  /\ reqAccount' = [reqAccount EXCEPT ![r] = NoAccount]

\* reverseOriginalForSource: the lines of the original with their sides swapped,
\* on the accounts they were posted to, whatever those are now.
ReversalOf(source) ==
  {Line(source, "REVERSAL", l.account, -l.credit) :
     l \in {l \in lines : l.source = source /\ l.event = "ORIGINAL"}}

Posted(newLines) == lines' = lines \cup newLines /\ UNCHANGED mapping

-----------------------------------------------------------------------------
(* PurchaseInvoicesService *)

\* create(): the settings are locked only to read them.
CreateInvoice(i, total) ==
  /\ invoices[i] = NoInvoice
  /\ settingsLock = NoRequest
  /\ invoices' = [invoices EXCEPT ![i] =
       [status |-> "DRAFT", total |-> total, account |-> NoAccount]]
  /\ UNCHANGED <<mapping, payments, lines, locks, reqs>>

\* update(): one transaction that locks the invoice and reads nothing else that
\* changes here.
EditInvoice(i, total) ==
  /\ invoiceLock[i] = NoRequest
  /\ invoices[i].status = "DRAFT"
  /\ invoices' = [invoices EXCEPT ![i].total = total]
  /\ UNCHANGED <<mapping, payments, lines, locks, reqs>>

\* lockInvoice, and the status that the operation asks for.
LockOneInvoice(r, i, status, next) ==
  /\ pc[r] = "idle"
  /\ invoiceLock[i] = NoRequest
  /\ invoices[i].status = status
  /\ invoiceLock' = [invoiceLock EXCEPT ![i] = r]
  /\ reqInvoices' = [reqInvoices EXCEPT ![r] = {i}]
  /\ Goto(r, next)
  /\ UNCHANGED <<mapping, rows, settingsLock, reqPayment, reqAccount>>

BeginConfirm(r, i) == LockOneInvoice(r, i, "DRAFT", "confirm")

\* resolvePurchaseDestinationAccounts: 409 while nobody holds the key.
ResolvePayable(r, a) ==
  /\ pc[r] = "confirm"
  /\ a = holder[PayableKey] /\ a \in usable
  /\ reqAccount' = [reqAccount EXCEPT ![r] = a]
  /\ Goto(r, "resolved")
  /\ UNCHANGED <<mapping, rows, locks, reqInvoices, reqPayment>>

\* postPurchaseRecognition: the only credit of the entry is the total payable.
CommitConfirm(r) ==
  /\ pc[r] = "resolved"
  /\ \E i \in reqInvoices[r] :
       /\ invoices' = [invoices EXCEPT ![i].status = "CONFIRMED", ![i].account = reqAccount[r]]
       /\ Posted({Line(i, "ORIGINAL", reqAccount[r], invoices[i].total)})
  /\ EndTransaction(r)
  /\ UNCHANGED payments

BeginCancel(r, i) == LockOneInvoice(r, i, "CONFIRMED", "cancel")

ActivePayments(i) ==
  {p \in Payments : payments[p].status = "ACTIVE" /\ i \in DOMAIN payments[p].allocation}

\* Payments are not cancelled in cascade.
CommitCancel(r) ==
  /\ pc[r] = "cancel"
  /\ \E i \in reqInvoices[r] :
       /\ ActivePayments(i) = {}
       /\ invoices' = [invoices EXCEPT ![i].status = "CANCELLED"]
       /\ Posted(ReversalOf(i))
  /\ EndTransaction(r)
  /\ UNCHANGED payments

-----------------------------------------------------------------------------
(* SupplierPaymentsService.create() *)

KeyUsed(key) == \E p \in Payments : payments[p] # NoPayment /\ payments[p].key \cap key # {}

\* A key that some payment has is answered with that payment.
BeginPayment(r, allocation, key) ==
  /\ pc[r] = "idle"
  /\ ~KeyUsed(key)
  /\ reqInvoices' = [reqInvoices EXCEPT ![r] = DOMAIN allocation]
  /\ reqPayment' = [reqPayment EXCEPT ![r] =
       [status |-> "ACTIVE", allocation |-> allocation, key |-> key]]
  /\ Goto(r, "lock")
  /\ UNCHANGED <<mapping, rows, locks, reqAccount>>

Unlocked(r) == {i \in reqInvoices[r] : invoiceLock[i] # r}

TakeLock(r, i) ==
  /\ pc[r] = "lock"
  /\ invoiceLock[i] = NoRequest
  /\ invoiceLock' = [invoiceLock EXCEPT ![i] = r]
  /\ UNCHANGED <<mapping, rows, settingsLock, reqs>>

\* Mutated form: in the order in which the client lists them.
LockAsListed(r) == \E i \in Unlocked(r) : TakeLock(r, i)

\* SELECT ... ORDER BY id FOR UPDATE locks the rows one by one.
LockNextInvoice(r) ==
  \E i \in Unlocked(r) : (\A j \in Unlocked(r) : i <= j) /\ TakeLock(r, i)

\* Mutated form: the invoices are read without a lock.
LockOnlySettings(r) ==
  /\ pc[r] = "lock"
  /\ \A i \in reqInvoices[r] : invoices[i].status = "CONFIRMED"
  /\ settingsLock = NoRequest
  /\ settingsLock' = r
  /\ Goto(r, "balance")
  /\ UNCHANGED <<mapping, rows, invoiceLock, reqInvoices, reqPayment, reqAccount>>

\* All of them are locked and confirmed.
LockSettings(r) ==
  /\ pc[r] = "lock"
  /\ Unlocked(r) = {}
  /\ \A i \in reqInvoices[r] : invoices[i].status = "CONFIRMED"
  /\ settingsLock = NoRequest
  /\ settingsLock' = r
  /\ Goto(r, "balance")
  /\ UNCHANGED <<mapping, rows, invoiceLock, reqInvoices, reqPayment, reqAccount>>

Paid(i) == SumFunction([p \in ActivePayments(i) |-> payments[p].allocation[i]])

\* Mutated form: each payment is compared with the total alone.
FitsTotal(i, amount) == amount <= invoices[i].total

FitsBalance(i, amount) == amount <= invoices[i].total - Paid(i)

CheckBalance(r) ==
  /\ pc[r] = "balance"
  /\ \A i \in reqInvoices[r] : FitsBalance(i, reqPayment[r].allocation[i])
  /\ Goto(r, "post")
  /\ UNCHANGED <<mapping, rows, locks, reqInvoices, reqPayment, reqAccount>>

\* The account that the entry of the invoice credited.
LiabilityAccount(i) == invoices[i].account

\* groupLiabilityAmountsByAccount: one debit per account.
PaymentLines(p, allocation) ==
  LET over(a) == {i \in DOMAIN allocation : LiabilityAccount(i) = a}
  IN  {Line(p, "ORIGINAL", a, -SumFunction([i \in over(a) |-> allocation[i]])) :
         a \in {LiabilityAccount(i) : i \in DOMAIN allocation}}

\* postSupplierPaymentCollection asks that the accounts can still be posted to;
\* the index on the key refuses a second payment with it.
CommitPayment(r, p) ==
  LET new == reqPayment[r]
  IN  /\ pc[r] = "post"
      /\ payments[p] = NoPayment
      /\ \A i \in reqInvoices[r] : LiabilityAccount(i) \in usable
      /\ ~KeyUsed(new.key)
      /\ payments' = [payments EXCEPT ![p] = new]
      /\ Posted(PaymentLines(p, new.allocation))
      /\ EndTransaction(r)
      /\ UNCHANGED invoices

\* SupplierPaymentsService.cancel() locks the row of the payment and reads it and
\* its entry, which never change otherwise: it is one step.
CancelPayment(p) ==
  /\ payments[p].status = "ACTIVE"
  /\ payments' = [payments EXCEPT ![p].status = "CANCELLED"]
  /\ Posted(ReversalOf(p))
  /\ UNCHANGED <<invoices, locks, reqs>>

\* A refused check, a closed period, a lost connection.
RollBack(r) ==
  /\ pc[r] # "idle"
  /\ EndTransaction(r)
  /\ UNCHANGED <<mapping, rows>>

-----------------------------------------------------------------------------

Next ==
  \/ \E i \in Invoices : \E total \in Totals[i] : CreateInvoice(i, total) \/ EditInvoice(i, total)
  \/ \E r \in Requests :
       \/ \E i \in Invoices : BeginConfirm(r, i) \/ BeginCancel(r, i)
       \/ \E a \in Accounts : ResolvePayable(r, a)
       \/ CommitConfirm(r)
       \/ CommitCancel(r)
       \/ \E allocation \in Allocations, key \in {{}} \cup {{k} : k \in IdempotencyKeys} :
            BeginPayment(r, allocation, key)
       \/ LockNextInvoice(r)
       \/ LockSettings(r)
       \/ CheckBalance(r)
       \/ \E p \in Payments : CommitPayment(r, p)
       \/ RollBack(r)
  \/ \E p \in Payments : CancelPayment(p)
  \/ MappingNext /\ UNCHANGED <<rows, locks, reqs>>

Spec == Init /\ [][Next]_vars

-----------------------------------------------------------------------------
(* Properties *)

\* Rows, lines, locks and requests have the shape of the schema and the code.
TypeOK ==
  /\ holder \in [Keys -> Accounts \cup {NoAccount}] /\ usable \subseteq Accounts
  /\ DOMAIN invoices = Invoices /\ \A i \in Invoices : invoices[i] \in Invoice(i) \cup {NoInvoice}
  /\ payments \in [Payments -> Payment \cup {NoPayment}]
  /\ \A l \in lines : /\ l.source \in Invoices \cup Payments
                      /\ l.event \in {"ORIGINAL", "REVERSAL"}
                      /\ l.account \in Accounts /\ l.credit \in Int
  /\ invoiceLock \in [Invoices -> Requests \cup {NoRequest}]
  /\ settingsLock \in Requests \cup {NoRequest}
  /\ pc \in [Requests -> {"idle", "confirm", "resolved", "cancel",
                          "lock", "balance", "post"}]
  /\ reqInvoices \in [Requests -> SUBSET Invoices]
  /\ reqPayment \in [Requests -> Payment \cup {NoPayment}]
  /\ reqAccount \in [Requests -> Accounts \cup {NoAccount}]

\* A payment only stands on invoices that stand: cancelling an invoice and
\* paying it exclude each other, whichever comes first.
PaidInvoicesStand ==
  \A i \in Invoices : ActivePayments(i) # {} => invoices[i].status = "CONFIRMED"

Balance(a) == SumFunction([l \in {l \in lines : l.account = a} |-> l.credit])

Owed(a) ==
  SumFunction([i \in {i \in Invoices : invoices[i].status = "CONFIRMED" /\ invoices[i].account = a} |->
                 invoices[i].total - Paid(i)])

\* What each liability account owes is what its invoices still have to be paid,
\* as AccountsPayableService computes it: also after the key has moved to
\* another account, and whatever has been cancelled.
LedgerMatchesInvoices == \A a \in Accounts : Balance(a) = Owed(a)

\* Whom a request waits for, or will, to take the locks that it still needs.
WaitsFor(r) ==
  IF pc[r] = "lock"
  THEN ({invoiceLock[i] : i \in Unlocked(r)} \cup {settingsLock}) \ {NoRequest}
  ELSE {}

\* Requests never wait on each other in a circle, though payments hold some
\* invoices while they ask for others and for the settings.
NoCircularWait ==
  \A R \in (SUBSET Requests) \ {{}} : \E r \in R : WaitsFor(r) \cap R = {}

-----------------------------------------------------------------------------
(* The requests together behave as the abstract book of payables does. *)

BookOwed ==
  [i \in Invoices |-> IF invoices[i].status = "CONFIRMED" THEN invoices[i].total ELSE 0]

BookVoided == {i \in Invoices : invoices[i].status = "CANCELLED"}

BookSettled ==
  [p \in Payments |-> IF payments[p].status = "ACTIVE" THEN payments[p].allocation ELSE [i \in {} |-> 0]]

BookKeys == UNION {payments[p].key : p \in {p \in Payments : payments[p] # NoPayment}}

BookUndone == {p \in Payments : payments[p].status = "CANCELLED"}

Book == INSTANCE PayableBook WITH
  owed <- BookOwed, voided <- BookVoided, settled <- BookSettled, keys <- BookKeys, undone <- BookUndone

\* Every commit is one step of PayableBook, and nothing else is: payments that
\* share invoices never settle more than is owed between them, not even when one
\* is a retry of the other that started before it ended.
ImplementsPayableBook == Book!Spec
=============================================================================
