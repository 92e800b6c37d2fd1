---------------------------- MODULE SalePayments ----------------------------
(***************************************************************************)
(* The payments of sales: PaymentsService.register and cancel, the cascade *)
(* of SalesService.cancel, the initial payments of a new sale and the      *)
(* delivery of a sale, as transactions that take their row locks           *)
(* statement by statement.                                                 *)
(*                                                                         *)
(* A transaction keeps its own row versions in work[r] until it commits;   *)
(* until then nobody else sees them.                                       *)
(***************************************************************************)
EXTENDS Integers, FiniteSets, Functions

CONSTANTS
  Sales,        \* identifiers of sales
  GenericSales, \* those for the generic customer: never on credit
  Payments,     \* identifiers of payments
  Amounts,      \* amounts a payment may have
  Total,        \* total of each sale
  Requests,
  NoRequest

ASSUME SalePaymentsAssumption ==
  /\ GenericSales \subseteq Sales
  /\ Amounts \subseteq Nat \ {0}
  /\ Total \in [Sales -> Nat]
  /\ NoRequest \notin Requests
  /\ Sales \cap Payments = {}
  /\ IsFiniteSet(Payments)   \* identifiers are UUIDs

VARIABLES
  sales,         \* rows of sales
  payments,      \* rows of payments, committed
  entries,       \* accounting entries: <<source, event>>
  work,          \* uncommitted versions of payment rows
  saleLock, paymentLock,
  pc,            \* where each request stands
  reqSale,       \* the sales a request works on: one or none
  reqSum         \* the sum of active payments it has read

rows  == <<sales, payments, entries>>
locks == <<saleLock, paymentLock>>
vars  == <<rows, work, locks, pc, reqSale, reqSum>>

NoSale    == [status |-> "NONE"]
NoPayment == [status |-> "NONE"]
Payment   == [status : {"ACTIVE", "CANCELLED"}, sale : Sales, amount : Amounts]

SummaryOf(status, paid, balance) == [status |-> status, paid |-> paid, balance |-> balance]

\* deriveSalePaymentSummary, for 0 <= paid <= total
DeriveSummary(total, paid) ==
  CASE paid = total -> SummaryOf("PAID", paid, 0)
    [] paid = 0 /\ total # 0 -> SummaryOf("UNPAID", 0, total)
    [] OTHER -> SummaryOf("PARTIALLY_PAID", paid, total - paid)

Summaries(s) == {DeriveSummary(Total[s], paid) : paid \in 0..Total[s]}

Sale(s) == [status : {"ACTIVE", "CANCELLED"}, summary : Summaries(s),
            delivery : {"PENDING", "OBSERVED", "DELIVERED", "NOT_APPLICABLE"}]

\* The payments as the transaction of r sees them.
View(r) == [p \in Payments |-> IF p \in DOMAIN work[r] THEN work[r][p] ELSE payments[p]]

ActiveOf(rowsOf, s) ==
  {p \in Payments : rowsOf[p].status = "ACTIVE" /\ rowsOf[p].sale = s}

\* sumActiveForSale
SumActive(rowsOf, s) == SumFunction([p \in ActiveOf(rowsOf, s) |-> rowsOf[p].amount])

NoWork == [p \in {} |-> NoPayment]

\* Identifiers are fresh: no row has them, committed or not.
Unused(p) == payments[p] = NoPayment /\ \A r \in Requests : p \notin DOMAIN work[r]

Init ==
  /\ sales = [s \in Sales |-> NoSale]
  /\ payments = [p \in Payments |-> NoPayment]
  /\ entries = {}
  /\ work = [r \in Requests |-> NoWork]
  /\ saleLock = [s \in Sales |-> NoRequest]
  /\ paymentLock = [p \in Payments |-> NoRequest]
  /\ pc = [r \in Requests |-> "idle"]
  /\ reqSale = [r \in Requests |-> {}]
  /\ reqSum = [r \in Requests |-> 0]

Exists(s) == sales[s] # NoSale

Goto(r, place) == pc' = [pc EXCEPT ![r] = place]

Freed(lock, r) == [x \in DOMAIN lock |-> IF lock[x] = r THEN NoRequest ELSE lock[x]]

EndTransaction(r) ==
  /\ work' = [work EXCEPT ![r] = NoWork]
  /\ saleLock' = Freed(saleLock, r)
  /\ paymentLock' = Freed(paymentLock, r)
  /\ Goto(r, "idle")
  /\ reqSale' = [reqSale EXCEPT ![r] = {}]
  /\ reqSum' = [reqSum EXCEPT ![r] = 0]

\* lockSale: every operation on an existing sale starts with it.
LockSale(r, s, next) ==
  /\ pc[r] = "idle"
  /\ Exists(s)
  /\ saleLock[s] = NoRequest
  /\ saleLock' = [saleLock EXCEPT ![s] = r]
  /\ reqSale' = [reqSale EXCEPT ![r] = {s}]
  /\ Goto(r, next)
  /\ UNCHANGED <<rows, work, paymentLock, reqSum>>

\* A reversal needs an entry that has not been reversed.
Reversible(sources) ==
  \A x \in sources : <<x, "ORIGINAL">> \in entries /\ <<x, "REVERSAL">> \notin entries

Original(sources) == {<<x, "ORIGINAL">> : x \in sources}
Reversal(sources) == {<<x, "REVERSAL">> : x \in sources}

\* postSaleRecognition posts nothing for a sale without economic activity.
Recognised(s) == IF Total[s] > 0 THEN {s} ELSE {}

-----------------------------------------------------------------------------
(* SalesService.createDirect() and createFromQuote(): nobody sees the sale *)
(* before the commit, so its payments are one step with it.                *)

CreateSale(s, first, delivery) ==
  LET paid == SumFunction(first)
  IN  /\ ~Exists(s)
      /\ \A p \in DOMAIN first : Unused(p)
      /\ paid <= Total[s]
      /\ s \in GenericSales => paid = Total[s]
      /\ sales' = [sales EXCEPT ![s] =
           [status |-> "ACTIVE", summary |-> DeriveSummary(Total[s], paid),
            delivery |-> delivery]]
      /\ payments' = [p \in Payments |->
           IF p \in DOMAIN first
           THEN [status |-> "ACTIVE", sale |-> s, amount |-> first[p]]
           ELSE payments[p]]
      /\ entries' = entries \cup Original(Recognised(s) \cup DOMAIN first)
      /\ UNCHANGED <<work, locks, pc, reqSale, reqSum>>

-----------------------------------------------------------------------------
(* PaymentsService.register() and PaymentEngine.register() *)

\* Mutated form: the sale is read without FOR UPDATE.
BeginUnlocked(r, s) ==
  /\ pc[r] = "idle"
  /\ sales[s].status = "ACTIVE"
  /\ reqSale' = [reqSale EXCEPT ![r] = {s}]
  /\ Goto(r, "register")
  /\ UNCHANGED <<rows, work, locks, reqSum>>

BeginRegister(r, s) == sales[s].status = "ACTIVE" /\ LockSale(r, s, "register")

\* The amount is compared with the balance, the payment inserted.
InsertPayment(r, p, a) ==
  /\ pc[r] = "register"
  /\ Unused(p)
  /\ \A s \in reqSale[r] :
       /\ SumActive(View(r), s) + a <= Total[s]
       /\ work' = [work EXCEPT ![r] =
            [q \in {p} |-> [status |-> "ACTIVE", sale |-> s, amount |-> a]]]
  /\ Goto(r, "written")
  /\ UNCHANGED <<rows, locks, reqSale, reqSum>>

-----------------------------------------------------------------------------
(* PaymentsService.cancel() and PaymentEngine.cancel() *)

\* Mutated form: payments of the generic customer can be cancelled too.
BeginAnyCancel(r, s) == sales[s].status = "ACTIVE" /\ LockSale(r, s, "cancel")

BeginCancel(r, s) ==
  /\ sales[s].status = "ACTIVE"
  /\ s \notin GenericSales
  /\ LockSale(r, s, "cancel")

\* The row of the payment is locked by its id and its sale.
CancelPayment(r, p) ==
  /\ pc[r] = "cancel"
  /\ paymentLock[p] = NoRequest
  /\ \E s \in reqSale[r] : p \in ActiveOf(payments, s)
  /\ Reversible({p})
  /\ paymentLock' = [paymentLock EXCEPT ![p] = r]
  /\ work' = [work EXCEPT ![r] = [q \in {p} |-> [payments[p] EXCEPT !.status = "CANCELLED"]]]
  /\ Goto(r, "written")
  /\ UNCHANGED <<rows, saleLock, reqSale, reqSum>>

-----------------------------------------------------------------------------
(* PaymentEngine.recalculateSaleSummary(), at the end of both *)

\* A sum above the total is refused: the transaction can only roll back.
SumPayments(r) ==
  /\ pc[r] = "written"
  /\ \A s \in reqSale[r] :
       /\ SumActive(View(r), s) <= Total[s]
       /\ reqSum' = [reqSum EXCEPT ![r] = SumActive(View(r), s)]
  /\ Goto(r, "summed")
  /\ UNCHANGED <<rows, work, locks, reqSale>>

Inserted(r)  == {p \in DOMAIN work[r] : payments[p] = NoPayment}
Cancelled(r) == {p \in DOMAIN work[r] : work[r][p].status = "CANCELLED"}

\* The update needs the row of the sale, which the transaction has locked.
CommitSummary(r) ==
  /\ pc[r] = "summed"
  /\ \A s \in reqSale[r] : saleLock[s] \in {r, NoRequest}
  /\ sales' = [s \in Sales |->
       IF s \in reqSale[r]
       THEN [sales[s] EXCEPT !.summary = DeriveSummary(Total[s], reqSum[r])]
       ELSE sales[s]]
  /\ payments' = View(r)
  /\ entries' = entries \cup Original(Inserted(r)) \cup Reversal(Cancelled(r))
  /\ EndTransaction(r)

-----------------------------------------------------------------------------
(* SalesService.cancel(), as far as payments and entries go *)

BeginVoid(r, s) == sales[s].status = "ACTIVE" /\ LockSale(r, s, "void")

\* Mutated form: the payments are left as they are.
SkipActivePayments(r) ==
  /\ pc[r] = "void"
  /\ Goto(r, "voided")
  /\ UNCHANGED <<rows, work, locks, reqSale, reqSum>>

\* cancelAllActiveForSale: the active payments are locked and cancelled.
CancelActivePayments(r) ==
  /\ pc[r] = "void"
  /\ \A s \in reqSale[r] :
       LET active == ActiveOf(payments, s)
       IN  /\ \A p \in active : paymentLock[p] = NoRequest
           /\ Reversible(active)
           /\ paymentLock' = [p \in Payments |-> IF p \in active THEN r ELSE paymentLock[p]]
           /\ work' = [work EXCEPT ![r] =
                [p \in active |-> [payments[p] EXCEPT !.status = "CANCELLED"]]]
  /\ Goto(r, "voided")
  /\ UNCHANGED <<rows, saleLock, reqSale, reqSum>>

\* The summary of the sale is frozen as it was.
CommitVoid(r) ==
  /\ pc[r] = "voided"
  /\ \A s \in reqSale[r] :
       /\ Reversible(Recognised(s))
       /\ sales' = [sales EXCEPT ![s].status = "CANCELLED"]
       /\ entries' = entries \cup Reversal(Recognised(s) \cup Cancelled(r))
  /\ payments' = View(r)
  /\ EndTransaction(r)

-----------------------------------------------------------------------------
(* SalesService.markDelivered() and markObserved() *)

MoveDelivery(s, from, to) ==
  /\ Exists(s)
  /\ saleLock[s] = NoRequest
  /\ sales[s].status = "ACTIVE"
  /\ sales[s].delivery \in from
  /\ sales' = [sales EXCEPT ![s].delivery = to]
  /\ UNCHANGED <<payments, entries, work, locks, pc, reqSale, reqSum>>

MarkDelivered(s) == MoveDelivery(s, {"PENDING", "OBSERVED"}, "DELIVERED")
MarkObserved(s)  == MoveDelivery(s, {"PENDING"}, "OBSERVED")

\* A refused method or amount, a closed period, a lost connection.
RollBack(r) ==
  /\ pc[r] # "idle"
  /\ EndTransaction(r)
  /\ UNCHANGED rows

Batches == UNION {[ps -> Amounts] : ps \in SUBSET Payments}

Next ==
  \/ \E s \in Sales :
       \/ \E first \in Batches, d \in {"PENDING", "NOT_APPLICABLE"} : CreateSale(s, first, d)
       \/ MarkDelivered(s)
       \/ MarkObserved(s)
  \/ \E r \in Requests :
       \/ \E s \in Sales : BeginRegister(r, s) \/ BeginCancel(r, s) \/ BeginVoid(r, s)
       \/ \E p \in Payments : CancelPayment(r, p) \/ \E a \in Amounts : InsertPayment(r, p, a)
       \/ SumPayments(r)
       \/ CommitSummary(r)
       \/ CancelActivePayments(r)
       \/ CommitVoid(r)
       \/ RollBack(r)

Spec == Init /\ [][Next]_vars

-----------------------------------------------------------------------------
(* Properties *)

\* Rows, locks and requests have the shape the schema and the code give them.
TypeOK ==
  /\ DOMAIN sales = Sales
  /\ \A s \in Sales : sales[s] \in Sale(s) \cup {NoSale}
  /\ payments \in [Payments -> Payment \cup {NoPayment}]
  /\ entries \subseteq (Sales \cup Payments) \X {"ORIGINAL", "REVERSAL"}
  /\ DOMAIN work = Requests
  /\ \A r \in Requests :
       /\ DOMAIN work[r] \subseteq Payments
       /\ \A p \in DOMAIN work[r] : work[r][p] \in Payment
  /\ saleLock \in [Sales -> Requests \cup {NoRequest}]
  /\ paymentLock \in [Payments -> Requests \cup {NoRequest}]
  /\ pc \in [Requests -> {"idle", "register", "cancel", "written", "summed", "void", "voided"}]
  /\ reqSale \in [Requests -> SUBSET Sales]
  /\ reqSum \in [Requests -> Nat]

\* The three summary columns of a sale are those of its active payments,
\* although they are read, summed and written by different statements; they
\* stay below the total.
SummaryMatchesPayments ==
  \A s \in Sales : Exists(s) /\ sales[s].status = "ACTIVE" =>
    /\ SumActive(payments, s) <= Total[s]
    /\ sales[s].summary = DeriveSummary(Total[s], SumActive(payments, s))

\* What the entries of a sale and of its payments leave on the account of
\* receivables.
Receivable(s) ==
  LET of(event) == {p \in Payments : /\ payments[p] # NoPayment /\ payments[p].sale = s
                                     /\ <<p, event>> \in entries}
      amount(ps) == SumFunction([p \in ps |-> payments[p].amount])
      recognised == IF <<s, "ORIGINAL">> \in entries THEN Total[s] ELSE 0
      reversed   == IF <<s, "REVERSAL">> \in entries THEN Total[s] ELSE 0
  IN  (recognised - reversed) - (amount(of("ORIGINAL")) - amount(of("REVERSAL")))

\* The ledger says what the sale says: its balance while it is active, nothing
\* once it is cancelled.
LedgerMatchesSales ==
  \A s \in Sales : Exists(s) =>
    Receivable(s) = IF sales[s].status = "ACTIVE" THEN sales[s].summary.balance ELSE 0

\* A sale to the generic customer never owes anything: neither at its creation
\* nor by the cancellation of one of its payments.
GenericSaleIsPaid ==
  \A s \in GenericSales : Exists(s) => sales[s].summary.status = "PAID"

-----------------------------------------------------------------------------
(* The requests together behave as the abstract payment book does. *)

BookState == [s \in Sales |->
  IF ~Exists(s) THEN "none" ELSE IF sales[s].status = "ACTIVE" THEN "open" ELSE "void"]

BookHeld == [s \in Sales |-> [p \in ActiveOf(payments, s) |-> payments[p].amount]]

Book == INSTANCE PaymentBook WITH
  state <- BookState,
  held <- BookHeld,
  refunded <- {p \in Payments : payments[p].status = "CANCELLED"}

\* Every commit is one step of PaymentBook: requests on one sale never see each
\* other half done.
ImplementsPaymentBook == Book!Spec
=============================================================================
