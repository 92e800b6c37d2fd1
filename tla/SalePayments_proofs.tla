------------------------- MODULE SalePayments_proofs -------------------------
(***************************************************************************)
(* Proofs about SalePayments, for any sets of sales, payments and          *)
(* requests: its inductive invariant, the safety properties that follow    *)
(* from it, and that it implements PaymentBook.                            *)
(***************************************************************************)
EXTENDS SalePayments, RecursionTheorems

-----------------------------------------------------------------------------
(* The inductive invariant: what holds between two statements of a         *)
(* transaction, besides the properties themselves.                         *)

\* The one payment that a request has written and not yet committed: a new one,
\* or an active one that it cancels.
Inserting(r, s, p) ==
  payments[p] = NoPayment /\ work[r][p].status = "ACTIVE" /\ work[r][p].sale = s

Cancelling(r, s, p) ==
  p \in ActiveOf(payments, s) /\ work[r][p] = [payments[p] EXCEPT !.status = "CANCELLED"]

\* What a request knows of its sale, by the place it has reached.
Holds(r, s) ==
  /\ saleLock[s] = r
  /\ sales[s].status = "ACTIVE"
  /\ pc[r] \in {"cancel", "written", "summed"} => s \notin GenericSales
  /\ pc[r] \in {"register", "cancel", "void"} => DOMAIN work[r] = {}
  /\ pc[r] \in {"written", "summed"} =>
       \E p \in Payments : /\ DOMAIN work[r] = {p}
                           /\ Inserting(r, s, p) \/ Cancelling(r, s, p)
  /\ pc[r] = "voided" => /\ DOMAIN work[r] = ActiveOf(payments, s)
                         /\ \A p \in DOMAIN work[r] : Cancelling(r, s, p)
  /\ pc[r] = "summed" => /\ reqSum[r] = SumActive(View(r), s)
                         /\ reqSum[r] <= Total[s]

RequestOK(r) ==
  IF pc[r] = "idle"
  THEN reqSale[r] = {} /\ DOMAIN work[r] = {}
  ELSE \E s \in Sales : reqSale[r] = {s} /\ Holds(r, s)

\* Two requests never insert under one identifier.
InsertsApart ==
  \A r, q \in Requests : \A p \in Payments :
    p \in DOMAIN work[r] /\ p \in DOMAIN work[q] /\ payments[p] = NoPayment => r = q

\* Payments are of sales that exist, active ones of active sales.
PaymentsHaveSales ==
  \A p \in Payments :
    /\ payments[p] # NoPayment => Exists(payments[p].sale)
    /\ payments[p].status = "ACTIVE" => sales[payments[p].sale].status = "ACTIVE"

\* What has been posted for a payment, and for a sale.
PaymentPosted(p) ==
  /\ <<p, "ORIGINAL">> \in entries <=> payments[p] # NoPayment
  /\ <<p, "REVERSAL">> \in entries <=> payments[p].status = "CANCELLED"

SalePosted(s) ==
  /\ <<s, "ORIGINAL">> \in entries <=> Exists(s) /\ Total[s] > 0
  /\ <<s, "REVERSAL">> \in entries <=> sales[s].status = "CANCELLED" /\ Total[s] > 0

IInv ==
  /\ TypeOK
  /\ \A r \in Requests : RequestOK(r)
  /\ InsertsApart
  /\ PaymentsHaveSales
  /\ \A p \in Payments : PaymentPosted(p)
  /\ \A s \in Sales : SalePosted(s)
  /\ SummaryMatchesPayments
  /\ GenericSaleIsPaid

-----------------------------------------------------------------------------
(* Lemmas about the operators of the model *)

\* No row and no payment is a row that says it is active or cancelled.
LEMMA NoRows ==
  /\ \A s \in Sales : sales[s].status \in {"ACTIVE", "CANCELLED"} => Exists(s)
  /\ \A p \in Payments : payments[p].status \in {"ACTIVE", "CANCELLED"} => payments[p] # NoPayment
BY DEF Exists, NoSale, NoPayment

\* What sumActiveForSale returns is a natural number.
LEMMA SumActiveNat ==
  ASSUME SalePaymentsAssumption, NEW f, NEW s, \A p \in ActiveOf(f, s) : f[p].amount \in Amounts
  PROVE  SumActive(f, s) \in Nat
<1> DEFINE A == ActiveOf(f, s)
           g == [p \in A |-> f[p].amount]
<1>1. IsFiniteSet(A)
  BY FS_Subset DEF ActiveOf, SalePaymentsAssumption
<1>2. g \in [A -> Nat]
  BY DEF SalePaymentsAssumption
<1>3. SumFunction(g) \in Nat
  <2>. HIDE DEF A, g
  <2>. QED
    BY <1>1, <1>2, SumNat
<1>. QED
  BY <1>3 DEF SumActive

\* It depends on nothing but the active rows of the sale.
LEMMA SumActiveSame ==
  ASSUME NEW f, NEW g, NEW s, ActiveOf(f, s) = ActiveOf(g, s),
         \A p \in ActiveOf(f, s) : f[p] = g[p]
  PROVE  SumActive(f, s) = SumActive(g, s)
<1>1. [p \in ActiveOf(f, s) |-> f[p].amount] = [p \in ActiveOf(g, s) |-> g[p].amount]
  OBVIOUS
<1>. QED
  BY <1>1 DEF SumActive

\* A transaction reads rows, its own or those committed.
LEMMA ViewType ==
  ASSUME TypeOK, NEW r \in Requests
  PROVE  View(r) \in [Payments -> Payment \cup {NoPayment}]
BY DEF TypeOK, View

\* The sum that a request reads, of the committed rows or of its own.
LEMMA ViewSums ==
  ASSUME SalePaymentsAssumption, TypeOK, NEW r \in Requests, NEW s
  PROVE  SumActive(payments, s) \in Nat /\ SumActive(View(r), s) \in Nat
<1>1. \A p \in ActiveOf(payments, s) : payments[p].amount \in Amounts
  BY DEF TypeOK, ActiveOf, Payment, NoPayment
<1>2. \A p \in ActiveOf(View(r), s) : View(r)[p].amount \in Amounts
  <2>1. \A p \in Payments : View(r)[p] \in Payment \cup {NoPayment}
    BY ViewType
  <2>. QED
    BY <2>1 DEF ActiveOf, Payment, NoPayment
<1>. QED
  BY <1>1, <1>2, SumActiveNat

\* deriveSalePaymentSummary gives the columns of a sale, and a sale is only
\* PAID when nothing is left of its total.
LEMMA DerivedSummary ==
  ASSUME SalePaymentsAssumption, NEW s \in Sales, NEW paid \in Nat, paid <= Total[s]
  PROVE  /\ DeriveSummary(Total[s], paid) \in Summaries(s)
         /\ DeriveSummary(Total[s], paid).status = "PAID" <=> paid = Total[s]
         /\ DeriveSummary(Total[s], paid).balance = Total[s] - paid
<1>1. Total[s] \in Nat /\ paid \in 0..Total[s]
  BY DEF SalePaymentsAssumption
<1>2. DeriveSummary(Total[s], paid) \in Summaries(s)
  BY <1>1 DEF Summaries
<1>3. CASE paid = Total[s]
  BY <1>1, <1>2, <1>3 DEF DeriveSummary, SummaryOf
<1>4. CASE paid # Total[s] /\ paid = 0
  BY <1>1, <1>2, <1>4 DEF DeriveSummary, SummaryOf
<1>5. CASE paid # Total[s] /\ paid # 0
  BY <1>1, <1>2, <1>5 DEF DeriveSummary, SummaryOf
<1>. QED
  BY <1>3, <1>4, <1>5

-----------------------------------------------------------------------------
(* Initially *)

LEMMA InitIInv ==
  ASSUME SalePaymentsAssumption, Init
  PROVE  IInv
<1>1. TypeOK
  BY DEF Init, TypeOK, SalePaymentsAssumption, NoWork
<1>2. \A r \in Requests : RequestOK(r)
  BY DEF Init, RequestOK, NoWork
<1>3. InsertsApart
  BY DEF Init, InsertsApart, NoWork
<1>4. PaymentsHaveSales /\ (\A p \in Payments : PaymentPosted(p)) /\ \A s \in Sales : SalePosted(s)
  BY DEF Init, PaymentsHaveSales, PaymentPosted, SalePosted, Exists, NoPayment, NoSale
<1>5. SummaryMatchesPayments /\ GenericSaleIsPaid
  BY DEF Init, SummaryMatchesPayments, GenericSaleIsPaid, Exists, SalePaymentsAssumption
<1>. QED
  BY <1>1, <1>2, <1>3, <1>4, <1>5 DEF IInv

-----------------------------------------------------------------------------
(* What a step leaves alone *)

\* A request that does not take part in a step keeps what it holds, when the
\* step leaves its sale, the active payments of that sale and those that it has
\* written as they were.
LEMMA OthersStand ==
  ASSUME TypeOK, NEW q \in Requests, RequestOK(q),
         pc'[q] = pc[q], reqSale'[q] = reqSale[q], work'[q] = work[q], reqSum'[q] = reqSum[q],
         \A s \in reqSale[q] :
           /\ saleLock[s] = q => saleLock'[s] = q
           /\ sales'[s].status = sales[s].status
           /\ \A p \in Payments :
                p \in DOMAIN work[q] \/ p \in ActiveOf(payments, s) \/ p \in ActiveOf(payments', s)
                  => payments'[p] = payments[p]
  PROVE  RequestOK(q)'
<1>1. CASE pc[q] = "idle"
  BY <1>1 DEF RequestOK
<1>2. CASE pc[q] # "idle"
  <2>1. PICK s \in Sales : reqSale[q] = {s} /\ Holds(q, s)
    BY <1>2 DEF RequestOK
  <2>2. \A p \in Payments :
          p \in DOMAIN work[q] \/ p \in ActiveOf(payments, s) \/ p \in ActiveOf(payments', s)
            => payments'[p] = payments[p]
    BY <2>1
  <2>3. ActiveOf(payments', s) = ActiveOf(payments, s)
    BY <2>2 DEF ActiveOf
  <2>4. DOMAIN work[q] \subseteq Payments
    BY DEF TypeOK
  <2>5. \A p \in DOMAIN work[q] : /\ Inserting(q, s, p) => Inserting(q, s, p)'
                                  /\ Cancelling(q, s, p) => Cancelling(q, s, p)'
    BY <2>2, <2>3, <2>4 DEF Inserting, Cancelling
  <2>6. SumActive(View(q)', s) = SumActive(View(q), s)
    <3>1. \A p \in Payments : p \in ActiveOf(View(q), s) <=> p \in ActiveOf(View(q)', s)
      BY <2>2, <2>3 DEF View, ActiveOf
    <3>2. ActiveOf(View(q), s) = ActiveOf(View(q)', s)
      BY <3>1 DEF ActiveOf
    <3>3. \A p \in ActiveOf(View(q), s) : View(q)[p] = View(q)'[p]
      BY <2>2, <2>3 DEF View, ActiveOf
    <3>. QED
      BY <3>2, <3>3, SumActiveSame
  <2>7. Holds(q, s)'
    BY <2>1, <2>3, <2>5, <2>6 DEF Holds
  <2>. QED
    BY <1>2, <2>1, <2>7 DEF RequestOK
<1>. QED
  BY <1>1, <1>2

\* A step that writes no row keeps what is said of rows.
LEMMA RowsStand ==
  ASSUME IInv, UNCHANGED rows
  PROVE  /\ PaymentsHaveSales'
         /\ (\A p \in Payments : PaymentPosted(p))'
         /\ (\A s \in Sales : SalePosted(s))'
         /\ SummaryMatchesPayments'
         /\ GenericSaleIsPaid'
BY DEF IInv, rows, PaymentsHaveSales, PaymentPosted, SalePosted, SummaryMatchesPayments,
       GenericSaleIsPaid, Exists

\* Nor does it disturb the requests that do nothing in it.
LEMMA IdleRows ==
  ASSUME IInv, UNCHANGED rows, NEW r \in Requests, NEW q \in Requests \ {r},
         pc'[q] = pc[q], reqSale'[q] = reqSale[q], work'[q] = work[q], reqSum'[q] = reqSum[q],
         \A s \in Sales : saleLock[s] = q => saleLock'[s] = q
  PROVE  RequestOK(q)'
<1>1. reqSale[q] \subseteq Sales
  BY DEF IInv, TypeOK
<1>. QED
  BY <1>1, OthersStand DEF IInv, rows

-----------------------------------------------------------------------------
(* Steps that write no committed row *)

\* A step of one request that leaves the rows alone keeps the invariant when it
\* keeps the types, the request itself and the identifiers apart.
LEMMA RequestStep ==
  ASSUME IInv, UNCHANGED rows, NEW r \in Requests,
         \A q \in Requests \ {r} :
           /\ pc'[q] = pc[q] /\ reqSale'[q] = reqSale[q]
           /\ work'[q] = work[q] /\ reqSum'[q] = reqSum[q]
           /\ \A s \in Sales : saleLock[s] = q => saleLock'[s] = q,
         TypeOK', RequestOK(r)', InsertsApart'
  PROVE  IInv'
<1>1. \A q \in Requests : RequestOK(q)'
  BY IdleRows
<1>. QED
  BY <1>1, RowsStand DEF IInv

\* The first statement of each operation locks its sale.
LEMMA LockSaleStep ==
  ASSUME SalePaymentsAssumption, IInv, NEW r \in Requests, NEW s \in Sales,
         NEW next \in {"register", "cancel", "void"}, LockSale(r, s, next),
         sales[s].status = "ACTIVE", next = "cancel" => s \notin GenericSales
  PROVE  IInv'
<1>1. UNCHANGED rows /\ UNCHANGED work
  BY DEF LockSale
<1>2. TypeOK'
  BY DEF IInv, TypeOK, LockSale, Goto, rows
<1>3. \A q \in Requests \ {r} :
        /\ pc'[q] = pc[q] /\ reqSale'[q] = reqSale[q]
        /\ work'[q] = work[q] /\ reqSum'[q] = reqSum[q]
        /\ \A t \in Sales : saleLock[t] = q => saleLock'[t] = q
  BY DEF IInv, TypeOK, LockSale, Goto, SalePaymentsAssumption
<1>4. RequestOK(r)'
  <2>1. DOMAIN work[r] = {}
    BY DEF LockSale, IInv, RequestOK
  <2>2. pc'[r] = next /\ reqSale'[r] = {s} /\ saleLock'[s] = r
    BY DEF LockSale, Goto, IInv, TypeOK
  <2>3. Holds(r, s)'
    BY <1>1, <2>1, <2>2 DEF Holds, rows
  <2>. QED
    BY <2>2, <2>3 DEF RequestOK
<1>5. InsertsApart'
  BY <1>1 DEF IInv, InsertsApart, rows
<1>. QED
  BY <1>1, <1>2, <1>3, <1>4, <1>5, RequestStep

\* A payment is inserted while its sale is locked; a sale of the generic
\* customer has nothing left to be paid.
LEMMA InsertPaymentStep ==
  ASSUME SalePaymentsAssumption, IInv, NEW r \in Requests, NEW p \in Payments, NEW a \in Amounts,
         InsertPayment(r, p, a)
  PROVE  IInv'
<1>1. UNCHANGED rows /\ UNCHANGED locks /\ UNCHANGED reqSale /\ UNCHANGED reqSum
  BY DEF InsertPayment
<1>2. PICK s \in Sales : reqSale[r] = {s} /\ Holds(r, s)
  BY DEF InsertPayment, IInv, RequestOK
<1> DEFINE new == [status |-> "ACTIVE", sale |-> s, amount |-> a]
<1>3. /\ work' = [work EXCEPT ![r] = [q \in {p} |-> new]]
      /\ SumActive(View(r), s) + a <= Total[s]
      /\ Unused(p) /\ pc[r] = "register" /\ pc' = [pc EXCEPT ![r] = "written"]
  BY <1>2 DEF InsertPayment, Goto
<1>4. new \in Payment
  BY DEF Payment
<1>5. TypeOK'
  BY <1>1, <1>3, <1>4 DEF IInv, TypeOK, rows, locks
<1>6. s \notin GenericSales
  <2>1. DOMAIN work[r] = {}
    BY <1>2, <1>3 DEF Holds
  <2>2. \A x \in Payments : View(r)[x] = payments[x]
    BY <2>1 DEF View
  <2>3. ActiveOf(View(r), s) = ActiveOf(payments, s)
    BY <2>2 DEF ActiveOf
  <2>4. SumActive(View(r), s) = SumActive(payments, s)
    BY <2>2, <2>3, SumActiveSame DEF ActiveOf
  <2>5. SumActive(payments, s) \in Nat /\ a \in Nat \ {0} /\ Total[s] \in Nat
    BY ViewSums DEF IInv, SalePaymentsAssumption
  <2>6. SumActive(payments, s) <= Total[s] /\ SumActive(payments, s) # Total[s]
    BY <1>3, <2>4, <2>5
  <2>7. sales[s].summary = DeriveSummary(Total[s], SumActive(payments, s))
    BY <1>2, NoRows DEF Holds, IInv, SummaryMatchesPayments
  <2>8. sales[s].summary.status # "PAID"
    BY <2>5, <2>6, <2>7, DerivedSummary
  <2>. QED
    BY <1>2, <2>8, NoRows DEF Holds, IInv, GenericSaleIsPaid
<1>7. RequestOK(r)'
  <2>1. work'[r] = [q \in {p} |-> new] /\ pc'[r] = "written"
    BY <1>3 DEF IInv, TypeOK
  <2>2. Inserting(r, s, p)'
    BY <1>1, <1>3, <2>1 DEF Inserting, Unused, rows
  <2>3. Holds(r, s)'
    BY <1>1, <1>2, <1>6, <2>1, <2>2 DEF Holds, rows, locks
  <2>. QED
    BY <1>1, <1>2, <2>1, <2>3 DEF RequestOK
<1>8. InsertsApart'
  BY <1>1, <1>3 DEF IInv, TypeOK, InsertsApart, Unused, rows
<1>9. \A q \in Requests \ {r} : pc'[q] = pc[q] /\ work'[q] = work[q]
  BY <1>3 DEF IInv, TypeOK
<1>. QED
  BY <1>1, <1>5, <1>7, <1>8, <1>9, RequestStep DEF locks

\* An active row is a payment, and so is its cancelled version.
LEMMA ActiveRow ==
  ASSUME TypeOK, NEW s, NEW p \in ActiveOf(payments, s)
  PROVE  /\ p \in Payments /\ payments[p] \in Payment /\ payments[p] # NoPayment
         /\ payments[p].status = "ACTIVE" /\ payments[p].sale = s
         /\ [payments[p] EXCEPT !.status = "CANCELLED"] \in Payment
<1>1. p \in Payments /\ payments[p].status = "ACTIVE" /\ payments[p].sale = s
  BY DEF ActiveOf
<1>2. payments[p] # NoPayment /\ payments[p] \in Payment \cup {NoPayment}
  BY <1>1, NoRows DEF TypeOK
<1>3. payments[p] \in Payment
  BY <1>2
<1>. QED
  BY <1>1, <1>2, <1>3 DEF Payment

\* A payment to cancel is an active one of the locked sale.
LEMMA CancelPaymentStep ==
  ASSUME SalePaymentsAssumption, IInv, NEW r \in Requests, NEW p \in Payments,
         CancelPayment(r, p)
  PROVE  IInv'
<1>1. UNCHANGED rows /\ UNCHANGED <<saleLock, reqSale, reqSum>>
  BY DEF CancelPayment
<1>2. PICK s \in Sales : reqSale[r] = {s} /\ Holds(r, s)
  BY DEF CancelPayment, IInv, RequestOK
<1> DEFINE old == [payments[p] EXCEPT !.status = "CANCELLED"]
<1>3. /\ work' = [work EXCEPT ![r] = [q \in {p} |-> old]]
      /\ paymentLock' = [paymentLock EXCEPT ![p] = r]
      /\ p \in ActiveOf(payments, s)
      /\ pc[r] = "cancel" /\ pc' = [pc EXCEPT ![r] = "written"]
  BY <1>2 DEF CancelPayment, Goto
<1>4. old \in Payment /\ payments[p] # NoPayment
  BY <1>3, ActiveRow DEF IInv
<1>5. TypeOK'
  BY <1>1, <1>3, <1>4 DEF IInv, TypeOK, rows
<1>6. RequestOK(r)'
  <2>1. work'[r] = [q \in {p} |-> old] /\ pc'[r] = "written"
    BY <1>3 DEF IInv, TypeOK
  <2>2. Cancelling(r, s, p)'
    BY <1>1, <1>3, <2>1 DEF Cancelling, rows
  <2>3. Holds(r, s)'
    BY <1>1, <1>2, <1>3, <2>1, <2>2 DEF Holds, rows
  <2>. QED
    BY <1>1, <1>2, <2>1, <2>3 DEF RequestOK
<1>7. InsertsApart'
  BY <1>1, <1>3, <1>4 DEF IInv, TypeOK, InsertsApart, rows
<1>8. \A q \in Requests \ {r} : pc'[q] = pc[q] /\ work'[q] = work[q]
  BY <1>3 DEF IInv, TypeOK
<1>. QED
  BY <1>1, <1>5, <1>6, <1>7, <1>8, RequestStep

\* The sum that the summary will be computed from.
LEMMA SumPaymentsStep ==
  ASSUME SalePaymentsAssumption, IInv, NEW r \in Requests, SumPayments(r)
  PROVE  IInv'
<1>1. UNCHANGED rows /\ UNCHANGED work /\ UNCHANGED locks /\ UNCHANGED reqSale
  BY DEF SumPayments
<1>2. PICK s \in Sales : reqSale[r] = {s} /\ Holds(r, s)
  BY DEF SumPayments, IInv, RequestOK
<1>3. /\ reqSum' = [reqSum EXCEPT ![r] = SumActive(View(r), s)]
      /\ SumActive(View(r), s) <= Total[s]
      /\ pc[r] = "written" /\ pc' = [pc EXCEPT ![r] = "summed"]
  BY <1>2 DEF SumPayments, Goto
<1>4. SumActive(View(r), s) \in Nat
  BY ViewSums DEF IInv
<1>5. TypeOK'
  BY <1>1, <1>3, <1>4 DEF IInv, TypeOK, rows, locks
<1>6. RequestOK(r)'
  <2>1. pc'[r] = "summed" /\ reqSum'[r] = SumActive(View(r), s)
    BY <1>3 DEF IInv, TypeOK
  <2>2. View(r)' = View(r)
    BY <1>1 DEF View, rows
  <2>3. \A p : Inserting(r, s, p)' = Inserting(r, s, p) /\ Cancelling(r, s, p)' = Cancelling(r, s, p)
    BY <1>1 DEF Inserting, Cancelling, rows
  <2>4. Holds(r, s)'
    BY <1>1, <1>2, <1>3, <2>1, <2>2, <2>3 DEF Holds, rows, locks
  <2>. QED
    BY <1>1, <1>2, <2>1, <2>4 DEF RequestOK
<1>7. InsertsApart'
  BY <1>1 DEF IInv, InsertsApart, rows
<1>8. \A q \in Requests \ {r} : pc'[q] = pc[q] /\ reqSum'[q] = reqSum[q]
  BY <1>3 DEF IInv, TypeOK
<1>. QED
  BY <1>1, <1>5, <1>6, <1>7, <1>8, RequestStep DEF locks

\* The cascade writes a cancelled version of every active payment.
LEMMA CancelActivePaymentsStep ==
  ASSUME SalePaymentsAssumption, IInv, NEW r \in Requests, CancelActivePayments(r)
  PROVE  IInv'
<1>1. UNCHANGED rows /\ UNCHANGED <<saleLock, reqSale, reqSum>>
  BY DEF CancelActivePayments
<1>2. PICK s \in Sales : reqSale[r] = {s} /\ Holds(r, s)
  BY DEF CancelActivePayments, IInv, RequestOK
<1> DEFINE active == ActiveOf(payments, s)
           old == [p \in active |-> [payments[p] EXCEPT !.status = "CANCELLED"]]
<1>3. /\ work' = [work EXCEPT ![r] = old]
      /\ paymentLock' = [p \in Payments |-> IF p \in active THEN r ELSE paymentLock[p]]
      /\ pc[r] = "void" /\ pc' = [pc EXCEPT ![r] = "voided"]
  BY <1>2 DEF CancelActivePayments, Goto
<1>4. \A p \in active : p \in Payments /\ old[p] \in Payment /\ payments[p] # NoPayment
  BY ActiveRow DEF IInv
<1>5. TypeOK'
  BY <1>1, <1>3, <1>4 DEF IInv, TypeOK, rows
<1>6. RequestOK(r)'
  <2>1. work'[r] = old /\ pc'[r] = "voided"
    BY <1>3 DEF IInv, TypeOK
  <2>2. \A p \in active : Cancelling(r, s, p)'
    BY <1>1, <2>1 DEF Cancelling, rows
  <2>3. Holds(r, s)'
    BY <1>1, <1>2, <2>1, <2>2 DEF Holds, rows
  <2>. QED
    BY <1>1, <1>2, <2>1, <2>3 DEF RequestOK
<1>7. InsertsApart'
  BY <1>1, <1>3, <1>4 DEF IInv, TypeOK, InsertsApart, rows
<1>8. \A q \in Requests \ {r} : pc'[q] = pc[q] /\ work'[q] = work[q]
  BY <1>3 DEF IInv, TypeOK
<1>. QED
  BY <1>1, <1>5, <1>6, <1>7, <1>8, RequestStep

\* Ending a transaction lets go of what it holds, and of nothing else.
LEMMA Ended ==
  ASSUME SalePaymentsAssumption, TypeOK, NEW r \in Requests, EndTransaction(r)
  PROVE  /\ pc'[r] = "idle" /\ reqSale'[r] = {} /\ DOMAIN work'[r] = {}
         /\ \A q \in Requests \ {r} :
              /\ pc'[q] = pc[q] /\ reqSale'[q] = reqSale[q]
              /\ work'[q] = work[q] /\ reqSum'[q] = reqSum[q]
              /\ \A s \in Sales : saleLock[s] = q => saleLock'[s] = q
         /\ DOMAIN work' = Requests
         /\ \A q \in Requests : /\ DOMAIN work'[q] \subseteq Payments
                                /\ \A p \in DOMAIN work'[q] : work'[q][p] \in Payment
         /\ saleLock' \in [Sales -> Requests \cup {NoRequest}]
         /\ paymentLock' \in [Payments -> Requests \cup {NoRequest}]
         /\ pc' \in [Requests -> {"idle", "register", "cancel", "written", "summed", "void", "voided"}]
         /\ reqSale' \in [Requests -> SUBSET Sales]
         /\ reqSum' \in [Requests -> Nat]
<1>1. work' = [work EXCEPT ![r] = NoWork] /\ DOMAIN NoWork = {}
  BY DEF EndTransaction, NoWork
<1>. QED
  BY <1>1 DEF EndTransaction, Freed, Goto, TypeOK, SalePaymentsAssumption

\* A request that rolls back leaves no trace.
LEMMA RollBackStep ==
  ASSUME SalePaymentsAssumption, IInv, NEW r \in Requests, RollBack(r)
  PROVE  IInv'
<1>1. UNCHANGED rows /\ EndTransaction(r) /\ TypeOK
  BY DEF RollBack, IInv
<1>2. TypeOK'
  BY <1>1, Ended DEF TypeOK, rows
<1>3. RequestOK(r)'
  BY <1>1, Ended DEF RequestOK
<1>4. InsertsApart'
  BY <1>1, Ended DEF IInv, InsertsApart, rows
<1>. QED
  BY <1>1, <1>2, <1>3, <1>4, Ended, RequestStep

-----------------------------------------------------------------------------
(* Commits *)

\* What a request has written is of its sale; its rows and those of the other
\* requests are apart.
LEMMA Wrote ==
  ASSUME SalePaymentsAssumption, IInv, NEW r \in Requests, NEW s \in Sales,
         reqSale[r] = {s}, Holds(r, s), pc[r] \in {"summed", "voided"}
  PROVE  /\ \A p \in DOMAIN work[r] :
              /\ p \in Payments /\ work[r][p] \in Payment
              /\ Inserting(r, s, p) \/ Cancelling(r, s, p)
              /\ work[r][p].sale = s
         /\ \A q \in Requests \ {r} :
              /\ s \notin reqSale[q]
              /\ \A p \in DOMAIN work[q] : p \notin DOMAIN work[r]
<1>1. ASSUME NEW p \in DOMAIN work[r]
      PROVE  /\ p \in Payments /\ work[r][p] \in Payment
             /\ Inserting(r, s, p) \/ Cancelling(r, s, p)
             /\ work[r][p].sale = s
  <2>1. p \in Payments /\ work[r][p] \in Payment
    BY DEF IInv, TypeOK
  <2>2. Inserting(r, s, p) \/ Cancelling(r, s, p)
    BY DEF Holds
  <2>3. CASE Inserting(r, s, p)
    BY <2>1, <2>2, <2>3 DEF Inserting
  <2>4. CASE Cancelling(r, s, p)
    <3>1. work[r][p] = [payments[p] EXCEPT !.status = "CANCELLED"] /\ payments[p] \in Payment
          /\ payments[p].sale = s
      BY <2>4, ActiveRow DEF Cancelling, IInv
    <3>2. work[r][p].sale = s
      BY <3>1 DEF Payment
    <3>. QED
      BY <2>1, <2>2, <3>2
  <2>. QED
    BY <2>2, <2>3, <2>4
<1>2. ASSUME NEW q \in Requests \ {r}, s \in reqSale[q] PROVE FALSE
  <2>1. RequestOK(q)
    BY DEF IInv
  <2>2. pc[q] # "idle"
    BY <1>2, <2>1 DEF RequestOK
  <2>3. PICK t \in Sales : reqSale[q] = {t} /\ Holds(q, t)
    BY <2>1, <2>2 DEF RequestOK
  <2>4. t = s
    BY <1>2, <2>3
  <2>. QED
    BY <2>3, <2>4 DEF Holds
<1>3. ASSUME NEW q \in Requests \ {r}, NEW p \in DOMAIN work[q], p \in DOMAIN work[r] PROVE FALSE
  <2>1. RequestOK(q)
    BY DEF IInv
  <2>2. pc[q] # "idle"
    BY <1>3, <2>1 DEF RequestOK
  <2>3. PICK t \in Sales : reqSale[q] = {t} /\ Holds(q, t)
    BY <2>1, <2>2 DEF RequestOK
  <2>4. t # s
    BY <1>2, <2>3
  <2>5. p \in Payments
    BY <1>1, <1>3
  <2>6. pc[q] \in {"register", "cancel", "written", "summed", "void", "voided"}
    BY <2>2 DEF IInv, TypeOK
  <2>7. Inserting(q, t, p) \/ Cancelling(q, t, p)
    BY <2>3, <2>6 DEF Holds
  <2>8. ~(payments[p] = NoPayment)
    BY <1>3, <2>5 DEF IInv, InsertsApart
  <2>9. Cancelling(q, t, p) /\ Cancelling(r, s, p)
    BY <1>1, <1>3, <2>7, <2>8 DEF Inserting
  <2>. QED
    BY <2>4, <2>9 DEF Cancelling, ActiveOf
<1>. QED
  BY <1>1, <1>2, <1>3

\* A commit changes the payments of its own sale only.
LEMMA CommitElsewhere ==
  ASSUME SalePaymentsAssumption, IInv, NEW r \in Requests, NEW s \in Sales,
         reqSale[r] = {s}, Holds(r, s), pc[r] \in {"summed", "voided"},
         payments' = View(r), EndTransaction(r),
         \A t \in Sales \ {s} : sales'[t] = sales[t]
  PROVE  /\ \A q \in Requests : RequestOK(q)'
         /\ InsertsApart'
         /\ \A p \in Payments : payments'[p] = IF p \in DOMAIN work[r] THEN work[r][p] ELSE payments[p]
         /\ payments' \in [Payments -> Payment \cup {NoPayment}]
         /\ \A t \in Sales \ {s} : SumActive(payments', t) = SumActive(payments, t)
<1>1. \A p \in Payments : payments'[p] = IF p \in DOMAIN work[r] THEN work[r][p] ELSE payments[p]
  BY DEF View
<1>2. payments' \in [Payments -> Payment \cup {NoPayment}]
  BY ViewType DEF IInv
<1>3. ASSUME NEW t \in Sales \ {s}, NEW p \in Payments,
             p \in ActiveOf(payments, t) \/ p \in ActiveOf(payments', t)
      PROVE  p \notin DOMAIN work[r]
  <2>1. SUFFICES ASSUME p \in DOMAIN work[r] PROVE FALSE
    OBVIOUS
  <2>2. payments'[p] = work[r][p] /\ work[r][p].sale = s
    BY <1>1, <2>1, Wrote
  <2>3. p \notin ActiveOf(payments', t)
    BY <2>2 DEF ActiveOf
  <2>4. p \in ActiveOf(payments, t)
    BY <1>3, <2>3
  <2>5. payments[p] # NoPayment /\ payments[p].sale = t
    BY <2>4, ActiveRow DEF IInv
  <2>6. Cancelling(r, s, p)
    BY <2>1, <2>5, Wrote DEF Inserting
  <2>. QED
    BY <2>5, <2>6 DEF Cancelling, ActiveOf
<1>4. ASSUME NEW q \in Requests PROVE RequestOK(q)'
  <2>1. CASE q = r
    BY <2>1, Ended DEF RequestOK, IInv
  <2>2. CASE q # r
    <3>1. /\ pc'[q] = pc[q] /\ reqSale'[q] = reqSale[q]
          /\ work'[q] = work[q] /\ reqSum'[q] = reqSum[q]
          /\ \A t \in Sales : saleLock[t] = q => saleLock'[t] = q
      BY <2>2, Ended DEF IInv
    <3>2. reqSale[q] \subseteq Sales \ {s}
      BY <2>2, Wrote DEF IInv, TypeOK
    <3>3. \A p \in DOMAIN work[q] : p \notin DOMAIN work[r]
      BY <2>2, Wrote
    <3>4. ASSUME NEW t \in reqSale[q]
          PROVE  /\ saleLock[t] = q => saleLock'[t] = q
                 /\ sales'[t].status = sales[t].status
                 /\ \A p \in Payments :
                      p \in DOMAIN work[q] \/ p \in ActiveOf(payments, t) \/ p \in ActiveOf(payments', t)
                        => payments'[p] = payments[p]
      BY <1>1, <1>3, <3>1, <3>2, <3>3
    <3>. QED
      BY <3>1, <3>4, OthersStand DEF IInv
  <2>. QED
    BY <2>1, <2>2
<1>5. InsertsApart'
  <2>1. SUFFICES ASSUME NEW a \in Requests, NEW b \in Requests, NEW p \in Payments,
                        p \in DOMAIN work'[a], p \in DOMAIN work'[b], payments'[p] = NoPayment
                 PROVE  a = b
    BY DEF InsertsApart
  <2>2. a # r /\ b # r
    BY <2>1, Ended DEF IInv
  <2>3. p \in DOMAIN work[a] /\ p \in DOMAIN work[b]
    BY <2>1, <2>2, Ended DEF IInv
  <2>4. payments[p] = NoPayment
    BY <1>1, <2>1, <2>2, <2>3, Wrote
  <2>. QED
    BY <2>3, <2>4 DEF IInv, InsertsApart
<1>6. ASSUME NEW t \in Sales \ {s} PROVE SumActive(payments', t) = SumActive(payments, t)
  <2>1. \A p \in Payments : p \in ActiveOf(payments, t) \/ p \in ActiveOf(payments', t)
                              => payments'[p] = payments[p]
    BY <1>1, <1>3
  <2>2. ActiveOf(payments', t) = ActiveOf(payments, t)
    BY <2>1 DEF ActiveOf
  <2>3. \A p \in ActiveOf(payments', t) : payments'[p] = payments[p]
    BY <2>1 DEF ActiveOf
  <2>. QED
    BY <2>2, <2>3, SumActiveSame
<1>. QED
  BY <1>1, <1>2, <1>4, <1>5, <1>6

\* The rows and the entries of payments after a commit.
LEMMA CommittedPayments ==
  ASSUME SalePaymentsAssumption, IInv, NEW r \in Requests, NEW s \in Sales,
         reqSale[r] = {s}, Holds(r, s), pc[r] \in {"summed", "voided"},
         \A p \in Payments : payments'[p] = IF p \in DOMAIN work[r] THEN work[r][p] ELSE payments[p],
         NEW X \in SUBSET Sales, NEW Y \in SUBSET Sales,
         entries' = entries \cup Original(X \cup Inserted(r)) \cup Reversal(Y \cup Cancelled(r))
  PROVE  /\ (\A p \in Payments : PaymentPosted(p))'
         /\ \A t \in Sales : /\ <<t, "ORIGINAL">> \in entries' <=> <<t, "ORIGINAL">> \in entries \/ t \in X
                             /\ <<t, "REVERSAL">> \in entries' <=> <<t, "REVERSAL">> \in entries \/ t \in Y
         /\ entries' \subseteq (Sales \cup Payments) \X {"ORIGINAL", "REVERSAL"}
<1>1. \A p \in DOMAIN work[r] : p \in Payments /\ p \notin Sales
  BY Wrote DEF SalePaymentsAssumption
<1>2. Inserted(r) \subseteq Payments /\ Cancelled(r) \subseteq Payments
  BY <1>1 DEF Inserted, Cancelled
<1>3. ASSUME NEW p \in Payments PROVE PaymentPosted(p)'
  <2>1. PaymentPosted(p) /\ p \notin X /\ p \notin Y
    BY DEF IInv, SalePaymentsAssumption
  <2>2. /\ <<p, "ORIGINAL">> \in entries' <=> <<p, "ORIGINAL">> \in entries \/ p \in Inserted(r)
        /\ <<p, "REVERSAL">> \in entries' <=> <<p, "REVERSAL">> \in entries \/ p \in Cancelled(r)
    BY <2>1 DEF Original, Reversal
  <2>3. CASE p \notin DOMAIN work[r]
    <3>1. p \notin Inserted(r) /\ p \notin Cancelled(r) /\ payments'[p] = payments[p]
      BY <2>3 DEF Inserted, Cancelled
    <3>. QED
      BY <2>1, <2>2, <3>1 DEF PaymentPosted
  <2>4. CASE p \in DOMAIN work[r] /\ Inserting(r, s, p)
    <3>1. /\ payments'[p].status = "ACTIVE" /\ payments'[p] # NoPayment /\ payments[p] = NoPayment
          /\ p \in Inserted(r) /\ p \notin Cancelled(r)
      BY <2>4 DEF Inserted, Cancelled, Inserting, NoPayment
    <3>2. payments[p].status # "CANCELLED"
      BY <3>1 DEF NoPayment
    <3>. QED
      BY <2>1, <2>2, <3>1, <3>2 DEF PaymentPosted
  <2>5. CASE p \in DOMAIN work[r] /\ Cancelling(r, s, p)
    <3>1. payments[p] \in Payment /\ payments[p] # NoPayment
      BY <2>5, ActiveRow DEF Cancelling, IInv
    <3>2. payments'[p].status = "CANCELLED" /\ work[r][p].status = "CANCELLED"
      BY <2>5, <3>1 DEF Cancelling, Payment
    <3>3. payments'[p] # NoPayment /\ p \notin Inserted(r) /\ p \in Cancelled(r)
      BY <2>5, <3>1, <3>2 DEF Inserted, Cancelled, NoPayment
    <3>. QED
      BY <2>1, <2>2, <3>1, <3>2, <3>3 DEF PaymentPosted
  <2>. QED
    BY <2>3, <2>4, <2>5, Wrote
<1>4. ASSUME NEW t \in Sales
      PROVE  /\ <<t, "ORIGINAL">> \in entries' <=> <<t, "ORIGINAL">> \in entries \/ t \in X
             /\ <<t, "REVERSAL">> \in entries' <=> <<t, "REVERSAL">> \in entries \/ t \in Y
  <2>1. t \notin Inserted(r) /\ t \notin Cancelled(r)
    BY <1>1 DEF Inserted, Cancelled
  <2>. QED
    BY <2>1 DEF Original, Reversal
<1>5. entries' \subseteq (Sales \cup Payments) \X {"ORIGINAL", "REVERSAL"}
  BY <1>2 DEF IInv, TypeOK, Original, Reversal
<1>. QED
  BY <1>3, <1>4, <1>5

\* A payment that is collected or cancelled, with the summary of its sale.
LEMMA CommitSummaryStep ==
  ASSUME SalePaymentsAssumption, IInv, NEW r \in Requests, CommitSummary(r)
  PROVE  IInv'
<1>1. PICK s \in Sales : reqSale[r] = {s} /\ Holds(r, s)
  BY DEF CommitSummary, IInv, RequestOK
<1>2. /\ pc[r] = "summed" /\ payments' = View(r) /\ EndTransaction(r)
      /\ entries' = entries \cup Original({} \cup Inserted(r)) \cup Reversal({} \cup Cancelled(r))
  BY DEF CommitSummary
<1> DEFINE summary == DeriveSummary(Total[s], reqSum[r])
<1>3. \A t \in Sales : sales'[t] = IF t = s THEN [sales[t] EXCEPT !.summary = summary] ELSE sales[t]
  BY <1>1 DEF CommitSummary
<1>4. /\ reqSum[r] \in Nat /\ reqSum[r] <= Total[s] /\ reqSum[r] = SumActive(payments', s)
      /\ s \notin GenericSales
  BY <1>1, <1>2 DEF Holds, IInv, TypeOK
<1>5. sales[s] \in Sale(s) /\ sales[s].status = "ACTIVE" /\ Exists(s)
  BY <1>1, NoRows DEF Holds, IInv, TypeOK, Exists
<1>6. sales'[s] \in Sale(s) /\ sales'[s].status = "ACTIVE" /\ sales'[s].summary = summary
  <2>1. summary \in Summaries(s)
    BY <1>4, DerivedSummary
  <2>. HIDE DEF summary
  <2>. QED
    BY <1>3, <1>5, <2>1 DEF Sale
<1>7. /\ \A q \in Requests : RequestOK(q)'
      /\ InsertsApart'
      /\ \A p \in Payments : payments'[p] = IF p \in DOMAIN work[r] THEN work[r][p] ELSE payments[p]
      /\ payments' \in [Payments -> Payment \cup {NoPayment}]
      /\ \A t \in Sales \ {s} : SumActive(payments', t) = SumActive(payments, t)
  BY <1>1, <1>2, <1>3, CommitElsewhere
<1>8. \A t \in Sales : Exists(t)' = Exists(t) /\ sales'[t].status = sales[t].status
  BY <1>3, <1>5, <1>6, ZenonT(60) DEF Exists, Sale, NoSale
<1>9. /\ (\A p \in Payments : PaymentPosted(p))'
      /\ \A t \in Sales : /\ <<t, "ORIGINAL">> \in entries' <=> <<t, "ORIGINAL">> \in entries
                          /\ <<t, "REVERSAL">> \in entries' <=> <<t, "REVERSAL">> \in entries
      /\ entries' \subseteq (Sales \cup Payments) \X {"ORIGINAL", "REVERSAL"}
  BY <1>1, <1>2, <1>7, CommittedPayments
<1>10. TypeOK'
  <2>1. DOMAIN sales' = Sales
    BY DEF CommitSummary
  <2>2. \A t \in Sales : (sales'[t] \in Sale(t) \cup {NoSale})
    BY <1>3, <1>6 DEF IInv, TypeOK
  <2>. QED
    BY <1>2, <1>7, <1>9, <2>1, <2>2, Ended DEF IInv, TypeOK
<1>11. PaymentsHaveSales'
  <2>1. SUFFICES ASSUME NEW p \in Payments
                 PROVE  /\ payments'[p] # NoPayment => sales'[payments'[p].sale] # NoSale
                        /\ payments'[p].status = "ACTIVE" => sales'[payments'[p].sale].status = "ACTIVE"
    BY DEF PaymentsHaveSales, Exists
  <2>2. CASE p \in DOMAIN work[r]
    <3>1. payments'[p].sale = s
      BY <1>1, <1>2, <1>7, <2>2, Wrote
    <3>2. sales'[s] # NoSale
      BY <1>5, <1>8 DEF Exists
    <3>. QED
      BY <1>6, <3>1, <3>2
  <2>3. CASE p \notin DOMAIN work[r]
    <3>1. payments'[p] = payments[p]
      BY <1>7, <2>3
    <3>2. payments[p] = NoPayment \/ payments[p].sale \in Sales
      BY DEF IInv, TypeOK, Payment
    <3>3. NoPayment.status # "ACTIVE"
      BY DEF NoPayment
    <3>. QED
      BY <1>8, <3>1, <3>2, <3>3 DEF IInv, PaymentsHaveSales, Exists
  <2>. QED
    BY <2>2, <2>3
<1>12. (\A t \in Sales : SalePosted(t))'
  BY <1>8, <1>9 DEF IInv, SalePosted
<1>13. SummaryMatchesPayments'
  <2>1. SUFFICES ASSUME NEW t \in Sales, Exists(t)', sales'[t].status = "ACTIVE"
                 PROVE  /\ SumActive(payments', t) <= Total[t]
                        /\ sales'[t].summary = DeriveSummary(Total[t], SumActive(payments', t))
    BY DEF SummaryMatchesPayments
  <2>2. CASE t = s
    BY <1>4, <1>6, <2>2
  <2>3. CASE t # s
    BY <1>3, <1>7, <1>8, <2>1, <2>3 DEF IInv, SummaryMatchesPayments
  <2>. QED
    BY <2>2, <2>3
<1>14. GenericSaleIsPaid'
  BY <1>3, <1>4, <1>8 DEF IInv, GenericSaleIsPaid, SalePaymentsAssumption
<1>. QED
  BY <1>7, <1>9, <1>10, <1>11, <1>12, <1>13, <1>14 DEF IInv

\* A sale that is cancelled with every active payment it had.
LEMMA CommitVoidStep ==
  ASSUME SalePaymentsAssumption, IInv, NEW r \in Requests, CommitVoid(r)
  PROVE  IInv'
<1>1. PICK s \in Sales : reqSale[r] = {s} /\ Holds(r, s)
  BY DEF CommitVoid, IInv, RequestOK
<1>2. /\ pc[r] = "voided" /\ payments' = View(r) /\ EndTransaction(r)
      /\ sales' = [sales EXCEPT ![s].status = "CANCELLED"]
      /\ entries' = entries \cup Reversal(Recognised(s) \cup Cancelled(r))
  BY <1>1 DEF CommitVoid
<1>3. /\ DOMAIN work[r] = ActiveOf(payments, s)
      /\ \A p \in DOMAIN work[r] : work[r][p].status = "CANCELLED" /\ payments[p] # NoPayment
  <2>1. DOMAIN work[r] = ActiveOf(payments, s) /\ \A p \in DOMAIN work[r] : Cancelling(r, s, p)
    BY <1>1, <1>2 DEF Holds
  <2>2. ASSUME NEW p \in DOMAIN work[r]
        PROVE  work[r][p].status = "CANCELLED" /\ payments[p] # NoPayment
    <3>1. payments[p] \in Payment /\ payments[p] # NoPayment
      BY <2>1, <2>2, ActiveRow DEF IInv
    <3>2. work[r][p] = [payments[p] EXCEPT !.status = "CANCELLED"]
      BY <2>1, <2>2 DEF Cancelling
    <3>. QED
      BY <3>1, <3>2 DEF Payment
  <2>. QED
    BY <2>1, <2>2
<1>4. Inserted(r) = {}
  BY <1>3 DEF Inserted
<1>5. sales[s] \in Sale(s) /\ sales[s].status = "ACTIVE" /\ Exists(s)
  BY <1>1, NoRows DEF Holds, IInv, TypeOK, Exists
<1>6. /\ sales'[s] \in Sale(s) /\ sales'[s].status = "CANCELLED"
      /\ sales'[s].summary = sales[s].summary
      /\ \A t \in Sales \ {s} : sales'[t] = sales[t]
  BY <1>2, <1>5 DEF Sale, IInv, TypeOK
<1>7. /\ \A q \in Requests : RequestOK(q)'
      /\ InsertsApart'
      /\ \A p \in Payments : payments'[p] = IF p \in DOMAIN work[r] THEN work[r][p] ELSE payments[p]
      /\ payments' \in [Payments -> Payment \cup {NoPayment}]
      /\ \A t \in Sales \ {s} : SumActive(payments', t) = SumActive(payments, t)
  BY <1>1, <1>2, <1>6, CommitElsewhere
<1>8. \A t \in Sales : Exists(t)' = Exists(t)
  BY <1>5, <1>6 DEF Exists, Sale, NoSale
<1>9. /\ (\A p \in Payments : PaymentPosted(p))'
      /\ \A t \in Sales :
           /\ <<t, "ORIGINAL">> \in entries' <=> <<t, "ORIGINAL">> \in entries
           /\ <<t, "REVERSAL">> \in entries' <=> <<t, "REVERSAL">> \in entries \/ t \in Recognised(s)
      /\ entries' \subseteq (Sales \cup Payments) \X {"ORIGINAL", "REVERSAL"}
  <2> DEFINE X == {}
             Y == Recognised(s)
  <2>1. entries' = entries \cup Original(X \cup Inserted(r)) \cup Reversal(Y \cup Cancelled(r))
    BY <1>2, <1>4 DEF Original
  <2>2. X \in SUBSET Sales /\ Y \in SUBSET Sales
    BY DEF Recognised
  <2>3. /\ (\A p \in Payments : PaymentPosted(p))'
        /\ \A t \in Sales : /\ <<t, "ORIGINAL">> \in entries' <=> <<t, "ORIGINAL">> \in entries \/ t \in X
                            /\ <<t, "REVERSAL">> \in entries' <=> <<t, "REVERSAL">> \in entries \/ t \in Y
        /\ entries' \subseteq (Sales \cup Payments) \X {"ORIGINAL", "REVERSAL"}
    <3>. HIDE DEF X, Y
    <3>. QED
      BY <1>1, <1>2, <1>7, <2>1, <2>2, CommittedPayments
  <2>. QED
    BY <2>3
<1>10. TypeOK'
  <2>1. DOMAIN sales' = Sales
    BY <1>2 DEF IInv, TypeOK
  <2>2. \A t \in Sales : (sales'[t] \in Sale(t) \cup {NoSale})
    BY <1>6 DEF IInv, TypeOK
  <2>. QED
    BY <1>2, <1>7, <1>9, <2>1, <2>2, Ended DEF IInv, TypeOK
<1>11. PaymentsHaveSales'
  <2>1. SUFFICES ASSUME NEW p \in Payments
                 PROVE  /\ payments'[p] # NoPayment => sales'[payments'[p].sale] # NoSale
                        /\ payments'[p].status = "ACTIVE" => sales'[payments'[p].sale].status = "ACTIVE"
    BY DEF PaymentsHaveSales, Exists
  <2>2. CASE p \in DOMAIN work[r]
    <3>1. payments'[p].sale = s /\ payments'[p].status # "ACTIVE"
      BY <1>1, <1>2, <1>3, <1>7, <2>2, Wrote
    <3>2. sales'[s] # NoSale
      BY <1>5, <1>8 DEF Exists
    <3>. QED
      BY <3>1, <3>2
  <2>3. CASE p \notin DOMAIN work[r]
    <3>1. payments'[p] = payments[p] /\ p \notin ActiveOf(payments, s)
      BY <1>3, <1>7, <2>3
    <3>2. payments[p] = NoPayment \/ payments[p].sale \in Sales
      BY DEF IInv, TypeOK, Payment
    <3>3. NoPayment.status # "ACTIVE"
      BY DEF NoPayment
    <3>4. payments[p].status = "ACTIVE" => payments[p].sale # s
      BY <3>1 DEF ActiveOf
    <3>. QED
      BY <1>6, <1>8, <3>1, <3>2, <3>3, <3>4 DEF IInv, PaymentsHaveSales, Exists
  <2>. QED
    BY <2>2, <2>3
<1>12. (\A t \in Sales : SalePosted(t))'
  <2>1. ASSUME NEW t \in Sales PROVE SalePosted(t)'
    <3>1. SalePosted(t)
      BY DEF IInv
    <3>2. CASE t = s
      <4>1. Total[s] > 0 <=> s \in Recognised(s)
        BY DEF Recognised
      <4>. QED
        BY <1>5, <1>6, <1>8, <1>9, <3>1, <3>2, <4>1 DEF SalePosted
    <3>3. CASE t # s
      <4>1. t \notin Recognised(s)
        BY <3>3 DEF Recognised
      <4>. QED
        BY <1>6, <1>8, <1>9, <3>1, <3>3, <4>1 DEF SalePosted
    <3>. QED
      BY <3>2, <3>3
  <2>. QED
    BY <2>1
<1>13. SummaryMatchesPayments'
  <2>1. SUFFICES ASSUME NEW t \in Sales, Exists(t)', sales'[t].status = "ACTIVE"
                 PROVE  /\ SumActive(payments', t) <= Total[t]
                        /\ sales'[t].summary = DeriveSummary(Total[t], SumActive(payments', t))
    BY DEF SummaryMatchesPayments
  <2>. QED
    BY <1>6, <1>7, <1>8, <2>1 DEF IInv, SummaryMatchesPayments
<1>14. GenericSaleIsPaid'
  BY <1>6, <1>8 DEF IInv, GenericSaleIsPaid, SalePaymentsAssumption
<1>. QED
  BY <1>7, <1>9, <1>10, <1>11, <1>12, <1>13, <1>14 DEF IInv

\* A new sale comes with its first payments and their entries.
LEMMA CreateSaleStep ==
  ASSUME SalePaymentsAssumption, IInv, NEW s \in Sales, NEW first \in Batches,
         NEW delivery \in {"PENDING", "NOT_APPLICABLE"}, CreateSale(s, first, delivery)
  PROVE  IInv'
<1> DEFINE paid == SumFunction(first)
           D == DOMAIN first
<1>1. D \subseteq Payments /\ first \in [D -> Amounts] /\ \A p \in D : p \notin Sales
  BY DEF Batches, SalePaymentsAssumption
<1>2. paid \in Nat
  <2>1. IsFiniteSet(D) /\ first \in [D -> Nat]
    BY <1>1, FS_Subset DEF SalePaymentsAssumption
  <2>. QED
    BY <2>1, SumNat
<1>3. /\ paid <= Total[s] /\ (s \in GenericSales => paid = Total[s])
      /\ ~Exists(s) /\ \A p \in D : Unused(p)
      /\ entries' = entries \cup Original(Recognised(s) \cup D)
      /\ UNCHANGED <<work, saleLock, paymentLock, pc, reqSale, reqSum>>
  BY DEF CreateSale, locks
<1> DEFINE summary == DeriveSummary(Total[s], paid)
           row == [status |-> "ACTIVE", summary |-> summary, delivery |-> delivery]
           New(p) == [status |-> "ACTIVE", sale |-> s, amount |-> first[p]]
<1>4. /\ sales' = [sales EXCEPT ![s] = row]
      /\ payments' = [p \in Payments |-> IF p \in D THEN New(p) ELSE payments[p]]
  BY DEF CreateSale
<1>5. row \in Sale(s)
  <2>1. summary \in Summaries(s)
    BY <1>2, <1>3, DerivedSummary
  <2>. QED
    BY <2>1 DEF Sale
<1>6. DOMAIN sales' = Sales /\ sales'[s] = row /\ \A t \in Sales \ {s} : sales'[t] = sales[t]
  BY <1>4 DEF IInv, TypeOK
<1>7. \A p \in D : New(p) \in Payment /\ New(p) # NoPayment /\ payments[p] = NoPayment
  BY <1>1, <1>3 DEF Payment, NoPayment, Unused
<1> HIDE DEF summary, paid
<1>8. sales'[s] # NoSale /\ sales'[s].status = "ACTIVE" /\ sales'[s].summary = summary
      /\ sales[s].status = "NONE"
  BY <1>3, <1>6 DEF NoSale, Exists
<1>9. \A p \in Payments : payments[p].sale = s => payments[p] = NoPayment
  BY <1>3 DEF IInv, PaymentsHaveSales
<1>10. \A t \in Sales \ {s} : /\ ActiveOf(payments', t) = ActiveOf(payments, t)
                              /\ \A p \in ActiveOf(payments, t) : payments'[p] = payments[p]
  BY <1>4, <1>7 DEF ActiveOf, NoPayment
<1>11. SumActive(payments', s) = paid
  <2>1. \A p \in Payments : payments[p].status = "ACTIVE" => payments[p].sale # s
    BY <1>9, NoRows
  <2>2. ActiveOf(payments', s) = D
    BY <1>1, <1>4, <2>1 DEF ActiveOf
  <2>3. [p \in ActiveOf(payments', s) |-> payments'[p].amount] = first
    BY <1>1, <1>4, <2>2
  <2>. QED
    BY <2>3 DEF SumActive, paid
<1>12. TypeOK'
  <2>1. \A t \in Sales : (sales'[t] \in Sale(t) \cup {NoSale})
    BY <1>5, <1>6 DEF IInv, TypeOK
  <2>2. payments' \in [Payments -> Payment \cup {NoPayment}]
    BY <1>4, <1>7 DEF IInv, TypeOK
  <2>3. entries' \subseteq (Sales \cup Payments) \X {"ORIGINAL", "REVERSAL"}
    BY <1>1, <1>3 DEF IInv, TypeOK, Original, Recognised
  <2>. QED
    BY <1>3, <1>6, <2>1, <2>2, <2>3 DEF IInv, TypeOK
<1>13. ASSUME NEW q \in Requests PROVE RequestOK(q)'
  <2>1. ASSUME NEW t \in reqSale[q] PROVE t # s /\ t \in Sales
    <3>1. pc[q] # "idle"
      BY <2>1 DEF IInv, RequestOK
    <3>2. Holds(q, t) /\ t \in Sales
      BY <2>1, <3>1 DEF IInv, RequestOK
    <3>. QED
      BY <1>8, <3>2 DEF Holds
  <2>2. ASSUME NEW t \in reqSale[q]
        PROVE  /\ saleLock[t] = q => saleLock'[t] = q
               /\ sales'[t].status = sales[t].status
               /\ \A p \in Payments :
                    p \in DOMAIN work[q] \/ p \in ActiveOf(payments, t) \/ p \in ActiveOf(payments', t)
                      => payments'[p] = payments[p]
    BY <1>3, <1>4, <1>6, <1>10, <2>1 DEF Unused
  <2>. QED
    BY <1>3, <2>2, OthersStand DEF IInv
<1>14. InsertsApart'
  BY <1>3, <1>4, <1>7 DEF IInv, InsertsApart
<1>15. PaymentsHaveSales'
  <2>1. SUFFICES ASSUME NEW p \in Payments
                 PROVE  /\ payments'[p] # NoPayment => sales'[payments'[p].sale] # NoSale
                        /\ payments'[p].status = "ACTIVE" => sales'[payments'[p].sale].status = "ACTIVE"
    BY DEF PaymentsHaveSales, Exists
  <2>2. CASE p \in D
    <3>1. payments'[p].sale = s
      BY <1>4, <2>2
    <3>. QED
      BY <1>8, <3>1
  <2>3. CASE p \notin D
    <3>1. payments'[p] = payments[p]
      BY <1>4, <2>3
    <3>2. payments[p] = NoPayment \/ payments[p].sale \in Sales \ {s}
      BY <1>9 DEF IInv, TypeOK, Payment
    <3>3. NoPayment.status # "ACTIVE"
      BY DEF NoPayment
    <3>. QED
      BY <1>6, <3>1, <3>2, <3>3 DEF IInv, PaymentsHaveSales, Exists
  <2>. QED
    BY <2>2, <2>3
<1>16. (\A p \in Payments : PaymentPosted(p))'
  <2>1. ASSUME NEW p \in Payments PROVE PaymentPosted(p)'
    <3>1. PaymentPosted(p) /\ p \notin Recognised(s)
      BY DEF IInv, Recognised, SalePaymentsAssumption
    <3>2. /\ <<p, "ORIGINAL">> \in entries' <=> <<p, "ORIGINAL">> \in entries \/ p \in D
          /\ <<p, "REVERSAL">> \in entries' <=> <<p, "REVERSAL">> \in entries
      BY <1>3, <3>1 DEF Original
    <3>3. CASE p \in D
      <4>1. payments'[p] # NoPayment /\ payments'[p].status = "ACTIVE" /\ payments[p].status # "CANCELLED"
        BY <1>4, <1>7, <3>3 DEF NoPayment
      <4>. QED
        BY <3>1, <3>2, <3>3, <4>1 DEF PaymentPosted
    <3>4. CASE p \notin D
      <4>1. payments'[p] = payments[p]
        BY <1>4, <3>4
      <4>. QED
        BY <3>1, <3>2, <3>4, <4>1 DEF PaymentPosted
    <3>. QED
      BY <3>3, <3>4
  <2>. QED
    BY <2>1
<1>17. (\A t \in Sales : SalePosted(t))'
  <2>1. ASSUME NEW t \in Sales PROVE SalePosted(t)'
    <3>1. SalePosted(t) /\ t \notin D
      BY <1>1 DEF IInv
    <3>2. /\ <<t, "ORIGINAL">> \in entries' <=> <<t, "ORIGINAL">> \in entries \/ t \in Recognised(s)
          /\ <<t, "REVERSAL">> \in entries' <=> <<t, "REVERSAL">> \in entries
      BY <1>3, <3>1 DEF Original
    <3>3. t \in Recognised(s) <=> t = s /\ Total[s] > 0
      BY DEF Recognised
    <3>. QED
      BY <1>3, <1>6, <1>8, <3>1, <3>2, <3>3 DEF SalePosted, Exists
  <2>. QED
    BY <2>1
<1>18. SummaryMatchesPayments'
  <2>1. SUFFICES ASSUME NEW t \in Sales, Exists(t)', sales'[t].status = "ACTIVE"
                 PROVE  /\ SumActive(payments', t) <= Total[t]
                        /\ sales'[t].summary = DeriveSummary(Total[t], SumActive(payments', t))
    BY DEF SummaryMatchesPayments
  <2>2. CASE t = s
    BY <1>3, <1>8, <1>11, <2>2 DEF summary
  <2>3. CASE t # s
    <3>1. SumActive(payments', t) = SumActive(payments, t)
      BY <1>10, <2>3, SumActiveSame
    <3>. QED
      BY <1>6, <2>1, <2>3, <3>1 DEF IInv, SummaryMatchesPayments, Exists
  <2>. QED
    BY <2>2, <2>3
<1>19. GenericSaleIsPaid'
  <2>1. s \in GenericSales => summary.status = "PAID"
    BY <1>2, <1>3, DerivedSummary DEF summary
  <2>. QED
    BY <1>6, <1>8, <2>1 DEF IInv, GenericSaleIsPaid, Exists, SalePaymentsAssumption
<1>. QED
  BY <1>12, <1>13, <1>14, <1>15, <1>16, <1>17, <1>18, <1>19 DEF IInv

\* A delivery changes nothing but the column that says so.
LEMMA MoveDeliveryStep ==
  ASSUME SalePaymentsAssumption, IInv, NEW s \in Sales, NEW from,
         NEW to \in {"OBSERVED", "DELIVERED"}, MoveDelivery(s, from, to)
  PROVE  IInv'
<1>1. /\ sales' = [sales EXCEPT ![s].delivery = to] /\ sales[s].status = "ACTIVE" /\ Exists(s)
      /\ UNCHANGED <<payments, entries, work, saleLock, paymentLock, pc, reqSale, reqSum>>
  BY DEF MoveDelivery, locks
<1>2. sales[s] \in Sale(s)
  BY <1>1 DEF IInv, TypeOK, Exists
<1>3. /\ sales'[s] \in Sale(s) /\ sales'[s].status = "ACTIVE" /\ sales'[s].summary = sales[s].summary
      /\ \A t \in Sales \ {s} : sales'[t] = sales[t]
  BY <1>1, <1>2 DEF Sale, IInv, TypeOK
<1>4. \A t \in Sales : /\ Exists(t)' = Exists(t) /\ sales'[t].status = sales[t].status
                       /\ Exists(t) => sales'[t].summary = sales[t].summary
  BY <1>1, <1>3 DEF Exists, Sale, NoSale
<1>5. TypeOK'
  BY <1>1, <1>3 DEF IInv, TypeOK
<1>6. ASSUME NEW q \in Requests PROVE RequestOK(q)'
  <2>1. reqSale[q] \subseteq Sales
    BY DEF IInv, TypeOK
  <2>. QED
    BY <1>1, <1>4, <2>1, OthersStand DEF IInv
<1>7. InsertsApart' /\ (\A p \in Payments : PaymentPosted(p))'
  BY <1>1 DEF IInv, InsertsApart, PaymentPosted
<1>8. PaymentsHaveSales'
  <2>1. \A p \in Payments : payments[p] = NoPayment \/ payments[p].sale \in Sales
    BY DEF IInv, TypeOK, Payment
  <2>2. NoPayment.status # "ACTIVE"
    BY DEF NoPayment
  <2>. QED
    BY <1>1, <1>4, <2>1, <2>2 DEF IInv, PaymentsHaveSales, Exists
<1>9. (\A t \in Sales : SalePosted(t))'
  BY <1>1, <1>4 DEF IInv, SalePosted
<1>10. SummaryMatchesPayments' /\ GenericSaleIsPaid'
  BY <1>1, <1>4 DEF IInv, SummaryMatchesPayments, GenericSaleIsPaid, SalePaymentsAssumption
<1>. QED
  BY <1>5, <1>6, <1>7, <1>8, <1>9, <1>10 DEF IInv

-----------------------------------------------------------------------------
(* Every step *)

\* Every step of every request keeps the invariant.
LEMMA NextIInv ==
  ASSUME SalePaymentsAssumption, IInv, [Next]_vars
  PROVE  IInv'
<1>1. CASE UNCHANGED vars
  <2>1. UNCHANGED rows /\ UNCHANGED <<work, saleLock, paymentLock, pc, reqSale, reqSum>>
    BY <1>1 DEF vars, locks
  <2>2. TypeOK' /\ InsertsApart'
    BY <2>1 DEF IInv, TypeOK, InsertsApart, rows
  <2>3. ASSUME NEW q \in Requests PROVE RequestOK(q)'
    <3>1. reqSale[q] \subseteq Sales
      BY DEF IInv, TypeOK
    <3>. QED
      BY <2>1, <3>1, OthersStand DEF IInv, rows
  <2>. QED
    BY <2>1, <2>2, <2>3, RowsStand DEF IInv
<1>2. ASSUME NEW s \in Sales, NEW first \in Batches, NEW d \in {"PENDING", "NOT_APPLICABLE"},
             CreateSale(s, first, d)
      PROVE  IInv'
  BY <1>2, CreateSaleStep
<1>3. ASSUME NEW s \in Sales, MarkDelivered(s) \/ MarkObserved(s) PROVE IInv'
  BY <1>3, MoveDeliveryStep DEF MarkDelivered, MarkObserved
<1>4. ASSUME NEW r \in Requests, NEW s \in Sales, BeginRegister(r, s) \/ BeginCancel(r, s) \/ BeginVoid(r, s)
      PROVE  IInv'
  BY <1>4, LockSaleStep DEF BeginRegister, BeginCancel, BeginVoid
<1>5. ASSUME NEW r \in Requests, NEW p \in Payments, CancelPayment(r, p) PROVE IInv'
  BY <1>5, CancelPaymentStep
<1>6. ASSUME NEW r \in Requests, NEW p \in Payments, NEW a \in Amounts, InsertPayment(r, p, a)
      PROVE  IInv'
  BY <1>6, InsertPaymentStep
<1>7. ASSUME NEW r \in Requests, SumPayments(r) PROVE IInv'
  BY <1>7, SumPaymentsStep
<1>8. ASSUME NEW r \in Requests, CommitSummary(r) PROVE IInv'
  BY <1>8, CommitSummaryStep
<1>9. ASSUME NEW r \in Requests, CancelActivePayments(r) PROVE IInv'
  BY <1>9, CancelActivePaymentsStep
<1>10. ASSUME NEW r \in Requests, CommitVoid(r) PROVE IInv'
  BY <1>10, CommitVoidStep
<1>11. ASSUME NEW r \in Requests, RollBack(r) PROVE IInv'
  BY <1>11, RollBackStep
<1>. QED
  BY <1>1, <1>2, <1>3, <1>4, <1>5, <1>6, <1>7, <1>8, <1>9, <1>10, <1>11 DEF Next

\* The invariant holds in every state.
THEOREM InvariantHolds == Spec => []IInv
<1>1. Init => IInv
  BY InitIInv, SalePaymentsAssumption
<1>2. IInv /\ [Next]_vars => IInv'
  BY NextIInv, SalePaymentsAssumption
<1>. QED
  BY <1>1, <1>2, PTL DEF Spec

-----------------------------------------------------------------------------
(* What follows from the invariant *)

\* Rows, locks and requests always have the shape of the schema and the code,
\* with summaries that deriveSalePaymentSummary can give.
THEOREM TypeCorrect == Spec => []TypeOK
<1>1. IInv => TypeOK
  BY DEF IInv
<1>. QED
  BY InvariantHolds, <1>1, PTL

\* The summary of every active sale is that of its active payments: two
\* registrations, or one and a cancellation, never lose each other's effect.
THEOREM SummariesAgree == Spec => []SummaryMatchesPayments
<1>1. IInv => SummaryMatchesPayments
  BY DEF IInv
<1>. QED
  BY InvariantHolds, <1>1, PTL

\* No sequence of registrations and cancellations leaves a sale to the generic
\* customer unpaid.
THEOREM GenericSalesStayPaid == Spec => []GenericSaleIsPaid
<1>1. IInv => GenericSaleIsPaid
  BY DEF IInv
<1>. QED
  BY InvariantHolds, <1>1, PTL

\* The entries of a sale leave its balance on the account of receivables.
LEMMA LedgerFollows ==
  ASSUME SalePaymentsAssumption, IInv
  PROVE  LedgerMatchesSales
<1>1. SUFFICES ASSUME NEW s \in Sales, Exists(s)
               PROVE  Receivable(s) = IF sales[s].status = "ACTIVE" THEN sales[s].summary.balance ELSE 0
  BY DEF LedgerMatchesSales
<1> DEFINE of(event) == {p \in Payments : /\ payments[p] # NoPayment /\ payments[p].sale = s
                                          /\ <<p, event>> \in entries}
           all == of("ORIGINAL")
           back == of("REVERSAL")
           active == ActiveOf(payments, s)
           Amount(ps) == [p \in ps |-> payments[p].amount]
<1>2. all \in SUBSET Payments /\ back \in SUBSET all /\ active = all \ back
  <2>1. \A p \in Payments : PaymentPosted(p) /\ payments[p] \in Payment \cup {NoPayment}
    BY DEF IInv, TypeOK
  <2>2. \A p \in Payments : payments[p] # NoPayment => payments[p].status \in {"ACTIVE", "CANCELLED"}
    BY <2>1 DEF Payment
  <2>3. NoPayment.status # "CANCELLED"
    BY DEF NoPayment
  <2>4. \A p \in Payments : p \in back => p \in all
    BY <2>1, <2>3 DEF PaymentPosted
  <2>5. \A p \in Payments : p \in active <=> p \in all /\ p \notin back
    BY <2>1, <2>2, NoRows DEF PaymentPosted, ActiveOf
  <2>. QED
    BY <2>4, <2>5 DEF ActiveOf
<1>3. \A p \in all : payments[p].amount \in Int
  <2>1. \A p \in all : p \in Payments /\ payments[p] # NoPayment
    OBVIOUS
  <2>2. \A p \in Payments : payments[p] \in Payment \cup {NoPayment}
    BY DEF IInv, TypeOK
  <2>3. \A row \in Payment : row.amount \in Amounts
    BY DEF Payment
  <2>4. Amounts \subseteq Int
    BY DEF SalePaymentsAssumption
  <2>. HIDE DEF all
  <2>. QED
    BY <2>1, <2>2, <2>3, <2>4
<1>4. IsFiniteSet(all)
  BY <1>2, FS_Subset DEF SalePaymentsAssumption
<1>5. SumFunction(Amount(all)) = SumFunction(Amount(back)) + SumActive(payments, s)
  <2> DEFINE f == Amount(all)
             g == Amount(back)
             h == Amount(active)
  <2>1. Addends(f, all) /\ Addends(g, back) /\ Addends(h, active)
    BY <1>2, <1>3, <1>4, FS_Subset DEF Addends
  <2>2. (\A p \in back : g[p] = f[p]) /\ (\A p \in active : h[p] = f[p])
    BY <1>2
  <2>3. SumFunction(f) = SumFunction(g) + SumFunction(h)
    <3>. HIDE DEF all, back, active, f, g, h
    <3>1. Shares(f, all, g, back, h, active)
      BY <1>2, <2>1, <2>2 DEF Shares
    <3>. QED
      BY <3>1, SumParts
  <2>. QED
    BY <2>3 DEF SumActive
<1>6. SumFunction(Amount(back)) \in Int /\ SumActive(payments, s) \in Nat /\ Total[s] \in Nat
  <2> DEFINE g == Amount(back)
  <2>1. IsFiniteSet(back) /\ g \in [back -> Int]
    BY <1>2, <1>3, <1>4, FS_Subset
  <2>2. SumFunction(g) \in Int
    <3>. HIDE DEF g, back
    <3>. QED
      BY <2>1, SumType
  <2>3. TypeOK /\ Total[s] \in Nat
    BY DEF IInv, SalePaymentsAssumption
  <2>4. SumActive(payments, s) \in Nat
    <3>1. \A p \in ActiveOf(payments, s) : payments[p].amount \in Amounts
      BY <2>3, ActiveRow DEF Payment
    <3>. QED
      BY <3>1, SumActiveNat
  <2>. QED
    BY <2>2, <2>3, <2>4
<1>7. Receivable(s) =
        ((IF <<s, "ORIGINAL">> \in entries THEN Total[s] ELSE 0)
          - (IF <<s, "REVERSAL">> \in entries THEN Total[s] ELSE 0))
        - (SumFunction(Amount(all)) - SumFunction(Amount(back)))
  BY DEF Receivable
<1>8. SumFunction(Amount(all)) - SumFunction(Amount(back)) = SumActive(payments, s)
  BY <1>5, <1>6
<1>9. /\ SalePosted(s) /\ sales[s] \in Sale(s)
      /\ SummaryMatchesPayments /\ PaymentsHaveSales
  BY <1>1 DEF IInv, TypeOK, Exists
<1> HIDE DEF all, back, active, Amount
<1>10. (IF <<s, "ORIGINAL">> \in entries THEN Total[s] ELSE 0) = Total[s]
  BY <1>1, <1>6, <1>9 DEF SalePosted
<1>11. CASE sales[s].status = "ACTIVE"
  <2>1. (IF <<s, "REVERSAL">> \in entries THEN Total[s] ELSE 0) = 0
    BY <1>9, <1>11 DEF SalePosted
  <2>2. sales[s].summary.balance = Total[s] - SumActive(payments, s)
    BY <1>1, <1>6, <1>9, <1>11, DerivedSummary DEF SummaryMatchesPayments
  <2>. QED
    BY <1>6, <1>7, <1>8, <1>10, <1>11, <2>1, <2>2
<1>12. CASE sales[s].status = "CANCELLED"
  <2>1. (IF <<s, "REVERSAL">> \in entries THEN Total[s] ELSE 0) = Total[s]
    BY <1>6, <1>9, <1>12 DEF SalePosted
  <2>2. ActiveOf(payments, s) = {}
    BY <1>9, <1>12 DEF PaymentsHaveSales, ActiveOf
  <2>3. SumActive(payments, s) = 0
    BY <2>2, SumNothing DEF SumActive
  <2>. QED
    BY <1>6, <1>7, <1>8, <1>10, <1>12, <2>1, <2>3
<1>. QED
  BY <1>9, <1>11, <1>12 DEF Sale

\* The account of receivables holds what the sales say is due, whatever has
\* been cancelled and in whichever order.
THEOREM LedgerAgrees == Spec => []LedgerMatchesSales
<1>1. IInv => LedgerMatchesSales
  BY LedgerFollows, SalePaymentsAssumption
<1>. QED
  BY InvariantHolds, <1>1, PTL

-----------------------------------------------------------------------------
(* The refinement of PaymentBook *)

Refunded == {p \in Payments : payments[p].status = "CANCELLED"}

\* The book adds up in the same way.
LEMMA BookSum ==
  ASSUME NEW f
  PROVE  Book!SumFunction(f) = SumFunction(f)
BY DEF SumFunction, SumFunctionOnSet, FoldFunctionOnSet, MapThenFoldSet,
       Book!SumFunction, Book!SumFunctionOnSet, Book!FoldFunctionOnSet, Book!MapThenFoldSet

\* What the book holds for a sale is what sumActiveForSale adds up.
LEMMA HeldSum ==
  ASSUME NEW s \in Sales
  PROVE  SumFunction(BookHeld[s]) = SumActive(payments, s) /\ DOMAIN BookHeld[s] = ActiveOf(payments, s)
BY DEF BookHeld, SumActive

\* An identifier without a row is one that the book has not seen.
LEMMA FreshInBook ==
  ASSUME NEW p \in Payments, payments[p] = NoPayment
  PROVE  p \in Book!Fresh
<1>1. payments[p].status = "NONE"
  BY DEF NoPayment
<1>2. \A s \in Sales : p \notin DOMAIN BookHeld[s]
  BY <1>1 DEF BookHeld, ActiveOf
<1>. QED
  BY <1>1, <1>2 DEF Book!Fresh

\* A step that changes no row of a sale's status or of a payment is none of the
\* book.
LEMMA BookStutters ==
  ASSUME UNCHANGED payments, \A s \in Sales : Exists(s)' = Exists(s) /\ sales'[s].status = sales[s].status
  PROVE  UNCHANGED Book!vars
<1>1. BookState' = BookState
  BY DEF BookState
<1>2. BookHeld' = BookHeld
  BY DEF BookHeld, ActiveOf
<1>. QED
  BY <1>1, <1>2 DEF Book!vars

\* Initially there is nothing in the book.
LEMMA BookInit ==
  ASSUME SalePaymentsAssumption, Init
  PROVE  Book!Init
<1>1. \A s \in Sales : sales[s] = NoSale /\ ActiveOf(payments, s) = {}
  BY DEF Init, ActiveOf, NoPayment
<1>2. BookState = [s \in Sales |-> "none"]
  BY <1>1 DEF BookState, Exists
<1>3. BookHeld = [s \in Sales |-> [p \in {} |-> 0]]
  <2>1. \A s \in Sales : [p \in ActiveOf(payments, s) |-> payments[p].amount] = [p \in {} |-> 0]
    BY <1>1
  <2>. QED
    BY <2>1 DEF BookHeld
<1>4. Refunded = {}
  BY DEF Init, Refunded, NoPayment
<1>. QED
  BY <1>2, <1>3, <1>4 DEF Book!Init, Refunded

\* A new sale with its first payments opens an account of the book.
LEMMA BookOpens ==
  ASSUME SalePaymentsAssumption, IInv, NEW s \in Sales, NEW first \in Batches,
         NEW delivery \in {"PENDING", "NOT_APPLICABLE"}, CreateSale(s, first, delivery)
  PROVE  Book!Next
<1> DEFINE D == DOMAIN first
           New(p) == [status |-> "ACTIVE", sale |-> s, amount |-> first[p]]
<1>1. D \subseteq Payments /\ first \in [D -> Amounts]
  BY DEF Batches
<1>2. ~Exists(s) /\ (\A p \in D : payments[p] = NoPayment) /\ SumFunction(first) <= Total[s]
  BY DEF CreateSale, Unused
<1>3. /\ \A t \in Sales \ {s} : sales'[t] = sales[t]
      /\ sales'[s].status = "ACTIVE" /\ sales'[s] # NoSale
      /\ payments' = [p \in Payments |-> IF p \in D THEN New(p) ELSE payments[p]]
  BY DEF CreateSale, NoSale, IInv, TypeOK
<1>4. NoPayment.status = "NONE"
  BY DEF NoPayment
<1>5. \A p \in Payments : payments[p].status = "ACTIVE" => payments[p].sale # s
  BY <1>2, NoRows DEF IInv, PaymentsHaveSales
<1>6. first \in Book!Batches
  <2>1. D \subseteq Book!Fresh
    BY <1>1, <1>2, FreshInBook
  <2>. QED
    BY <1>1, <2>1 DEF Book!Batches
<1>7. BookState[s] = "none" /\ BookState' = [BookState EXCEPT ![s] = "open"]
  BY <1>2, <1>3 DEF BookState, Exists
<1>8. BookHeld' = [BookHeld EXCEPT ![s] = first]
  <2>1. ActiveOf(payments', s) = D
    BY <1>1, <1>3, <1>5 DEF ActiveOf
  <2>2. [p \in ActiveOf(payments', s) |-> payments'[p].amount] = first
    BY <1>1, <1>3, <2>1
  <2>3. ASSUME NEW t \in Sales \ {s}
        PROVE  [p \in ActiveOf(payments', t) |-> payments'[p].amount]
                 = [p \in ActiveOf(payments, t) |-> payments[p].amount]
    <3>1. ActiveOf(payments', t) = ActiveOf(payments, t)
      BY <1>2, <1>3, <1>4 DEF ActiveOf
    <3>2. \A p \in ActiveOf(payments, t) : payments'[p] = payments[p]
      BY <1>2, <1>3, <1>4 DEF ActiveOf
    <3>. QED
      BY <3>1, <3>2
  <2>. QED
    BY <2>2, <2>3 DEF BookHeld
<1>9. Refunded' = Refunded
  BY <1>2, <1>3, <1>4 DEF Refunded
<1>10. Book!Open(s, first)
  BY <1>2, <1>7, <1>8, <1>9, BookSum DEF Book!Open, Refunded
<1>. QED
  BY <1>6, <1>10 DEF Book!Next

\* What a commit changes in the book, if the rows that it writes are those of
\* one sale.
LEMMA CommitInBook ==
  ASSUME SalePaymentsAssumption, IInv, NEW r \in Requests, NEW s \in Sales,
         reqSale[r] = {s}, Holds(r, s), pc[r] \in {"summed", "voided"},
         payments' = View(r), EndTransaction(r),
         \A t \in Sales \ {s} : sales'[t] = sales[t]
  PROVE  /\ \A p \in Payments : payments'[p] = IF p \in DOMAIN work[r] THEN work[r][p] ELSE payments[p]
         /\ BookHeld' = [BookHeld EXCEPT ![s] =
                          [p \in ActiveOf(payments', s) |-> payments'[p].amount]]
<1>1. \A p \in Payments : payments'[p] = IF p \in DOMAIN work[r] THEN work[r][p] ELSE payments[p]
  BY CommitElsewhere
<1>2. ASSUME NEW t \in Sales \ {s}, NEW p \in Payments,
             p \in ActiveOf(payments, t) \/ p \in ActiveOf(payments', t)
      PROVE  payments'[p] = payments[p]
  <2>1. SUFFICES ASSUME p \in DOMAIN work[r] PROVE FALSE
    BY <1>1
  <2>2. payments'[p].sale = s
    BY <1>1, <2>1, Wrote
  <2>3. p \in ActiveOf(payments, t)
    BY <1>2, <2>2 DEF ActiveOf
  <2>4. payments[p] # NoPayment /\ payments[p].sale = t
    BY <2>3, ActiveRow DEF IInv
  <2>5. Cancelling(r, s, p)
    BY <2>1, <2>4, Wrote DEF Inserting
  <2>. QED
    BY <2>4, <2>5 DEF Cancelling, ActiveOf
<1>3. ASSUME NEW t \in Sales \ {s}
      PROVE  [p \in ActiveOf(payments', t) |-> payments'[p].amount]
               = [p \in ActiveOf(payments, t) |-> payments[p].amount]
  <2>1. ActiveOf(payments', t) = ActiveOf(payments, t)
    BY <1>2 DEF ActiveOf
  <2>2. \A p \in ActiveOf(payments, t) : payments'[p] = payments[p]
    BY <1>2 DEF ActiveOf
  <2>. QED
    BY <2>1, <2>2
<1>4. BookHeld' = [BookHeld EXCEPT ![s] = [p \in ActiveOf(payments', s) |-> payments'[p].amount]]
  BY <1>3 DEF BookHeld
<1>. QED
  BY <1>1, <1>4

\* The amounts that the book holds are numbers, finitely many.
LEMMA HeldAmounts ==
  ASSUME SalePaymentsAssumption, TypeOK, NEW s \in Sales
  PROVE  IsFiniteSet(ActiveOf(payments, s)) /\ BookHeld[s] \in [ActiveOf(payments, s) -> Int]
<1>1. IsFiniteSet(ActiveOf(payments, s))
  BY FS_Subset DEF ActiveOf, SalePaymentsAssumption
<1>2. \A p \in ActiveOf(payments, s) : payments[p] \in Payment
  BY ActiveRow
<1>3. \A row \in Payment : row.amount \in Amounts
  BY DEF Payment
<1>4. Amounts \subseteq Int
  BY DEF SalePaymentsAssumption
<1>5. \A p \in ActiveOf(payments, s) : payments[p].amount \in Int
  BY <1>2, <1>3, <1>4
<1>. QED
  BY <1>1, <1>5 DEF BookHeld

With(held, p, a) == [q \in DOMAIN held \cup {p} |-> IF q = p THEN a ELSE held[q]]

\* Collecting a payment adds its amount to what is held.
LEMMA OneMore ==
  ASSUME NEW A, IsFiniteSet(A), NEW held \in [A -> Int], NEW p, p \notin A, NEW a \in Int
  PROVE  SumFunction(With(held, p, a)) = a + SumFunction(held) /\ SumFunction(held) \in Int
<1> DEFINE new == With(held, p, a)
<1>1. HasOneMore(new, A \cup {p}, held, A, p) /\ new[p] = a
  BY FS_AddElement DEF With, HasOneMore, Addends
<1>2. SumFunction(new) = new[p] + SumFunction(held)
  <2>. HIDE DEF new
  <2>. QED
    BY <1>1, SumAdd
<1>3. SumFunction(held) \in Int
  BY SumType
<1>. QED
  BY <1>1, <1>2, <1>3

\* Registering a payment is collecting it, cancelling one is refunding it.
LEMMA BookCollectsOrRefunds ==
  ASSUME SalePaymentsAssumption, IInv, NEW r \in Requests, CommitSummary(r)
  PROVE  Book!Next
<1>1. PICK s \in Sales : reqSale[r] = {s} /\ Holds(r, s)
  BY DEF CommitSummary, IInv, RequestOK
<1>2. /\ pc[r] = "summed" /\ payments' = View(r) /\ EndTransaction(r)
      /\ \A t \in Sales \ {s} : sales'[t] = sales[t]
      /\ sales'[s] = [sales[s] EXCEPT !.summary = DeriveSummary(Total[s], reqSum[r])]
  BY <1>1 DEF CommitSummary
<1>3. sales[s] \in Sale(s) /\ sales[s].status = "ACTIVE" /\ Exists(s)
  BY <1>1, NoRows DEF Holds, IInv, TypeOK, Exists
<1>4. sales'[s].status = "ACTIVE" /\ sales'[s] # NoSale
  BY <1>2, <1>3 DEF Sale, NoSale
<1>5. BookState[s] = "open" /\ BookState' = BookState
  BY <1>2, <1>3, <1>4 DEF BookState, Exists
<1>6. /\ \A p \in Payments : payments'[p] = IF p \in DOMAIN work[r] THEN work[r][p] ELSE payments[p]
      /\ BookHeld' = [BookHeld EXCEPT ![s] = [p \in ActiveOf(payments', s) |-> payments'[p].amount]]
  BY <1>1, <1>2, CommitInBook
<1>7. PICK p \in Payments : DOMAIN work[r] = {p} /\ (Inserting(r, s, p) \/ Cancelling(r, s, p))
  BY <1>1, <1>2 DEF Holds
<1>8. payments'[p] = work[r][p] /\ work[r][p] \in Payment /\ work[r][p].sale = s
      /\ \A q \in Payments \ {p} : payments'[q] = payments[q]
  BY <1>1, <1>2, <1>6, <1>7, Wrote
<1>9. BookHeld[s] = [q \in ActiveOf(payments, s) |-> payments[q].amount]
  BY DEF BookHeld
<1>10. CASE Inserting(r, s, p)
  <2> DEFINE a == work[r][p].amount
  <2>1. payments[p] = NoPayment /\ work[r][p].status = "ACTIVE" /\ a \in Amounts
    BY <1>8, <1>10 DEF Inserting, Payment
  <2>2. p \notin ActiveOf(payments, s) /\ ActiveOf(payments', s) = ActiveOf(payments, s) \cup {p}
    BY <1>8, <2>1 DEF ActiveOf, NoPayment
  <2>3. [q \in ActiveOf(payments', s) |-> payments'[q].amount]
          = [q \in DOMAIN BookHeld[s] \cup {p} |-> IF q = p THEN a ELSE BookHeld[s][q]]
    <3>1. \A q \in ActiveOf(payments, s) : q # p /\ payments'[q] = payments[q]
      BY <1>8, <2>2 DEF ActiveOf
    <3>. QED
      BY <1>8, <1>9, <2>2, <3>1
  <2>4. SumFunction(BookHeld[s]) + a <= Total[s]
    <3>1. SumActive(payments', s) <= Total[s]
      BY <1>1, <1>2 DEF Holds
    <3>2. a \in Int /\ Total[s] \in Int
      <4>1. Amounts \subseteq Int /\ Total[s] \in Int
        BY DEF SalePaymentsAssumption
      <4>. HIDE DEF a
      <4>. QED
        BY <2>1, <4>1
    <3>3. /\ IsFiniteSet(ActiveOf(payments, s))
          /\ BookHeld[s] \in [ActiveOf(payments, s) -> Int]
      BY HeldAmounts DEF IInv
    <3>4. /\ SumFunction(With(BookHeld[s], p, a)) = a + SumFunction(BookHeld[s])
          /\ SumFunction(BookHeld[s]) \in Int
      <4> DEFINE A == ActiveOf(payments, s)
                 held == BookHeld[s]
      <4>1. IsFiniteSet(A) /\ held \in [A -> Int] /\ p \notin A /\ a \in Int
        BY <2>2, <3>2, <3>3
      <4>2. SumFunction(With(held, p, a)) = a + SumFunction(held) /\ SumFunction(held) \in Int
        <5>. HIDE DEF A, held, a
        <5>. QED
          BY <4>1, OneMore
      <4>. QED
        BY <4>2
    <3>5. SumActive(payments', s) = a + SumFunction(BookHeld[s])
      BY <2>3, <3>4 DEF SumActive, With
    <3>. HIDE DEF a
    <3>. QED
      BY <3>1, <3>2, <3>4, <3>5
  <2>5. Refunded' = Refunded
    BY <1>8, <2>1 DEF Refunded, NoPayment
  <2>6. Book!Collect(s, p, a)
    BY <1>5, <1>6, <2>3, <2>4, <2>5, BookSum DEF Book!Collect, Refunded
  <2>7. p \in Book!Fresh
    BY <2>1, FreshInBook
  <2>. QED
    BY <2>1, <2>6, <2>7 DEF Book!Next
<1>11. CASE Cancelling(r, s, p)
  <2>1. /\ p \in ActiveOf(payments, s) /\ payments[p] \in Payment
        /\ work[r][p] = [payments[p] EXCEPT !.status = "CANCELLED"]
    BY <1>11, ActiveRow DEF Cancelling, IInv
  <2>2. payments'[p].status = "CANCELLED"
    BY <1>8, <2>1 DEF Payment
  <2>3. ActiveOf(payments', s) = ActiveOf(payments, s) \ {p}
    BY <1>8, <2>2 DEF ActiveOf
  <2>4. [q \in ActiveOf(payments', s) |-> payments'[q].amount]
          = [q \in DOMAIN BookHeld[s] \ {p} |-> BookHeld[s][q]]
    <3>1. \A q \in ActiveOf(payments, s) \ {p} : payments'[q] = payments[q]
      BY <1>8 DEF ActiveOf
    <3>. QED
      BY <1>9, <2>3, <3>1
  <2>5. Refunded' = Refunded \cup {p}
    BY <1>8, <2>2 DEF Refunded
  <2>6. Book!Refund(s, p)
    BY <1>5, <1>6, <2>4, <2>5 DEF Book!Refund, Refunded
  <2>7. p \in DOMAIN BookHeld[s]
    BY <1>9, <2>1
  <2>. QED
    BY <2>6, <2>7 DEF Book!Next
<1>. QED
  BY <1>7, <1>10, <1>11

\* Cancelling a sale voids its account and refunds everything.
LEMMA BookVoids ==
  ASSUME SalePaymentsAssumption, IInv, NEW r \in Requests, CommitVoid(r)
  PROVE  Book!Next
<1>1. PICK s \in Sales : reqSale[r] = {s} /\ Holds(r, s)
  BY DEF CommitVoid, IInv, RequestOK
<1>2. /\ pc[r] = "voided" /\ payments' = View(r) /\ EndTransaction(r)
      /\ sales' = [sales EXCEPT ![s].status = "CANCELLED"]
  BY <1>1 DEF CommitVoid
<1>3. sales[s] \in Sale(s) /\ sales[s].status = "ACTIVE" /\ Exists(s)
  BY <1>1, NoRows DEF Holds, IInv, TypeOK, Exists
<1>4. /\ sales'[s].status = "CANCELLED" /\ sales'[s] # NoSale
      /\ \A t \in Sales \ {s} : sales'[t] = sales[t]
  BY <1>2, <1>3 DEF Sale, NoSale, IInv, TypeOK
<1>5. BookState[s] = "open" /\ BookState' = [BookState EXCEPT ![s] = "void"]
  BY <1>3, <1>4 DEF BookState, Exists
<1>6. /\ \A p \in Payments : payments'[p] = IF p \in DOMAIN work[r] THEN work[r][p] ELSE payments[p]
      /\ BookHeld' = [BookHeld EXCEPT ![s] = [p \in ActiveOf(payments', s) |-> payments'[p].amount]]
  BY <1>1, <1>2, <1>4, CommitInBook
<1>7. DOMAIN work[r] = ActiveOf(payments, s) /\ \A p \in DOMAIN work[r] : work[r][p].status = "CANCELLED"
  <2>1. DOMAIN work[r] = ActiveOf(payments, s) /\ \A p \in DOMAIN work[r] : Cancelling(r, s, p)
    BY <1>1, <1>2 DEF Holds
  <2>2. ASSUME NEW p \in DOMAIN work[r] PROVE work[r][p].status = "CANCELLED"
    <3>1. payments[p] \in Payment /\ work[r][p] = [payments[p] EXCEPT !.status = "CANCELLED"]
      BY <2>1, <2>2, ActiveRow DEF IInv, Cancelling
    <3>. QED
      BY <3>1 DEF Payment
  <2>. QED
    BY <2>1, <2>2
<1>8. ActiveOf(payments', s) = {}
  BY <1>6, <1>7 DEF ActiveOf
<1>9. BookHeld' = [BookHeld EXCEPT ![s] = [p \in {} |-> 0]]
  <2>1. [p \in ActiveOf(payments', s) |-> payments'[p].amount] = [p \in {} |-> 0]
    BY <1>8
  <2>. QED
    BY <1>6, <2>1
<1>10. Refunded' = Refunded \cup DOMAIN BookHeld[s]
  <2>1. DOMAIN BookHeld[s] = ActiveOf(payments, s)
    BY DEF BookHeld
  <2>. QED
    BY <1>6, <1>7, <2>1 DEF Refunded, ActiveOf
<1>11. Book!Void(s)
  BY <1>5, <1>9, <1>10 DEF Book!Void, Refunded
<1>. QED
  BY <1>11 DEF Book!Next

\* Every step of the requests is a step of the book, or none of it.
LEMMA BookStep ==
  ASSUME SalePaymentsAssumption, IInv, [Next]_vars
  PROVE  [Book!Next]_Book!vars
<1>1. CASE UNCHANGED rows
  BY <1>1, BookStutters DEF rows, Exists
<1>2. ASSUME NEW s \in Sales, NEW first \in Batches, NEW d \in {"PENDING", "NOT_APPLICABLE"},
             CreateSale(s, first, d)
      PROVE  Book!Next
  BY <1>2, BookOpens
<1>3. ASSUME NEW s \in Sales, MarkDelivered(s) \/ MarkObserved(s) PROVE UNCHANGED Book!vars
  <2>1. PICK to \in {"OBSERVED", "DELIVERED"} :
          /\ sales' = [sales EXCEPT ![s].delivery = to] /\ sales[s].status = "ACTIVE" /\ Exists(s)
          /\ UNCHANGED payments
    BY <1>3 DEF MarkDelivered, MarkObserved, MoveDelivery
  <2>2. sales[s] \in Sale(s)
    BY <2>1 DEF IInv, TypeOK, Exists
  <2>3. sales'[s].status = "ACTIVE" /\ sales'[s] # NoSale /\ \A t \in Sales \ {s} : sales'[t] = sales[t]
    BY <2>1, <2>2 DEF IInv, TypeOK, Sale, NoSale
  <2>4. \A t \in Sales : Exists(t)' = Exists(t) /\ sales'[t].status = sales[t].status
    BY <2>1, <2>3 DEF Exists
  <2>. QED
    BY <2>1, <2>4, BookStutters
<1>4. ASSUME NEW r \in Requests, CommitSummary(r) PROVE Book!Next
  BY <1>4, BookCollectsOrRefunds
<1>5. ASSUME NEW r \in Requests, CommitVoid(r) PROVE Book!Next
  BY <1>5, BookVoids
<1>. QED
  <2>1. CASE UNCHANGED vars
    BY <1>1, <2>1 DEF vars
  <2>2. CASE Next
    BY <1>1, <1>2, <1>3, <1>4, <1>5, <2>2
       DEF Next, BeginRegister, BeginCancel, BeginVoid, LockSale, CancelPayment, InsertPayment,
           SumPayments, CancelActivePayments, RollBack
  <2>. QED
    BY <2>1, <2>2

\* Requests that interleave statement by statement do what the payment book
\* does in one step each: never more than the total is held for a sale.
THEOREM ImplementsBook == Spec => ImplementsPaymentBook
<1>1. Init => Book!Init
  BY BookInit, SalePaymentsAssumption
<1>2. IInv /\ [Next]_vars => [Book!Next]_Book!vars
  BY BookStep, SalePaymentsAssumption
<1>. QED
  BY <1>1, <1>2, InvariantHolds, PTL DEF Spec, ImplementsPaymentBook, Book!Spec
=============================================================================
