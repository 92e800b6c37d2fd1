------------------------- MODULE Purchasing_proofs --------------------------
(***************************************************************************)
(* Proofs about purchases and imports.                                     *)
(*                                                                         *)
(* About PurchaseLedger, for any sets of invoices, payments, accounts and  *)
(* requests: its inductive invariant, that no requests wait on each other  *)
(* in a circle, that the ledger owes what the invoices do, that the reports*)
(* of AccountsPayable agree with it, and that the requests implement       *)
(* PayableBook.                                                            *)
(*                                                                         *)
(* About ImportReceiptLinks, for any lines, receipts and links: that the   *)
(* links keep to the quantities of the lines that they join.               *)
(*                                                                         *)
(* About ImportCosts, for any operations, shipments, expenses and requests:*)
(* its inductive invariant, that no more is shipped than was invoiced,     *)
(* that a completed operation is over, that what is allocated fits its     *)
(* expense and stands, and that the reports of ImportReports agree.        *)
(***************************************************************************)
EXTENDS AccountsPayable, ImportReceiptLinks, ImportReports, RecursionTheorems, SequenceTheorems

-----------------------------------------------------------------------------
(* The operators of the model as functions of the rows that they read, so  *)
(* that they can be spoken of before and after a step.                     *)

\* Paid
ActiveIn(pays, i) == {p \in Payments : pays[p].status = "ACTIVE" /\ i \in DOMAIN pays[p].allocation}

PaidIn(pays, i) == SumFunction([p \in ActiveIn(pays, i) |-> pays[p].allocation[i]])

\* Balance
LinesOn(ls, a) == {l \in ls : l.account = a}

BalanceIn(ls, a) == SumFunction([l \in LinesOn(ls, a) |-> l.credit])

\* Owed
ConfirmedOn(invs, a) == {i \in Invoices : invs[i].status = "CONFIRMED" /\ invs[i].account = a}

OwedIn(invs, pays, a) ==
  SumFunction([i \in ConfirmedOn(invs, a) |-> invs[i].total - PaidIn(pays, i)])

\* PaymentLines
PartOn(allocation, invs, a) == {i \in DOMAIN allocation : invs[i].account = a}

ShareOn(allocation, invs, a) == SumFunction([i \in PartOn(allocation, invs, a) |-> allocation[i]])

AccountsOf(allocation, invs) == {invs[i].account : i \in DOMAIN allocation}

LinesFor(p, allocation, invs) ==
  {Line(p, "ORIGINAL", a, -ShareOn(allocation, invs, a)) : a \in AccountsOf(allocation, invs)}

LEMMA AsFunctions ==
  /\ \A i : ActivePayments(i) = ActiveIn(payments, i)
  /\ \A i : Paid(i) = PaidIn(payments, i)
  /\ \A a : Balance(a) = BalanceIn(lines, a)
  /\ \A a : Owed(a) = OwedIn(invoices, payments, a)
  /\ \A p, allocation : PaymentLines(p, allocation) = LinesFor(p, allocation, invoices)
<1>1. \A i : ActivePayments(i) = ActiveIn(payments, i) /\ Paid(i) = PaidIn(payments, i)
  BY DEF ActivePayments, ActiveIn, Paid, PaidIn
<1>2. \A a : Balance(a) = BalanceIn(lines, a)
  BY DEF Balance, BalanceIn, LinesOn
<1>3. \A a : Owed(a) = OwedIn(invoices, payments, a)
  BY <1>1 DEF Owed, OwedIn, ConfirmedOn
<1>4. \A p, allocation : PaymentLines(p, allocation) = LinesFor(p, allocation, invoices)
  BY DEF PaymentLines, LinesFor, ShareOn, PartOn, AccountsOf, LiabilityAccount
<1>. QED
  BY <1>1, <1>2, <1>3, <1>4

-----------------------------------------------------------------------------
(* The inductive invariant: what holds between two statements of a         *)
(* transaction, besides the properties themselves.                         *)

Locked(r) == {i \in Invoices : invoiceLock[i] = r}

\* An operation on one invoice holds it, and finds it as it first did.
HoldsOne(r, status) ==
  \E i \in Invoices : reqInvoices[r] = {i} /\ Locked(r) = {i} /\ invoices[i].status = status

\* What a request knows and holds, by the place it has reached.
RequestOK(r) ==
  /\ settingsLock = r <=> pc[r] \in {"balance", "post"}
  /\ pc[r] = "idle" => Locked(r) = {}
  /\ pc[r] \in {"confirm", "resolved"} => HoldsOne(r, "DRAFT")
  /\ pc[r] = "cancel" => HoldsOne(r, "CONFIRMED")
  /\ pc[r] = "resolved" => reqAccount[r] \in Accounts
  /\ pc[r] \in {"lock", "balance", "post"} =>
       /\ reqPayment[r] \in Payment /\ reqPayment[r].status = "ACTIVE"
       /\ DOMAIN reqPayment[r].allocation = reqInvoices[r]
  /\ pc[r] = "lock" =>
       /\ Locked(r) \subseteq reqInvoices[r]
       /\ \A i \in Locked(r), j \in Unlocked(r) : i < j
  /\ pc[r] \in {"balance", "post"} =>
       /\ Locked(r) = reqInvoices[r]
       /\ \A i \in reqInvoices[r] : invoices[i].status = "CONFIRMED"
  /\ pc[r] = "post" =>
       \A i \in reqInvoices[r] :
         reqPayment[r].allocation[i] <= invoices[i].total - PaidIn(payments, i)

PostedBy(ls, source) == {l \in ls : l.source = source}

\* What has been posted for an invoice and for a payment that stand, and what
\* has not for those that do not yet.
InvoicePosted(i) ==
  /\ invoices[i].status \in {"NONE", "DRAFT"} => PostedBy(lines, i) = {}
  /\ invoices[i].status = "CONFIRMED" =>
       /\ invoices[i].account \in Accounts
       /\ PostedBy(lines, i) = {Line(i, "ORIGINAL", invoices[i].account, invoices[i].total)}

PaymentPosted(p) ==
  /\ payments[p].status = "NONE" => PostedBy(lines, p) = {}
  /\ payments[p].status = "ACTIVE" =>
       PostedBy(lines, p) = LinesFor(p, payments[p].allocation, invoices)

IInv ==
  /\ TypeOK
  /\ IsFiniteSet(lines)
  /\ \A r \in Requests : RequestOK(r)
  /\ \A i \in Invoices : ActiveIn(payments, i) # {} => invoices[i].status = "CONFIRMED"
  /\ \A i \in Invoices : InvoicePosted(i)
  /\ \A p \in Payments : PaymentPosted(p)
  /\ \A a \in Accounts : BalanceIn(lines, a) = OwedIn(invoices, payments, a)

-----------------------------------------------------------------------------
(* Lemmas about the operators of the model *)

\* No row is a row that says so in its status.
LEMMA NoRows ==
  ASSUME TypeOK
  PROVE  /\ NoInvoice.status = "NONE" /\ NoPayment.status = "NONE"
         /\ \A i \in Invoices : invoices[i].status \in {"DRAFT", "CONFIRMED", "CANCELLED"}
                                  => invoices[i] \in Invoice(i)
         /\ \A p \in Payments : payments[p].status \in {"ACTIVE", "CANCELLED"} => payments[p] \in Payment
BY DEF TypeOK, NoInvoice, NoPayment

\* Allocations and totals are positive numbers.
LEMMA AmountsArePositive ==
  ASSUME PurchaseLedgerAssumption
  PROVE  /\ \A row \in Payment : /\ DOMAIN row.allocation \in (SUBSET Invoices) \ {{}}
                                 /\ \A i \in DOMAIN row.allocation : row.allocation[i] \in Nat \ {0}
         /\ \A i \in Invoices : \A row \in Invoice(i) : row.total \in Nat \ {0}
<1>1. ASSUME NEW row \in Payment
      PROVE  /\ DOMAIN row.allocation \in (SUBSET Invoices) \ {{}}
             /\ \A i \in DOMAIN row.allocation : row.allocation[i] \in Nat \ {0}
  <2>1. row.allocation \in Allocations
    BY DEF Payment
  <2>2. PICK is \in (SUBSET Invoices) \ {{}} : row.allocation \in [is -> Amounts]
    BY <2>1 DEF Allocations
  <2>3. Amounts \subseteq Nat \ {0}
    BY DEF PurchaseLedgerAssumption
  <2>. QED
    BY <2>2, <2>3
<1>2. ASSUME NEW i \in Invoices, NEW row \in Invoice(i) PROVE row.total \in Nat \ {0}
  <2>1. row.total \in Totals[i]
    BY DEF Invoice
  <2>2. Totals[i] \in SUBSET (Nat \ {0})
    BY DEF PurchaseLedgerAssumption
  <2>. QED
    BY <2>1, <2>2
<1>. QED
  BY <1>1, <1>2

\* Some invoice of finitely many has the greatest number.
LEMMA GreatestInvoice ==
  ASSUME PurchaseLedgerAssumption, NEW H \in SUBSET Invoices, H # {}
  PROVE  \E m \in H : \A i \in H : i <= m
<1> DEFINE T == {s \in SUBSET Invoices : s = {} \/ \E m \in s : \A i \in s : i <= m}
<1>1. {} \in T
  OBVIOUS
<1>2. ASSUME NEW s \in SUBSET Invoices, \A x \in s : s \ {x} \in T PROVE s \in T
  <2>1. CASE s = {}
    BY <2>1
  <2>2. CASE s # {}
    <3>1. PICK x \in s : TRUE
      BY <2>2
    <3>2. s \ {x} = {} \/ \E m \in s \ {x} : \A i \in s \ {x} : i <= m
      BY <1>2
    <3>3. s \subseteq Nat
      BY DEF PurchaseLedgerAssumption
    <3>4. CASE s \ {x} = {}
      BY <3>3, <3>4
    <3>5. CASE \E m \in s \ {x} : \A i \in s \ {x} : i <= m
      <4>1. PICK m \in s \ {x} : \A i \in s \ {x} : i <= m
        BY <3>5
      <4>2. x \in Nat /\ m \in Nat /\ (\A i \in s : i \in Nat)
        BY <3>3
      <4>3. CASE x <= m
        BY <4>1, <4>2, <4>3
      <4>4. CASE ~(x <= m)
        BY <4>1, <4>2, <4>4
      <4>. QED
        BY <4>3, <4>4
    <3>. QED
      BY <3>2, <3>4, <3>5
  <2>. QED
    BY <2>1, <2>2
<1>3. IsFiniteSet(Invoices)
  BY DEF PurchaseLedgerAssumption
<1>4. SUBSET Invoices \subseteq T
  <2>. HIDE DEF T
  <2>. QED
    BY <1>1, <1>2, <1>3, SubsetsBySize
<1>. QED
  BY <1>4

\* Locks are taken in one order, the settings last: among any requests, the one
\* that holds the settings waits for nobody, and else the one that holds the
\* greatest invoice waits for none of them.
LEMMA LocksAreOrdered ==
  ASSUME PurchaseLedgerAssumption, TypeOK, \A r \in Requests : RequestOK(r)
  PROVE  NoCircularWait
<1> SUFFICES ASSUME NEW R \in (SUBSET Requests) \ {{}}
             PROVE  \E r \in R : WaitsFor(r) \cap R = {}
  BY DEF NoCircularWait
<1>0. R # {}
  OBVIOUS
<1> DEFINE H == {i \in Invoices : invoiceLock[i] \in R}
<1>1. CASE settingsLock \in R
  <2>1. pc[settingsLock] # "lock"
    BY <1>1 DEF RequestOK
  <2>. QED
    BY <1>1, <2>1 DEF WaitsFor
<1>2. CASE settingsLock \notin R /\ H = {}
  <2>1. PICK r \in R : TRUE
    BY <1>0
  <2>2. \A i \in Unlocked(r) : invoiceLock[i] \notin R
    BY <1>2 DEF Unlocked, TypeOK
  <2>3. WaitsFor(r) \cap R = {}
    BY <1>2, <2>2 DEF WaitsFor
  <2>. QED
    BY <2>3
<1>3. CASE settingsLock \notin R /\ H # {}
  <2>1. PICK m \in H : \A i \in H : i <= m
    <3>. HIDE DEF H
    <3>1. H \in SUBSET Invoices
      BY DEF H
    <3>. QED
      BY <1>3, <3>1, GreatestInvoice
  <2> DEFINE r == invoiceLock[m]
  <2>2. r \in R /\ m \in Locked(r) /\ RequestOK(r)
    BY <2>1 DEF Locked
  <2>3. ASSUME pc[r] = "lock", NEW j \in Unlocked(r) PROVE invoiceLock[j] \notin R
    <3>1. m < j
      BY <2>2, <2>3 DEF RequestOK
    <3>2. j \in Invoices /\ j \in Nat /\ m \in Nat
      BY <2>2 DEF Unlocked, TypeOK, PurchaseLedgerAssumption
    <3>3. ~(j <= m)
      BY <3>1, <3>2
    <3>. QED
      BY <2>1, <3>2, <3>3
  <2>4. WaitsFor(r) \cap R = {}
    BY <1>3, <2>3 DEF WaitsFor
  <2>. QED
    BY <2>2, <2>4
<1>. QED
  BY <1>1, <1>2, <1>3
-----------------------------------------------------------------------------
(* What an invoice has been paid *)

Share(allocation, i) == IF i \in DOMAIN allocation THEN allocation[i] ELSE 0

PaymentRows == [Payments -> Payment \cup {NoPayment}]

\* It is a sum of natural numbers over finitely many payments.
LEMMA PaidTerms ==
  ASSUME PurchaseLedgerAssumption, NEW pays \in PaymentRows, NEW i
  PROVE  /\ IsFiniteSet(ActiveIn(pays, i))
         /\ [p \in ActiveIn(pays, i) |-> pays[p].allocation[i]] \in [ActiveIn(pays, i) -> Nat]
<1>1. IsFiniteSet(ActiveIn(pays, i))
  BY FS_Subset DEF ActiveIn, PurchaseLedgerAssumption
<1>2. ASSUME NEW p \in ActiveIn(pays, i) PROVE pays[p].allocation[i] \in Nat
  <2>1. pays[p] \in Payment /\ i \in DOMAIN pays[p].allocation
    BY DEF ActiveIn, PaymentRows, NoPayment
  <2>2. \A j \in DOMAIN pays[p].allocation : pays[p].allocation[j] \in Nat \ {0}
    BY <2>1, AmountsArePositive
  <2>. QED
    BY <2>1, <2>2
<1>. QED
  BY <1>1, <1>2

LEMMA PaidInNat ==
  ASSUME PurchaseLedgerAssumption, NEW pays \in PaymentRows, NEW i
  PROVE  PaidIn(pays, i) \in Nat
<1> DEFINE A == ActiveIn(pays, i)
           g == [p \in A |-> pays[p].allocation[i]]
<1>1. IsFiniteSet(A) /\ g \in [A -> Nat]
  BY PaidTerms
<1>2. SumFunction(g) \in Nat
  <2>. HIDE DEF A, g
  <2>. QED
    BY <1>1, SumNat
<1>. QED
  BY <1>2 DEF PaidIn

\* No payment pays nothing.
LEMMA PaidNothing ==
  ASSUME NEW pays, NEW i, ActiveIn(pays, i) = {}
  PROVE  PaidIn(pays, i) = 0
<1> DEFINE g == [p \in ActiveIn(pays, i) |-> pays[p].allocation[i]]
<1>1. DOMAIN g = {}
  OBVIOUS
<1>2. SumFunction(g) = 0
  <2>. HIDE DEF g
  <2>. QED
    BY <1>1, SumNothing
<1>. QED
  BY <1>2 DEF PaidIn

\* One payment more pays what it allocates: read forwards, a payment is
\* registered; read backwards, it is cancelled.
LEMMA OnePaymentMore ==
  ASSUME PurchaseLedgerAssumption, NEW f \in PaymentRows, NEW g \in PaymentRows, NEW p \in Payments,
         f[p].status # "ACTIVE", g[p].status = "ACTIVE", \A q \in Payments \ {p} : g[q] = f[q],
         NEW i
  PROVE  PaidIn(g, i) = PaidIn(f, i) + Share(g[p].allocation, i)
<1> DEFINE A == ActiveIn(f, i)
           B == ActiveIn(g, i)
           s == [q \in A |-> f[q].allocation[i]]
           t == [q \in B |-> g[q].allocation[i]]
<1>1. IsFiniteSet(A) /\ s \in [A -> Nat] /\ t \in [B -> Nat]
  BY PaidTerms
<1>2. p \notin A /\ \A q \in A : t[q] = s[q]
  BY DEF ActiveIn
<1>3. CASE i \in DOMAIN g[p].allocation
  <2>1. B = A \cup {p} /\ t[p] = g[p].allocation[i]
    BY <1>3 DEF ActiveIn
  <2>2. SumFunction(t) = t[p] + SumFunction(s)
    <3>. HIDE DEF A, B, s, t
    <3>1. HasOneMore(t, B, s, A, p)
      BY <1>1, <1>2, <2>1, FS_AddElement DEF HasOneMore, Addends
    <3>. QED
      BY <3>1, SumAdd
  <2>3. SumFunction(s) \in Nat /\ t[p] \in Nat
    <3>. HIDE DEF A, B, s, t
    <3>. QED
      BY <1>1, <2>1, SumNat
  <2>. QED
    BY <1>3, <2>1, <2>2, <2>3 DEF PaidIn, Share
<1>4. CASE i \notin DOMAIN g[p].allocation
  <2>1. A = B
    BY <1>4 DEF ActiveIn
  <2>2. s = t
    BY <1>2, <2>1
  <2>3. PaidIn(f, i) \in Nat
    BY PaidInNat
  <2>. QED
    BY <1>4, <2>2, <2>3 DEF PaidIn, Share
<1>. QED
  BY <1>3, <1>4

-----------------------------------------------------------------------------
(* What an account owes *)

LEMMA BalanceInt ==
  ASSUME NEW ls, IsFiniteSet(ls), \A l \in ls : l.credit \in Int, NEW a
  PROVE  /\ BalanceIn(ls, a) \in Int /\ IsFiniteSet(LinesOn(ls, a))
         /\ [l \in LinesOn(ls, a) |-> l.credit] \in [LinesOn(ls, a) -> Int]
<1> DEFINE A == LinesOn(ls, a)
           g == [l \in A |-> l.credit]
<1>1. IsFiniteSet(A)
  BY FS_Subset DEF LinesOn
<1>2. g \in [A -> Int]
  BY DEF LinesOn
<1>3. SumFunction(g) \in Int
  <2>. HIDE DEF A, g
  <2>. QED
    BY <1>1, <1>2, SumType
<1>. QED
  BY <1>1, <1>2, <1>3 DEF BalanceIn

\* New lines add their own balance to that of the old ones.
LEMMA PostedBalance ==
  ASSUME NEW old, IsFiniteSet(old), \A l \in old : l.credit \in Int,
         NEW new, IsFiniteSet(new), \A l \in new : l.credit \in Int,
         old \cap new = {}, NEW a
  PROVE  BalanceIn(old \cup new, a) = BalanceIn(old, a) + BalanceIn(new, a)
<1> DEFINE D == LinesOn(old \cup new, a)
           C == LinesOn(old, a)
           E == LinesOn(new, a)
           f == [l \in D |-> l.credit]
           g == [l \in C |-> l.credit]
           h == [l \in E |-> l.credit]
<1>1. IsFiniteSet(old \cup new) /\ \A l \in old \cup new : l.credit \in Int
  BY FS_Union
<1>2. Addends(f, D) /\ Addends(g, C) /\ Addends(h, E)
  BY <1>1, BalanceInt DEF Addends
<1>3. C \cup E = D /\ C \cap E = {}
  BY DEF LinesOn
<1>4. (\A l \in C : g[l] = f[l]) /\ (\A l \in E : h[l] = f[l])
  BY <1>3
<1>5. SumFunction(f) = SumFunction(g) + SumFunction(h)
  <2>. HIDE DEF D, C, E, f, g, h
  <2>1. Shares(f, D, g, C, h, E)
    BY <1>2, <1>3, <1>4 DEF Shares
  <2>. QED
    BY <2>1, SumParts
<1>. QED
  BY <1>5 DEF BalanceIn

\* The balance of lines of which one is on the account, or none.
LEMMA BalanceOfOne ==
  ASSUME NEW ls, NEW a, NEW l, LinesOn(ls, a) = {l}, l.credit \in Int
  PROVE  BalanceIn(ls, a) = l.credit
<1> DEFINE g == [x \in {l} |-> x.credit]
<1>1. g \in [{l} -> Int] /\ g[l] = l.credit
  OBVIOUS
<1>2. SumFunction(g) = l.credit
  <2>. HIDE DEF g
  <2>. QED
    BY <1>1, SumOne
<1>. QED
  BY <1>2 DEF BalanceIn

LEMMA BalanceOfNone ==
  ASSUME NEW ls, NEW a, LinesOn(ls, a) = {}
  PROVE  BalanceIn(ls, a) = 0
<1> DEFINE g == [l \in LinesOn(ls, a) |-> l.credit]
<1>1. DOMAIN g = {}
  OBVIOUS
<1>2. SumFunction(g) = 0
  <2>. HIDE DEF g
  <2>. QED
    BY <1>1, SumNothing
<1>. QED
  BY <1>2 DEF BalanceIn

-----------------------------------------------------------------------------
(* Initially *)

LEMMA InitIInv ==
  ASSUME PurchaseLedgerAssumption, Init
  PROVE  IInv
<1>1. TypeOK
  BY DEF Init, MappingInit, TypeOK, PurchaseLedgerAssumption
<1>2. lines = {} /\ IsFiniteSet(lines)
  BY FS_EmptySet DEF Init
<1>3. \A r \in Requests : RequestOK(r)
  BY DEF Init, RequestOK, Locked, PurchaseLedgerAssumption
<1>4. \A i \in Invoices : ActiveIn(payments, i) = {}
  BY DEF Init, ActiveIn, NoPayment
<1>5. (\A i \in Invoices : InvoicePosted(i)) /\ (\A p \in Payments : PaymentPosted(p))
  BY <1>2 DEF Init, InvoicePosted, PaymentPosted, PostedBy, NoInvoice, NoPayment
<1>6. ASSUME NEW a \in Accounts PROVE BalanceIn(lines, a) = OwedIn(invoices, payments, a)
  <2>1. BalanceIn(lines, a) = 0
    BY <1>2, BalanceOfNone DEF LinesOn
  <2> DEFINE g == [i \in ConfirmedOn(invoices, a) |-> invoices[i].total - PaidIn(payments, i)]
  <2>2. DOMAIN g = {}
    BY DEF Init, NoInvoice, ConfirmedOn
  <2>3. SumFunction(g) = 0
    <3>. HIDE DEF g
    <3>. QED
      BY <2>2, SumNothing
  <2>. QED
    BY <2>1, <2>3 DEF OwedIn
<1>. QED
  BY <1>1, <1>2, <1>3, <1>4, <1>5, <1>6 DEF IInv

-----------------------------------------------------------------------------
(* What a step leaves alone *)

\* A request that does not take part in a step keeps what it holds, when its
\* locks, its confirmed and drafted invoices stay as they are, and the step pays
\* none of them.
Untouched(q) ==
  /\ pc'[q] = pc[q] /\ reqInvoices'[q] = reqInvoices[q]
  /\ reqPayment'[q] = reqPayment[q] /\ reqAccount'[q] = reqAccount[q]
  /\ settingsLock' = q <=> settingsLock = q
  /\ \A i \in Invoices : invoiceLock'[i] = q <=> invoiceLock[i] = q

LEMMA OthersStand ==
  ASSUME PurchaseLedgerAssumption, TypeOK, TypeOK', NEW q \in Requests, RequestOK(q), Untouched(q),
         \A i \in Locked(q) : invoices[i].status \in {"DRAFT", "CONFIRMED"} =>
           invoices'[i] = invoices[i] /\ PaidIn(payments', i) <= PaidIn(payments, i)
  PROVE  RequestOK(q)'
<1>1. Locked(q)' = Locked(q)
  BY DEF Untouched, Locked
<1>2. reqInvoices[q] \in SUBSET Invoices /\ Unlocked(q)' = Unlocked(q)
  <2>1. reqInvoices[q] \in SUBSET Invoices
    BY DEF TypeOK
  <2>2. \A i \in reqInvoices[q] : invoiceLock'[i] # q <=> invoiceLock[i] # q
    BY <2>1 DEF Untouched
  <2>. QED
    BY <2>1, <2>2 DEF Untouched, Unlocked
<1>3. \A status \in {"DRAFT", "CONFIRMED"} : HoldsOne(q, status) => HoldsOne(q, status)'
  BY <1>1 DEF HoldsOne, Untouched
<1>4. ASSUME pc[q] \in {"balance", "post"}, NEW i \in reqInvoices[q]
      PROVE  /\ invoices'[i] = invoices[i] /\ invoices[i].status = "CONFIRMED"
             /\ PaidIn(payments', i) <= PaidIn(payments, i)
  BY <1>4 DEF RequestOK
<1>5. ASSUME pc[q] = "post", NEW i \in reqInvoices[q]
      PROVE  reqPayment[q].allocation[i] <= invoices'[i].total - PaidIn(payments', i)
  <2>1. /\ reqPayment[q].allocation[i] <= invoices[i].total - PaidIn(payments, i)
        /\ reqPayment[q] \in Payment /\ i \in DOMAIN reqPayment[q].allocation /\ i \in Invoices
    BY <1>2, <1>5 DEF RequestOK
  <2>2. reqPayment[q].allocation[i] \in Nat
    BY <2>1, AmountsArePositive
  <2>3. invoices[i].total \in Nat
    BY <1>4, <1>5, <2>1, NoRows, AmountsArePositive
  <2>4. PaidIn(payments, i) \in Nat /\ PaidIn(payments', i) \in Nat
    BY PaidInNat DEF TypeOK, PaymentRows
  <2>5. PaidIn(payments', i) <= PaidIn(payments, i) /\ invoices'[i] = invoices[i]
    BY <1>4, <1>5
  <2>. QED
    BY <2>1, <2>2, <2>3, <2>4, <2>5
<1>6. /\ pc'[q] = pc[q] /\ reqInvoices'[q] = reqInvoices[q] /\ reqPayment'[q] = reqPayment[q]
      /\ reqAccount'[q] = reqAccount[q] /\ (settingsLock' = q <=> settingsLock = q)
  BY DEF Untouched
<1>. QED
  BY <1>1, <1>2, <1>3, <1>4, <1>5, <1>6 DEF RequestOK

\* The invoices that a payment pays on stand.
LEMMA PaidOnConfirmed ==
  ASSUME PurchaseLedgerAssumption, IInv, NEW p \in Payments, payments[p].status = "ACTIVE"
  PROVE  \A i \in DOMAIN payments[p].allocation : i \in Invoices /\ invoices[i].status = "CONFIRMED"
<1>1. payments[p] \in Payment
  BY NoRows DEF IInv
<1>2. \A i \in DOMAIN payments[p].allocation : i \in Invoices /\ p \in ActiveIn(payments, i)
  BY <1>1, AmountsArePositive DEF ActiveIn
<1>. QED
  BY <1>2 DEF IInv

\* What a payment posts stays the same as long as its invoices do.
LEMMA LinesForSame ==
  ASSUME NEW p, NEW allocation, NEW f, NEW g,
         \A i \in DOMAIN allocation : f[i].account = g[i].account
  PROVE  LinesFor(p, allocation, f) = LinesFor(p, allocation, g)
<1>1. AccountsOf(allocation, f) = AccountsOf(allocation, g)
  BY DEF AccountsOf
<1>2. ASSUME NEW a PROVE ShareOn(allocation, f, a) = ShareOn(allocation, g, a)
  <2>1. PartOn(allocation, f, a) = PartOn(allocation, g, a)
    BY DEF PartOn
  <2>. QED
    BY <2>1 DEF ShareOn
<1>. QED
  BY <1>1, <1>2 DEF LinesFor

\* A step that changes nothing but drafts leaves what is said of rows and lines.
LEMMA RowsStand ==
  ASSUME PurchaseLedgerAssumption, IInv, UNCHANGED <<payments, lines>>,
         \A i \in Invoices : \/ invoices'[i] = invoices[i]
                             \/ invoices[i].status \in {"NONE", "DRAFT"} /\ invoices'[i].status = "DRAFT",
         TypeOK', \A r \in Requests : RequestOK(r)'
  PROVE  IInv'
<1>1. \A i \in Invoices : /\ invoices[i].status = "CONFIRMED" => invoices'[i] = invoices[i]
                          /\ invoices'[i].status = "CONFIRMED" => invoices'[i] = invoices[i]
  OBVIOUS
<1>2. \A i \in Invoices : ActiveIn(payments', i) # {} => invoices'[i].status = "CONFIRMED"
  BY <1>1 DEF IInv
<1>3. ASSUME NEW i \in Invoices PROVE InvoicePosted(i)'
  BY DEF IInv, InvoicePosted
<1>4. ASSUME NEW p \in Payments PROVE PaymentPosted(p)'
  <2>1. PaymentPosted(p)
    BY DEF IInv
  <2>2. ASSUME payments[p].status = "ACTIVE"
        PROVE  LinesFor(p, payments[p].allocation, invoices') = LinesFor(p, payments[p].allocation, invoices)
    <3>1. \A i \in DOMAIN payments[p].allocation : invoices'[i].account = invoices[i].account
      BY <1>1, <2>2, PaidOnConfirmed
    <3>. QED
      BY <3>1, LinesForSame
  <2>. QED
    BY <2>1, <2>2 DEF PaymentPosted
<1>5. ASSUME NEW a \in Accounts PROVE BalanceIn(lines', a) = OwedIn(invoices', payments', a)
  <2>1. ConfirmedOn(invoices, a) = ConfirmedOn(invoices', a)
    BY <1>1 DEF ConfirmedOn
  <2>2. \A i \in ConfirmedOn(invoices, a) : invoices[i].total = invoices'[i].total
    BY <1>1 DEF ConfirmedOn
  <2>3. OwedIn(invoices', payments', a) = OwedIn(invoices, payments, a)
    BY <2>1, <2>2 DEF OwedIn
  <2>. QED
    BY <2>3 DEF IInv
<1>. QED
  BY <1>2, <1>3, <1>4, <1>5 DEF IInv
-----------------------------------------------------------------------------
(* Steps that write no row *)

\* A step of some requests that leaves the rows alone keeps the invariant when
\* it keeps the types and those requests.
LEMMA RequestStep ==
  ASSUME PurchaseLedgerAssumption, IInv, UNCHANGED rows, NEW R \in SUBSET Requests,
         \A q \in Requests \ R : Untouched(q), TypeOK', \A r \in R : RequestOK(r)'
  PROVE  IInv'
<1>1. \A i : PaidIn(payments', i) = PaidIn(payments, i)
  BY DEF rows
<1>2. \A i : PaidIn(payments, i) \in Nat
  BY PaidInNat DEF IInv, TypeOK, PaymentRows
<1>3. \A i : PaidIn(payments', i) <= PaidIn(payments, i)
  BY <1>1, <1>2
<1>4. ASSUME NEW q \in Requests \ R PROVE RequestOK(q)'
  <2>1. invoices' = invoices
    BY DEF rows
  <2>2. TypeOK /\ RequestOK(q)
    BY DEF IInv
  <2>. QED
    BY <1>3, <2>1, <2>2, OthersStand
<1>5. \A q \in Requests : RequestOK(q)'
  BY <1>4
<1>. QED
  BY <1>5, RowsStand DEF rows

\* lockInvoice takes the only lock of its transaction.
LEMMA LockOneInvoiceStep ==
  ASSUME PurchaseLedgerAssumption, IInv, NEW r \in Requests, NEW i \in Invoices,
         \/ BeginConfirm(r, i)
         \/ BeginCancel(r, i)
  PROVE  IInv'
<1>1. PICK status \in {"DRAFT", "CONFIRMED"}, next \in {"confirm", "cancel"} :
        LockOneInvoice(r, i, status, next) /\ (status = "DRAFT" <=> next = "confirm")
  BY DEF BeginConfirm, BeginCancel
<1>2. TypeOK /\ RequestOK(r) /\ pc[r] = "idle"
  BY <1>1 DEF IInv, LockOneInvoice
<1>3. TypeOK'
  BY <1>1, <1>2 DEF TypeOK, LockOneInvoice, Goto, rows, mapping
<1>4. \A q \in Requests \ {r} : Untouched(q)
  BY <1>1, <1>2 DEF TypeOK, LockOneInvoice, Goto, Untouched, PurchaseLedgerAssumption
<1>5. RequestOK(r)'
  <2>1. Locked(r) = {} /\ settingsLock # r
    BY <1>2 DEF RequestOK
  <2>2. Locked(r)' = {i}
    BY <1>1, <1>2, <2>1 DEF Locked, LockOneInvoice, TypeOK
  <2>3. /\ pc'[r] = next /\ reqInvoices'[r] = {i} /\ settingsLock' # r
        /\ invoices'[i].status = status
    BY <1>1, <1>2, <2>1 DEF LockOneInvoice, Goto, TypeOK, rows
  <2>4. HoldsOne(r, status)'
    BY <2>2, <2>3 DEF HoldsOne
  <2>. QED
    BY <1>1, <2>3, <2>4 DEF RequestOK
<1>6. UNCHANGED rows /\ {r} \in SUBSET Requests
  BY <1>1 DEF LockOneInvoice
<1>. QED
  BY <1>3, <1>4, <1>5, <1>6, RequestStep

\* The account is looked up while the invoice is locked.
LEMMA ResolvePayableStep ==
  ASSUME PurchaseLedgerAssumption, IInv, NEW r \in Requests, NEW a \in Accounts, ResolvePayable(r, a)
  PROVE  IInv'
<1>1. TypeOK /\ RequestOK(r)
  BY DEF IInv
<1>2. TypeOK'
  BY <1>1 DEF TypeOK, ResolvePayable, Goto, rows, locks, mapping
<1>3. \A q \in Requests \ {r} : Untouched(q)
  BY <1>1 DEF TypeOK, ResolvePayable, Goto, Untouched, locks
<1>4. RequestOK(r)'
  <2>1. /\ pc[r] = "confirm" /\ pc'[r] = "resolved" /\ reqAccount'[r] \in Accounts
        /\ UNCHANGED <<reqInvoices, invoices, invoiceLock, settingsLock>>
    BY <1>1 DEF ResolvePayable, Goto, TypeOK, rows, locks
  <2>2. HoldsOne(r, "DRAFT")'
    BY <1>1, <2>1 DEF RequestOK, HoldsOne, Locked
  <2>. QED
    BY <1>1, <2>1, <2>2 DEF RequestOK
<1>5. UNCHANGED rows /\ {r} \in SUBSET Requests
  BY DEF ResolvePayable
<1>. QED
  BY <1>2, <1>3, <1>4, <1>5, RequestStep

\* A payment is checked and built before anything is locked for it.
LEMMA BeginPaymentStep ==
  ASSUME PurchaseLedgerAssumption, IInv, NEW r \in Requests, NEW allocation \in Allocations,
         NEW key \in {{}} \cup {{k} : k \in IdempotencyKeys}, BeginPayment(r, allocation, key)
  PROVE  IInv'
<1> DEFINE new == [status |-> "ACTIVE", allocation |-> allocation, key |-> key]
<1>1. TypeOK /\ RequestOK(r)
  BY DEF IInv
<1>2. new \in Payment
  BY DEF Payment
<1>3. DOMAIN allocation \in SUBSET Invoices
  BY <1>2, AmountsArePositive
<1>4. TypeOK'
  <2>. HIDE DEF new
  <2>1. reqPayment' = [reqPayment EXCEPT ![r] = new]
    BY DEF BeginPayment, new
  <2>. QED
    BY <1>1, <1>2, <1>3, <2>1 DEF TypeOK, BeginPayment, Goto, rows, locks, mapping
<1>5. \A q \in Requests \ {r} : Untouched(q)
  BY <1>1 DEF TypeOK, BeginPayment, Goto, Untouched, locks
<1>6. RequestOK(r)'
  <2>1. /\ pc[r] = "idle" /\ pc'[r] = "lock"
        /\ reqPayment'[r] = new /\ reqInvoices'[r] = DOMAIN allocation
        /\ UNCHANGED <<invoiceLock, settingsLock>>
    BY <1>1 DEF BeginPayment, Goto, TypeOK, locks
  <2>2. Locked(r)' = {} /\ settingsLock # r
    BY <1>1, <2>1 DEF RequestOK, Locked
  <2>. QED
    BY <1>2, <2>1, <2>2 DEF RequestOK
<1>7. UNCHANGED rows /\ {r} \in SUBSET Requests
  BY DEF BeginPayment
<1>. QED
  BY <1>4, <1>5, <1>6, <1>7, RequestStep

\* The next lock is on the least invoice that is not locked yet.
LEMMA LockNextInvoiceStep ==
  ASSUME PurchaseLedgerAssumption, IInv, NEW r \in Requests, LockNextInvoice(r)
  PROVE  IInv'
<1>1. TypeOK /\ RequestOK(r)
  BY DEF IInv
<1>2. PICK i \in Unlocked(r) : (\A j \in Unlocked(r) : i <= j) /\ TakeLock(r, i)
  BY DEF LockNextInvoice
<1>3. i \in Invoices /\ reqInvoices[r] \in SUBSET Invoices /\ Invoices \subseteq Nat
  BY <1>1 DEF Unlocked, TypeOK, PurchaseLedgerAssumption
<1>4. invoiceLock' = [invoiceLock EXCEPT ![i] = r] /\ UNCHANGED <<settingsLock, reqs>> /\ UNCHANGED rows
  BY <1>2 DEF TakeLock
<1>5. TypeOK'
  BY <1>1, <1>2, <1>3 DEF TypeOK, TakeLock, rows, reqs, mapping
<1>6. \A q \in Requests \ {r} : Untouched(q)
  BY <1>1, <1>2, <1>3 DEF TypeOK, TakeLock, Untouched, reqs, PurchaseLedgerAssumption
<1>7. RequestOK(r)'
  <2>1. Locked(r)' = Locked(r) \cup {i}
    BY <1>1, <1>3, <1>4 DEF Locked, TypeOK
  <2>2. Unlocked(r)' = Unlocked(r) \ {i}
    BY <1>1, <1>3, <1>4 DEF Unlocked, TypeOK, reqs
  <2>3. /\ pc'[r] = "lock" /\ pc[r] = "lock" /\ reqInvoices'[r] = reqInvoices[r]
        /\ reqPayment'[r] = reqPayment[r] /\ settingsLock' = settingsLock
    BY <1>2, <1>4 DEF TakeLock, reqs
  <2>4. Locked(r)' \subseteq reqInvoices[r]
    BY <1>1, <1>2, <2>1, <2>3 DEF RequestOK, Unlocked
  <2>5. ASSUME NEW h \in Locked(r)', NEW j \in Unlocked(r)' PROVE h < j
    <3>1. j \in Unlocked(r) /\ j # i /\ i <= j /\ j \in Nat /\ i \in Nat
      BY <1>2, <1>3, <2>2 DEF Unlocked
    <3>2. CASE h = i
      BY <3>1, <3>2
    <3>3. CASE h \in Locked(r)
      BY <1>1, <2>3, <3>1, <3>3 DEF RequestOK
    <3>. QED
      BY <2>1, <3>2, <3>3
  <2>. QED
    BY <1>1, <2>3, <2>4, <2>5 DEF RequestOK
<1>8. {r} \in SUBSET Requests
  OBVIOUS
<1>. QED
  BY <1>4, <1>5, <1>6, <1>7, <1>8, RequestStep
\* The settings are locked when all the invoices are, and are confirmed.
LEMMA LockSettingsStep ==
  ASSUME PurchaseLedgerAssumption, IInv, NEW r \in Requests, LockSettings(r)
  PROVE  IInv'
<1>1. TypeOK /\ RequestOK(r)
  BY DEF IInv
<1>2. TypeOK'
  BY <1>1 DEF TypeOK, LockSettings, Goto, rows, mapping
<1>3. \A q \in Requests \ {r} : Untouched(q)
  BY <1>1 DEF TypeOK, LockSettings, Goto, Untouched, PurchaseLedgerAssumption
<1>4. RequestOK(r)'
  <2>1. /\ pc[r] = "lock" /\ pc'[r] = "balance" /\ settingsLock' = r
        /\ Unlocked(r) = {} /\ \A i \in reqInvoices[r] : invoices[i].status = "CONFIRMED"
        /\ UNCHANGED <<invoices, invoiceLock, reqInvoices, reqPayment>>
    BY <1>1 DEF LockSettings, Goto, TypeOK, rows
  <2>2. reqInvoices[r] \subseteq Locked(r)
    BY <1>1, <2>1 DEF Unlocked, Locked, TypeOK
  <2>3. Locked(r)' = Locked(r)
    BY <2>1 DEF Locked
  <2>. QED
    BY <1>1, <2>1, <2>2, <2>3 DEF RequestOK
<1>5. UNCHANGED rows /\ {r} \in SUBSET Requests
  BY DEF LockSettings
<1>. QED
  BY <1>2, <1>3, <1>4, <1>5, RequestStep

\* What is left to pay of each is compared with what is allocated to it.
LEMMA CheckBalanceStep ==
  ASSUME PurchaseLedgerAssumption, IInv, NEW r \in Requests, CheckBalance(r)
  PROVE  IInv'
<1>1. TypeOK /\ RequestOK(r)
  BY DEF IInv
<1>2. TypeOK'
  BY <1>1 DEF TypeOK, CheckBalance, Goto, rows, locks, mapping
<1>3. \A q \in Requests \ {r} : Untouched(q)
  BY <1>1 DEF TypeOK, CheckBalance, Goto, Untouched, locks
<1>4. RequestOK(r)'
  <2>1. /\ pc[r] = "balance" /\ pc'[r] = "post"
        /\ UNCHANGED <<invoices, payments, invoiceLock, settingsLock, reqInvoices, reqPayment>>
    BY <1>1 DEF CheckBalance, Goto, TypeOK, rows, locks
  <2>2. \A i \in reqInvoices[r] : reqPayment[r].allocation[i] <= invoices[i].total - PaidIn(payments, i)
    BY AsFunctions DEF CheckBalance, FitsBalance
  <2>3. Locked(r)' = Locked(r)
    BY <2>1 DEF Locked
  <2>. QED
    BY <1>1, <2>1, <2>2, <2>3 DEF RequestOK
<1>5. UNCHANGED rows /\ {r} \in SUBSET Requests
  BY DEF CheckBalance
<1>. QED
  BY <1>2, <1>3, <1>4, <1>5, RequestStep

\* A transaction that ends, either way, leaves nothing locked and nobody else
\* disturbed.
LEMMA Ended ==
  ASSUME PurchaseLedgerAssumption, TypeOK, NEW r \in Requests, EndTransaction(r)
  PROVE  /\ RequestOK(r)'
         /\ \A q \in Requests \ {r} : Untouched(q)
         /\ invoiceLock' \in [Invoices -> Requests \cup {NoRequest}]
         /\ settingsLock' \in Requests \cup {NoRequest}
         /\ pc' \in [Requests -> {"idle", "confirm", "resolved", "cancel", "lock", "balance", "post"}]
         /\ reqInvoices' \in [Requests -> SUBSET Invoices]
         /\ reqPayment' \in [Requests -> Payment \cup {NoPayment}]
         /\ reqAccount' \in [Requests -> Accounts \cup {NoAccount}]
<1>1. pc'[r] = "idle" /\ settingsLock' # r /\ Locked(r)' = {}
  BY DEF EndTransaction, Goto, TypeOK, Locked, PurchaseLedgerAssumption
<1>2. RequestOK(r)'
  BY <1>1 DEF RequestOK
<1>3. \A q \in Requests \ {r} : Untouched(q)
  BY DEF EndTransaction, Goto, TypeOK, Untouched, PurchaseLedgerAssumption
<1>. QED
  BY <1>2, <1>3 DEF EndTransaction, Goto, TypeOK, PurchaseLedgerAssumption

LEMMA RollBackStep ==
  ASSUME PurchaseLedgerAssumption, IInv, NEW r \in Requests, RollBack(r)
  PROVE  IInv'
<1>1. TypeOK /\ EndTransaction(r) /\ UNCHANGED <<mapping, rows>> /\ {r} \in SUBSET Requests
  BY DEF IInv, RollBack
<1>2. RequestOK(r)' /\ \A q \in Requests \ {r} : Untouched(q)
  BY <1>1, Ended
<1>3. TypeOK'
  <2>1. /\ invoiceLock' \in [Invoices -> Requests \cup {NoRequest}]
        /\ settingsLock' \in Requests \cup {NoRequest}
        /\ pc' \in [Requests -> {"idle", "confirm", "resolved", "cancel", "lock", "balance", "post"}]
        /\ reqInvoices' \in [Requests -> SUBSET Invoices]
        /\ reqPayment' \in [Requests -> Payment \cup {NoPayment}]
        /\ reqAccount' \in [Requests -> Accounts \cup {NoAccount}]
    BY <1>1, Ended
  <2>. QED
    BY <1>1, <2>1 DEF TypeOK, mapping, rows
<1>. QED
  BY <1>1, <1>2, <1>3, RequestStep

\* The chart of accounts is edited whatever the requests are doing.
LEMMA MappingStep ==
  ASSUME PurchaseLedgerAssumption, IInv, MappingNext, UNCHANGED <<rows, locks, reqs>>
  PROVE  IInv'
<1>1. TypeOK
  BY DEF IInv
<1>2. holder' \in [Keys -> Accounts \cup {NoAccount}] /\ usable' \subseteq Accounts
  BY <1>1 DEF TypeOK, MappingNext, SwitchOn, SwitchOff, Reassign
<1>3. TypeOK'
  BY <1>1, <1>2 DEF TypeOK, rows, locks, reqs
<1>4. \A q \in Requests : Untouched(q)
  BY DEF Untouched, locks, reqs
<1>. QED
  BY <1>3, <1>4, RequestStep, {} \in SUBSET Requests

-----------------------------------------------------------------------------
(* Steps that write rows *)

\* An invoice is drafted, or a draft that nobody has locked is edited.
LEMMA DraftStep ==
  ASSUME PurchaseLedgerAssumption, IInv, NEW i \in Invoices, NEW total \in Totals[i],
         \/ CreateInvoice(i, total)
         \/ EditInvoice(i, total)
  PROVE  IInv'
<1>1. TypeOK /\ \A r \in Requests : RequestOK(r)
  BY DEF IInv
<1>2. /\ invoices'[i] \in Invoice(i) /\ invoices'[i].status = "DRAFT"
      /\ invoices[i].status \in {"NONE", "DRAFT"}
      /\ DOMAIN invoices' = Invoices /\ \A j \in Invoices \ {i} : invoices'[j] = invoices[j]
      /\ invoices[i].status = "DRAFT" => invoiceLock[i] = NoRequest
      /\ UNCHANGED <<payments, lines, locks, reqs, mapping>>
  <2>1. CASE CreateInvoice(i, total)
    BY <1>1, <2>1 DEF CreateInvoice, TypeOK, Invoice, NoInvoice
  <2>2. CASE EditInvoice(i, total)
    <3>1. invoices[i] \in Invoice(i)
      BY <1>1, <2>2, NoRows DEF EditInvoice
    <3>2. [invoices[i] EXCEPT !.total = total] \in Invoice(i)
      BY <3>1 DEF Invoice
    <3>3. invoices' = [invoices EXCEPT ![i] = [invoices[i] EXCEPT !.total = total]]
      BY <1>1, <2>2 DEF EditInvoice, TypeOK
    <3>. QED
      BY <1>1, <2>2, <3>1, <3>2, <3>3 DEF EditInvoice, TypeOK, Invoice
  <2>. QED
    BY <2>1, <2>2
<1>3. TypeOK'
  BY <1>1, <1>2 DEF TypeOK, locks, reqs, mapping
<1>4. \A q \in Requests : Untouched(q)
  BY <1>2 DEF Untouched, locks, reqs
<1>5. ASSUME NEW q \in Requests PROVE RequestOK(q)'
  <2>1. \A j : PaidIn(payments', j) = PaidIn(payments, j) /\ PaidIn(payments, j) \in Nat
    BY <1>1, <1>2, PaidInNat DEF TypeOK, PaymentRows
  <2>2. \A j \in Locked(q) : invoices[j].status \in {"DRAFT", "CONFIRMED"} =>
          invoices'[j] = invoices[j] /\ PaidIn(payments', j) <= PaidIn(payments, j)
    BY <1>2, <2>1 DEF Locked, PurchaseLedgerAssumption
  <2>. QED
    BY <1>1, <1>3, <1>4, <2>2, OthersStand
<1>. QED
  BY <1>2, <1>3, <1>5, RowsStand
-----------------------------------------------------------------------------
(* What is owed, before and after *)

\* Rows of invoices.
InvoicesTyped(f) == DOMAIN f = Invoices /\ \A i \in Invoices : f[i] \in Invoice(i) \cup {NoInvoice}

\* What is left to pay of confirmed invoices is a sum of integers.
LEMMA OwedTerms ==
  ASSUME PurchaseLedgerAssumption, NEW invs, InvoicesTyped(invs), NEW pays \in PaymentRows, NEW a
  PROVE  Addends([i \in ConfirmedOn(invs, a) |-> invs[i].total - PaidIn(pays, i)], ConfirmedOn(invs, a))
<1>1. IsFiniteSet(ConfirmedOn(invs, a))
  BY FS_Subset DEF ConfirmedOn, PurchaseLedgerAssumption
<1>2. ASSUME NEW i \in ConfirmedOn(invs, a) PROVE invs[i].total - PaidIn(pays, i) \in Int
  <2>1. i \in Invoices /\ invs[i] \in Invoice(i)
    BY DEF ConfirmedOn, InvoicesTyped, NoInvoice
  <2>2. invs[i].total \in Nat \ {0}
    BY <2>1, AmountsArePositive
  <2>3. PaidIn(pays, i) \in Nat
    BY PaidInNat
  <2>. QED
    BY <2>2, <2>3
<1>. QED
  BY <1>1, <1>2 DEF Addends

\* What an account owes is an integer.
LEMMA OwedInt ==
  ASSUME PurchaseLedgerAssumption, NEW invs, InvoicesTyped(invs), NEW pays \in PaymentRows, NEW a
  PROVE  OwedIn(invs, pays, a) \in Int
BY OwedTerms, SumType DEF OwedIn, Addends

\* A confirmed invoice more that nothing has been paid of: its account owes its
\* total.  Read backwards, the invoice is cancelled.
LEMMA OneInvoiceMore ==
  ASSUME PurchaseLedgerAssumption, NEW f, InvoicesTyped(f), NEW g, InvoicesTyped(g),
         NEW i \in Invoices, f[i].status # "CONFIRMED", g[i].status = "CONFIRMED",
         \A j \in Invoices \ {i} : g[j] = f[j],
         NEW pays \in PaymentRows, PaidIn(pays, i) = 0, NEW a
  PROVE  OwedIn(g, pays, a) = OwedIn(f, pays, a) + IF g[i].account = a THEN g[i].total ELSE 0
<1> DEFINE A == ConfirmedOn(f, a)
           B == ConfirmedOn(g, a)
           s == [j \in A |-> f[j].total - PaidIn(pays, j)]
           t == [j \in B |-> g[j].total - PaidIn(pays, j)]
<1>1. Addends(s, A) /\ Addends(t, B)
  BY OwedTerms
<1>2. IsFiniteSet(A) /\ s \in [A -> Int] /\ t \in [B -> Int]
  BY <1>1 DEF Addends
<1>3. i \notin A /\ A \subseteq Invoices /\ \A j \in A : t[j] = s[j]
  BY DEF ConfirmedOn
<1>4. SumFunction(s) \in Int
  <2>. HIDE DEF A, s
  <2>. QED
    BY <1>2, SumType
<1>5. CASE g[i].account = a
  <2>1. B = A \cup {i}
    BY <1>5 DEF ConfirmedOn
  <2>2. g[i].total \in Nat
    BY AmountsArePositive DEF InvoicesTyped, NoInvoice
  <2>3. t[i] = g[i].total
    BY <2>1, <2>2
  <2>4. SumFunction(t) = t[i] + SumFunction(s)
    <3>. HIDE DEF A, B, s, t
    <3>1. HasOneMore(t, B, s, A, i)
      BY <1>1, <1>3, <2>1 DEF HasOneMore
    <3>. QED
      BY <3>1, SumAdd
  <2>. QED
    BY <1>4, <1>5, <2>2, <2>3, <2>4 DEF OwedIn
<1>6. CASE g[i].account # a
  <2>1. A = B
    BY <1>6 DEF ConfirmedOn
  <2>2. s = t
    BY <1>3, <2>1
  <2>. QED
    BY <1>4, <1>6, <2>2 DEF OwedIn
<1>. QED
  BY <1>5, <1>6

\* What an allocation pays on an account is a sum of natural numbers.
LEMMA ShareTerms ==
  ASSUME PurchaseLedgerAssumption, NEW row \in Payment, NEW invs, NEW a
  PROVE  Addends([i \in PartOn(row.allocation, invs, a) |-> row.allocation[i]],
                 PartOn(row.allocation, invs, a))
<1>1. DOMAIN row.allocation \in SUBSET Invoices /\ IsFiniteSet(Invoices)
  BY AmountsArePositive DEF PurchaseLedgerAssumption
<1>2. IsFiniteSet(PartOn(row.allocation, invs, a))
  <2>1. PartOn(row.allocation, invs, a) \subseteq Invoices
    BY <1>1 DEF PartOn
  <2>. QED
    BY <1>1, <2>1, FS_Subset
<1>3. \A i \in PartOn(row.allocation, invs, a) : row.allocation[i] \in Int
  BY AmountsArePositive DEF PartOn
<1>. QED
  BY <1>2, <1>3 DEF Addends

LEMMA ShareInt ==
  ASSUME PurchaseLedgerAssumption, NEW row \in Payment, NEW invs, NEW a
  PROVE  /\ ShareOn(row.allocation, invs, a) \in Int
         /\ a \notin AccountsOf(row.allocation, invs) => ShareOn(row.allocation, invs, a) = 0
<1> DEFINE D == PartOn(row.allocation, invs, a)
           f == [i \in D |-> row.allocation[i]]
<1>1. IsFiniteSet(D) /\ f \in [D -> Int]
  BY ShareTerms DEF Addends
<1>2. SumFunction(f) \in Int
  <2>. HIDE DEF D, f
  <2>. QED
    BY <1>1, SumType
<1>3. ASSUME a \notin AccountsOf(row.allocation, invs) PROVE SumFunction(f) = 0
  <2>1. DOMAIN f = {}
    BY <1>3 DEF PartOn, AccountsOf
  <2>. HIDE DEF f
  <2>. QED
    BY <2>1, SumNothing
<1>. QED
  BY <1>2, <1>3 DEF ShareOn

\* A payment more of confirmed invoices: each account owes less by what the
\* payment pays on it.  Read backwards, the payment is cancelled.
LEMMA OnePaymentOwesLess ==
  ASSUME PurchaseLedgerAssumption, NEW f \in PaymentRows, NEW g \in PaymentRows, NEW p \in Payments,
         f[p].status # "ACTIVE", g[p].status = "ACTIVE", \A q \in Payments \ {p} : g[q] = f[q],
         NEW invs, InvoicesTyped(invs),
         \A i \in DOMAIN g[p].allocation : invs[i].status = "CONFIRMED",
         NEW a
  PROVE  OwedIn(invs, f, a) = OwedIn(invs, g, a) + ShareOn(g[p].allocation, invs, a)
<1> DEFINE D == ConfirmedOn(invs, a)
           C == PartOn(g[p].allocation, invs, a)
           s == [i \in D |-> invs[i].total - PaidIn(f, i)]
           t == [i \in D |-> invs[i].total - PaidIn(g, i)]
           u == [i \in D |-> Share(g[p].allocation, i)]
           v == [i \in C |-> g[p].allocation[i]]
<1>1. g[p] \in Payment
  BY DEF PaymentRows, NoPayment
<1>2. IsFiniteSet(D) /\ s \in [D -> Int] /\ t \in [D -> Int]
  BY OwedTerms DEF Addends
<1>3. \A i \in DOMAIN g[p].allocation : i \in Invoices /\ g[p].allocation[i] \in Nat
  BY <1>1, AmountsArePositive
<1>4. u \in [D -> Int] /\ Addends(u, D)
  BY <1>2, <1>3 DEF Share, Addends
<1>5. ASSUME NEW i \in D PROVE s[i] = t[i] + u[i]
  <2>1. PaidIn(g, i) = PaidIn(f, i) + Share(g[p].allocation, i)
    BY OnePaymentMore
  <2>2. PaidIn(f, i) \in Nat /\ Share(g[p].allocation, i) \in Int
    BY <1>3, PaidInNat DEF Share
  <2>3. invs[i].total \in Nat
    BY AmountsArePositive DEF ConfirmedOn, InvoicesTyped, NoInvoice
  <2>. QED
    BY <2>1, <2>2, <2>3
<1>6. SumFunction(s) = SumFunction(t) + SumFunction(u)
  <2>. HIDE DEF D, s, t, u
  <2>. QED
    BY <1>2, <1>4, <1>5, SumPlus
<1>7. SumFunction(v) = SumFunction(u)
  <2>1. C \subseteq D
    BY <1>3 DEF PartOn, ConfirmedOn
  <2>0. Addends(v, C)
    BY <1>1, ShareTerms
  <2>2. (\A i \in D \ C : u[i] = 0) /\ (\A i \in C : v[i] = u[i])
    BY <2>1 DEF PartOn, ConfirmedOn, Share
  <2>. HIDE DEF D, C, u, v
  <2>3. Supports(v, C, u, D)
    BY <1>4, <2>0, <2>1, <2>2 DEF Supports
  <2>. QED
    BY <2>3, SumSupport
<1>. QED
  BY <1>6, <1>7 DEF OwedIn, ShareOn
-----------------------------------------------------------------------------
(* What is posted *)

\* The lines of a payment, with the sides that event gives them.
SidesOf(p, event, amount, accts) == {Line(p, event, a, amount[a]) : a \in accts}

\* They are finitely many, and put on each account the amount of that account.
LEMMA PostedSides ==
  ASSUME NEW accts, IsFiniteSet(accts), NEW amount, \A a \in accts : amount[a] \in Int,
         NEW p, NEW event
  PROVE  /\ IsFiniteSet(SidesOf(p, event, amount, accts))
         /\ \A a : BalanceIn(SidesOf(p, event, amount, accts), a) = IF a \in accts THEN amount[a] ELSE 0
<1> DEFINE S == SidesOf(p, event, amount, accts)
           post == [a \in accts |-> Line(p, event, a, amount[a])]
<1>1. post \in Surjection(accts, S)
  BY DEF Surjection, SidesOf
<1>2. IsFiniteSet(S)
  <2>. HIDE DEF post, S
  <2>. QED
    BY <1>1, FS_Surjection
<1>3. ASSUME NEW a PROVE BalanceIn(S, a) = IF a \in accts THEN amount[a] ELSE 0
  <2>1. CASE a \in accts
    <3> DEFINE l == Line(p, event, a, amount[a])
    <3>1. LinesOn(S, a) = {l} /\ l.credit = amount[a]
      BY <2>1 DEF LinesOn, SidesOf, Line
    <3>2. BalanceIn(S, a) = l.credit
      <4>. HIDE DEF l, S
      <4>. QED
        BY <2>1, <3>1, BalanceOfOne
    <3>. QED
      BY <2>1, <3>1, <3>2
  <2>2. CASE a \notin accts
    <3>1. LinesOn(S, a) = {}
      BY <2>2 DEF LinesOn, SidesOf, Line
    <3>. QED
      BY <2>2, <3>1, BalanceOfNone
  <2>. QED
    BY <2>1, <2>2
<1>. QED
  BY <1>2, <1>3

\* Invoices of an allocation that are confirmed credited accounts.
LEMMA AccountsOfConfirmed ==
  ASSUME PurchaseLedgerAssumption, NEW row \in Payment, NEW invs,
         \A i \in DOMAIN row.allocation : invs[i].account \in Accounts
  PROVE  /\ AccountsOf(row.allocation, invs) \subseteq Accounts
         /\ IsFiniteSet(AccountsOf(row.allocation, invs))
<1> DEFINE D == DOMAIN row.allocation
           f == [i \in D |-> invs[i].account]
<1>1. IsFiniteSet(D)
  BY AmountsArePositive, FS_Subset DEF PurchaseLedgerAssumption
<1>2. f \in Surjection(D, AccountsOf(row.allocation, invs))
  BY DEF Surjection, AccountsOf
<1>3. IsFiniteSet(AccountsOf(row.allocation, invs))
  <2>. HIDE DEF D, f
  <2>. QED
    BY <1>1, <1>2, FS_Surjection
<1>. QED
  BY <1>3 DEF AccountsOf

\* New lines of one source leave those of the others alone.
LEMMA LinesOfOthers ==
  ASSUME NEW old, NEW new, NEW source, \A l \in new : l.source = source, NEW other, other # source
  PROVE  PostedBy(old \cup new, other) = PostedBy(old, other)
BY DEF PostedBy
\* Entry lines as the schema has them.
LinesTyped(ls) ==
  \A l \in ls : /\ l.source \in Invoices \cup Payments /\ l.event \in {"ORIGINAL", "REVERSAL"}
                /\ l.account \in Accounts /\ l.credit \in Int

\* The lines take the allocated amounts off what the ledger owes.
TakesOff(ls, allocation, invs) ==
  \A a : BalanceIn(ls, a) = 0 - ShareOn(allocation, invs, a)

\* What a payment posts takes off each account what it pays on it.
LEMMA PaymentPosts ==
  ASSUME PurchaseLedgerAssumption, NEW p \in Payments, NEW row \in Payment, NEW invs,
         \A i \in DOMAIN row.allocation : invs[i].account \in Accounts
  PROVE  /\ IsFiniteSet(LinesFor(p, row.allocation, invs)) /\ LinesTyped(LinesFor(p, row.allocation, invs))
         /\ \A l \in LinesFor(p, row.allocation, invs) : l.source = p /\ l.event = "ORIGINAL"
         /\ TakesOff(LinesFor(p, row.allocation, invs), row.allocation, invs)
<1> DEFINE accts == AccountsOf(row.allocation, invs)
           amount == [a \in accts |-> -ShareOn(row.allocation, invs, a)]
           S == SidesOf(p, "ORIGINAL", amount, accts)
<1>1. LinesFor(p, row.allocation, invs) = S
  BY DEF LinesFor, SidesOf
<1>2. accts \subseteq Accounts /\ IsFiniteSet(accts)
  BY AccountsOfConfirmed
<1>3. \A a : /\ ShareOn(row.allocation, invs, a) \in Int
             /\ a \notin accts => ShareOn(row.allocation, invs, a) = 0
  BY ShareInt
<1>4. \A a \in accts : amount[a] = -ShareOn(row.allocation, invs, a) /\ amount[a] \in Int
  BY <1>3
<1>5. IsFiniteSet(S) /\ \A a : BalanceIn(S, a) = IF a \in accts THEN amount[a] ELSE 0
  <2>. HIDE DEF accts, amount
  <2>. QED
    BY <1>2, <1>4, PostedSides
<1>6. TakesOff(S, row.allocation, invs)
  <2>. HIDE DEF accts, amount, S
  <2>1. \A a : BalanceIn(S, a) = 0 - ShareOn(row.allocation, invs, a)
    BY <1>3, <1>4, <1>5
  <2>. QED
    BY <2>1 DEF TakesOff
<1>7. LinesTyped(S) /\ \A l \in S : l.source = p /\ l.event = "ORIGINAL"
  <2>. HIDE DEF accts, amount
  <2>. QED
    BY <1>2, <1>4 DEF LinesTyped, SidesOf, Line
<1>. QED
  <2>. HIDE DEF S
  <2>. QED
    BY <1>1, <1>5, <1>6, <1>7

\* Reversing those lines puts it back.
LEMMA ReversalPosts ==
  ASSUME PurchaseLedgerAssumption, NEW p \in Payments, NEW row \in Payment, NEW invs,
         \A i \in DOMAIN row.allocation : invs[i].account \in Accounts,
         PostedBy(lines, p) = LinesFor(p, row.allocation, invs)
  PROVE  /\ IsFiniteSet(ReversalOf(p)) /\ LinesTyped(ReversalOf(p))
         /\ \A l \in ReversalOf(p) : l.source = p /\ l.event = "REVERSAL"
         /\ \A a : BalanceIn(ReversalOf(p), a) = ShareOn(row.allocation, invs, a)
<1> DEFINE accts == AccountsOf(row.allocation, invs)
           amount == [a \in accts |-> ShareOn(row.allocation, invs, a)]
           S == SidesOf(p, "REVERSAL", amount, accts)
<1>2. accts \subseteq Accounts /\ IsFiniteSet(accts)
  BY AccountsOfConfirmed
<1>3. \A a : /\ ShareOn(row.allocation, invs, a) \in Int
             /\ a \notin accts => ShareOn(row.allocation, invs, a) = 0
  BY ShareInt
<1>4. \A a \in accts : amount[a] = ShareOn(row.allocation, invs, a) /\ amount[a] \in Int
  BY <1>3
<1>1. ReversalOf(p) = S
  <2> DEFINE O == {l \in lines : l.source = p /\ l.event = "ORIGINAL"}
             original(a) == Line(p, "ORIGINAL", a, -ShareOn(row.allocation, invs, a))
  <2>1. O = {original(a) : a \in accts}
    BY DEF PostedBy, LinesFor, Line
  <2>2. \A a \in accts : original(a).account = a /\ -original(a).credit = amount[a]
    BY <1>3 DEF Line
  <2>3. ReversalOf(p) = {Line(p, "REVERSAL", l.account, -l.credit) : l \in O}
    BY DEF ReversalOf
  <2>4. {Line(p, "REVERSAL", l.account, -l.credit) : l \in O} = S
    <3>. HIDE DEF O, original, amount, accts
    <3>. QED
      BY <2>1, <2>2 DEF SidesOf
  <2>. QED
    BY <2>3, <2>4
<1>5. IsFiniteSet(S) /\ \A a : BalanceIn(S, a) = IF a \in accts THEN amount[a] ELSE 0
  <2>. HIDE DEF accts, amount
  <2>. QED
    BY <1>2, <1>4, PostedSides
<1>6. \A a : BalanceIn(S, a) = ShareOn(row.allocation, invs, a)
  <2>. HIDE DEF accts, amount, S
  <2>. QED
    BY <1>3, <1>4, <1>5
<1>7. LinesTyped(S) /\ \A l \in S : l.source = p /\ l.event = "REVERSAL"
  <2>. HIDE DEF accts, amount
  <2>. QED
    BY <1>2, <1>4 DEF LinesTyped, SidesOf, Line
<1>. QED
  BY <1>1, <1>5, <1>6, <1>7

\* One line more, or its reversal.
LEMMA OneLinePosts ==
  ASSUME NEW l, l.credit \in Int
  PROVE  /\ IsFiniteSet({l})
         /\ \A a : BalanceIn({l}, a) = IF l.account = a THEN l.credit ELSE 0
<1>1. IsFiniteSet({l})
  BY FS_Singleton
<1>2. ASSUME NEW a PROVE BalanceIn({l}, a) = IF l.account = a THEN l.credit ELSE 0
  <2>1. CASE l.account = a
    <3>1. LinesOn({l}, a) = {l}
      BY <2>1 DEF LinesOn
    <3>. QED
      BY <2>1, <3>1, BalanceOfOne
  <2>2. CASE l.account # a
    <3>1. LinesOn({l}, a) = {}
      BY <2>2 DEF LinesOn
    <3>. QED
      BY <2>2, <3>1, BalanceOfNone
  <2>. QED
    BY <2>1, <2>2
<1>. QED
  BY <1>1, <1>2
\* The transaction of one invoice ends: the invoice gets another status, and one
\* line is posted for it.
LEMMA CommitInvoiceStep ==
  ASSUME PurchaseLedgerAssumption, IInv, NEW r \in Requests, EndTransaction(r),
         UNCHANGED <<mapping, payments>>,
         NEW i \in Invoices, invoiceLock[i] = r, ActiveIn(payments, i) = {},
         invoices'[i] \in Invoice(i), DOMAIN invoices' = Invoices,
         \A j \in Invoices \ {i} : invoices'[j] = invoices[j],
         NEW l, LinesTyped({l}), l.source = i, l \notin lines, lines' = lines \cup {l},
         InvoicePosted(i)',
         \A a \in Accounts : OwedIn(invoices', payments, a) =
                               OwedIn(invoices, payments, a) + IF l.account = a THEN l.credit ELSE 0
  PROVE  IInv'
<1>1. TypeOK /\ LinesTyped(lines) /\ IsFiniteSet(lines) /\ Invoices \cap Payments = {}
  BY DEF IInv, TypeOK, LinesTyped, PurchaseLedgerAssumption
<1>2. TypeOK'
  <2>1. LinesTyped(lines')
    BY <1>1 DEF LinesTyped
  <2>2. InvoicesTyped(invoices')
    BY <1>1 DEF TypeOK, InvoicesTyped
  <2>3. /\ invoiceLock' \in [Invoices -> Requests \cup {NoRequest}]
        /\ settingsLock' \in Requests \cup {NoRequest}
        /\ pc' \in [Requests -> {"idle", "confirm", "resolved", "cancel", "lock", "balance", "post"}]
        /\ reqInvoices' \in [Requests -> SUBSET Invoices]
        /\ reqPayment' \in [Requests -> Payment \cup {NoPayment}]
        /\ reqAccount' \in [Requests -> Accounts \cup {NoAccount}]
    BY <1>1, Ended
  <2>4. /\ holder' \in [Keys -> Accounts \cup {NoAccount}] /\ usable' \subseteq Accounts
        /\ payments' \in [Payments -> Payment \cup {NoPayment}]
    BY <1>1 DEF TypeOK, mapping
  <2>. QED
    BY <2>1, <2>2, <2>3, <2>4 DEF TypeOK, LinesTyped, InvoicesTyped
<1>3. ASSUME NEW q \in Requests PROVE RequestOK(q)'
  <2>1. CASE q = r
    BY <1>1, <2>1, Ended
  <2>2. CASE q # r
    <3>1. Untouched(q) /\ RequestOK(q)
      BY <1>1, <2>2, Ended DEF IInv
    <3>2. \A j : PaidIn(payments', j) = PaidIn(payments, j) /\ PaidIn(payments, j) \in Nat
      BY <1>1, PaidInNat DEF TypeOK, PaymentRows
    <3>3. \A j \in Locked(q) : invoices'[j] = invoices[j] /\ PaidIn(payments', j) <= PaidIn(payments, j)
      BY <2>2, <3>2 DEF Locked
    <3>. QED
      BY <1>1, <1>2, <3>1, <3>3, OthersStand
  <2>. QED
    BY <2>1, <2>2
<1>4. IsFiniteSet(lines')
  BY <1>1, FS_AddElement
<1>5. \A j \in Invoices : ActiveIn(payments', j) # {} => invoices'[j].status = "CONFIRMED"
  BY DEF IInv
<1>6. \A other \in Invoices \cup Payments : other # i => PostedBy(lines', other) = PostedBy(lines, other)
  BY DEF PostedBy
<1>7. ASSUME NEW j \in Invoices PROVE InvoicePosted(j)'
  BY <1>6 DEF IInv, InvoicePosted
<1>8. ASSUME NEW p \in Payments PROVE PaymentPosted(p)'
  <2>1. PaymentPosted(p) /\ PostedBy(lines', p) = PostedBy(lines, p)
    BY <1>1, <1>6 DEF IInv
  <2>2. ASSUME payments[p].status = "ACTIVE"
        PROVE  LinesFor(p, payments[p].allocation, invoices') = LinesFor(p, payments[p].allocation, invoices)
    <3>1. \A j \in DOMAIN payments[p].allocation : j \in Invoices /\ p \in ActiveIn(payments, j)
      BY <2>2, PaidOnConfirmed DEF ActiveIn
    <3>2. \A j \in DOMAIN payments[p].allocation : invoices'[j].account = invoices[j].account
      BY <3>1
    <3>. QED
      BY <3>2, LinesForSame
  <2>. QED
    BY <2>1, <2>2 DEF PaymentPosted
<1>9. ASSUME NEW a \in Accounts PROVE BalanceIn(lines', a) = OwedIn(invoices', payments', a)
  <2>1. l.credit \in Int
    BY DEF LinesTyped
  <2>2. BalanceIn(lines \cup {l}, a) = BalanceIn(lines, a) + BalanceIn({l}, a)
    <3>1. (\A x \in lines : x.credit \in Int) /\ (\A x \in {l} : x.credit \in Int) /\ lines \cap {l} = {}
      BY <1>1, <2>1 DEF LinesTyped
    <3>2. IsFiniteSet({l})
      BY FS_Singleton
    <3>. QED
      BY <1>1, <3>1, <3>2, PostedBalance
  <2>3. BalanceIn({l}, a) = IF l.account = a THEN l.credit ELSE 0
    BY <2>1, OneLinePosts
  <2>4. BalanceIn(lines, a) = OwedIn(invoices, payments, a)
    BY DEF IInv
  <2>. QED
    BY <2>2, <2>3, <2>4
<1>. QED
  BY <1>2, <1>3, <1>4, <1>5, <1>7, <1>8, <1>9 DEF IInv

\* The one invoice of a request.
LEMMA OwnInvoice ==
  ASSUME IInv, NEW r \in Requests, NEW status, HoldsOne(r, status),
         NEW i \in reqInvoices[r]
  PROVE  /\ i \in Invoices /\ reqInvoices[r] = {i} /\ invoiceLock[i] = r
         /\ invoices[i].status = status
         /\ status # "CONFIRMED" => ActiveIn(payments, i) = {}
<1>1. PICK j \in Invoices : reqInvoices[r] = {j} /\ Locked(r) = {j} /\ invoices[j].status = status
  BY DEF HoldsOne
<1>2. i = j /\ invoiceLock[i] = r
  BY <1>1 DEF Locked
<1>. QED
  BY <1>1, <1>2 DEF IInv

LEMMA CommitConfirmStep ==
  ASSUME PurchaseLedgerAssumption, IInv, NEW r \in Requests, CommitConfirm(r)
  PROVE  IInv'
<1>1. TypeOK /\ RequestOK(r) /\ pc[r] = "resolved" /\ EndTransaction(r) /\ UNCHANGED <<mapping, payments>>
  BY DEF IInv, CommitConfirm, Posted
<1>2. PICK i \in reqInvoices[r] :
        /\ invoices' = [invoices EXCEPT ![i].status = "CONFIRMED", ![i].account = reqAccount[r]]
        /\ lines' = lines \cup {Line(i, "ORIGINAL", reqAccount[r], invoices[i].total)}
  BY DEF CommitConfirm, Posted
<1> DEFINE l == Line(i, "ORIGINAL", reqAccount[r], invoices[i].total)
<1>3. HoldsOne(r, "DRAFT") /\ reqAccount[r] \in Accounts
  BY <1>1 DEF RequestOK
<1>4. i \in Invoices /\ invoiceLock[i] = r /\ invoices[i].status = "DRAFT" /\ ActiveIn(payments, i) = {}
  BY <1>3, OwnInvoice
<1>5. invoices[i] \in Invoice(i) /\ invoices[i].total \in Nat
  BY <1>1, <1>4, NoRows, AmountsArePositive
<1>6. /\ invoices'[i] \in Invoice(i) /\ invoices'[i].status = "CONFIRMED"
      /\ invoices'[i].account = reqAccount[r] /\ invoices'[i].total = invoices[i].total
      /\ DOMAIN invoices' = Invoices /\ \A j \in Invoices \ {i} : invoices'[j] = invoices[j]
  <2>1. invoices' = [invoices EXCEPT ![i] =
          [invoices[i] EXCEPT !.status = "CONFIRMED", !.account = reqAccount[r]]]
    BY <1>1, <1>2, <1>4 DEF TypeOK
  <2>2. [invoices[i] EXCEPT !.status = "CONFIRMED", !.account = reqAccount[r]] \in Invoice(i)
    BY <1>3, <1>5 DEF Invoice
  <2>. QED
    BY <1>1, <1>4, <1>5, <2>1, <2>2 DEF TypeOK, Invoice
<1>7. /\ LinesTyped({l}) /\ l.source = i /\ l.account = invoices'[i].account
      /\ l.credit = invoices'[i].total /\ PostedBy(lines, i) = {} /\ l \notin lines
  <2>1. PostedBy(lines, i) = {}
    BY <1>4 DEF IInv, InvoicePosted
  <2>. QED
    BY <1>3, <1>4, <1>5, <1>6, <2>1 DEF LinesTyped, Line, PostedBy
<1>8. InvoicePosted(i)'
  <2>1. PostedBy(lines', i) = {l}
    BY <1>2, <1>7 DEF PostedBy
  <2>. QED
    BY <1>3, <1>6, <2>1 DEF InvoicePosted
<1>9. \A a \in Accounts : OwedIn(invoices', payments, a) =
        OwedIn(invoices, payments, a) + IF l.account = a THEN l.credit ELSE 0
  <2>1. InvoicesTyped(invoices) /\ InvoicesTyped(invoices')
    BY <1>1, <1>6 DEF TypeOK, InvoicesTyped
  <2>2. payments \in PaymentRows /\ PaidIn(payments, i) = 0
    BY <1>1, <1>4, PaidNothing DEF TypeOK, PaymentRows
  <2>3. invoices[i].status # "CONFIRMED" /\ invoices'[i].status = "CONFIRMED"
    BY <1>4, <1>6
  <2>4. \A a : OwedIn(invoices', payments, a) =
          OwedIn(invoices, payments, a) + IF invoices'[i].account = a THEN invoices'[i].total ELSE 0
    <3>. HIDE DEF l
    <3>. QED
      BY <1>4, <1>6, <2>1, <2>2, <2>3, OneInvoiceMore
  <2>. HIDE DEF l
  <2>. QED
    BY <1>7, <2>4
<1>. QED
  <2>1. lines' = lines \cup {l}
    BY <1>2
  <2>. HIDE DEF l
  <2>. QED
    BY <1>1, <1>4, <1>6, <1>7, <1>8, <1>9, <2>1, CommitInvoiceStep
LEMMA CommitCancelStep ==
  ASSUME PurchaseLedgerAssumption, IInv, NEW r \in Requests, CommitCancel(r)
  PROVE  IInv'
<1>1. TypeOK /\ RequestOK(r) /\ pc[r] = "cancel" /\ EndTransaction(r) /\ UNCHANGED <<mapping, payments>>
  BY DEF IInv, CommitCancel, Posted
<1>2. PICK i \in reqInvoices[r] :
        /\ ActivePayments(i) = {}
        /\ invoices' = [invoices EXCEPT ![i].status = "CANCELLED"]
        /\ lines' = lines \cup ReversalOf(i)
  BY DEF CommitCancel, Posted
<1> DEFINE l == Line(i, "REVERSAL", invoices[i].account, -invoices[i].total)
<1>3. i \in Invoices /\ invoiceLock[i] = r /\ invoices[i].status = "CONFIRMED"
  <2>1. HoldsOne(r, "CONFIRMED")
    BY <1>1 DEF RequestOK
  <2>. QED
    BY <2>1, OwnInvoice
<1>4. invoices[i] \in Invoice(i) /\ invoices[i].total \in Nat
  BY <1>1, <1>3, NoRows, AmountsArePositive
<1>5. /\ invoices'[i] \in Invoice(i) /\ invoices'[i].status = "CANCELLED"
      /\ DOMAIN invoices' = Invoices /\ \A j \in Invoices \ {i} : invoices'[j] = invoices[j]
  <2>1. invoices' = [invoices EXCEPT ![i] = [invoices[i] EXCEPT !.status = "CANCELLED"]]
    BY <1>1, <1>2, <1>3 DEF TypeOK
  <2>2. [invoices[i] EXCEPT !.status = "CANCELLED"] \in Invoice(i)
    BY <1>4 DEF Invoice
  <2>. QED
    BY <1>1, <1>3, <1>4, <2>1, <2>2 DEF TypeOK, Invoice
<1>6. /\ invoices[i].account \in Accounts
      /\ PostedBy(lines, i) = {Line(i, "ORIGINAL", invoices[i].account, invoices[i].total)}
  BY <1>3 DEF IInv, InvoicePosted
<1>7. /\ ReversalOf(i) = {l} /\ LinesTyped({l}) /\ l.source = i /\ l \notin lines
      /\ l.account = invoices[i].account /\ l.credit = -invoices[i].total
  <2> DEFINE o == Line(i, "ORIGINAL", invoices[i].account, invoices[i].total)
  <2>1. {x \in lines : x.source = i /\ x.event = "ORIGINAL"} = {o}
    BY <1>6 DEF PostedBy, Line
  <2>2. ReversalOf(i) = {l}
    <3>1. o.account = invoices[i].account /\ -o.credit = -invoices[i].total
      BY DEF Line
    <3>. HIDE DEF o
    <3>. QED
      BY <2>1, <3>1 DEF ReversalOf
  <2>. QED
    BY <1>3, <1>4, <1>6, <2>2 DEF LinesTyped, Line, PostedBy
<1>8. InvoicePosted(i)'
  BY <1>5 DEF InvoicePosted
<1>9. ActiveIn(payments, i) = {}
  BY <1>2, AsFunctions
<1>10. \A a \in Accounts : OwedIn(invoices', payments, a) =
         OwedIn(invoices, payments, a) + IF l.account = a THEN l.credit ELSE 0
  <2>1. InvoicesTyped(invoices) /\ InvoicesTyped(invoices')
    BY <1>1, <1>5 DEF TypeOK, InvoicesTyped
  <2>2. payments \in PaymentRows /\ PaidIn(payments, i) = 0
    BY <1>1, <1>9, PaidNothing DEF TypeOK, PaymentRows
  <2>3. invoices'[i].status # "CONFIRMED" /\ invoices[i].status = "CONFIRMED"
    BY <1>3, <1>5
  <2>4. \A a : OwedIn(invoices, payments, a) =
          OwedIn(invoices', payments, a) + IF invoices[i].account = a THEN invoices[i].total ELSE 0
    <3>. HIDE DEF l
    <3>. QED
      BY <1>3, <1>5, <2>1, <2>2, <2>3, OneInvoiceMore
  <2>5. \A a : OwedIn(invoices', payments, a) \in Int
    BY <2>1, <2>2, OwedInt
  <2>. HIDE DEF l
  <2>. QED
    BY <1>4, <1>7, <2>4, <2>5
<1>. QED
  <2>1. lines' = lines \cup {l}
    BY <1>2, <1>7
  <2>. HIDE DEF l
  <2>. QED
    BY <1>1, <1>3, <1>5, <1>7, <1>8, <1>9, <1>10, <2>1, CommitInvoiceStep

-----------------------------------------------------------------------------
(* Payments are registered and cancelled *)

\* A payment gets another status, and lines are posted for it.
LEMMA PaymentRowStep ==
  ASSUME PurchaseLedgerAssumption, IInv, UNCHANGED <<mapping, invoices>>,
         NEW p \in Payments, payments'[p] \in Payment, DOMAIN payments' = Payments,
         \A q \in Payments \ {p} : payments'[q] = payments[q],
         NEW new, IsFiniteSet(new), LinesTyped(new), \A l \in new : l.source = p,
         new \cap lines = {}, lines' = lines \cup new,
         PaymentPosted(p)', TypeOK', \A r \in Requests : RequestOK(r)',
         \A i \in Invoices : ActiveIn(payments', i) # {} => invoices[i].status = "CONFIRMED",
         \A a \in Accounts : OwedIn(invoices, payments', a) =
                               OwedIn(invoices, payments, a) + BalanceIn(new, a)
  PROVE  IInv'
<1>1. TypeOK /\ LinesTyped(lines) /\ IsFiniteSet(lines) /\ Invoices \cap Payments = {}
  BY DEF IInv, TypeOK, LinesTyped, PurchaseLedgerAssumption
<1>2. IsFiniteSet(lines')
  BY <1>1, FS_Union
<1>3. \A other \in Invoices \cup Payments : other # p => PostedBy(lines', other) = PostedBy(lines, other)
  BY DEF PostedBy
<1>4. \A i \in Invoices : ActiveIn(payments', i) # {} => invoices'[i].status = "CONFIRMED"
  OBVIOUS
<1>5. ASSUME NEW i \in Invoices PROVE InvoicePosted(i)'
  BY <1>1, <1>3 DEF IInv, InvoicePosted
<1>6. ASSUME NEW q \in Payments PROVE PaymentPosted(q)'
  BY <1>3 DEF IInv, PaymentPosted
<1>7. ASSUME NEW a \in Accounts PROVE BalanceIn(lines', a) = OwedIn(invoices', payments', a)
  <2>1. BalanceIn(lines \cup new, a) = BalanceIn(lines, a) + BalanceIn(new, a)
    <3>1. (\A x \in lines : x.credit \in Int) /\ (\A x \in new : x.credit \in Int) /\ lines \cap new = {}
      BY <1>1 DEF LinesTyped
    <3>. QED
      BY <1>1, <3>1, PostedBalance
  <2>2. BalanceIn(lines, a) = OwedIn(invoices, payments, a)
    BY DEF IInv
  <2>. QED
    BY <2>1, <2>2
<1>. QED
  BY <1>2, <1>4, <1>5, <1>6, <1>7 DEF IInv
LEMMA CommitPaymentStep ==
  ASSUME PurchaseLedgerAssumption, IInv, NEW r \in Requests, NEW p \in Payments, CommitPayment(r, p)
  PROVE  IInv'
<1> DEFINE row == reqPayment[r]
           new == LinesFor(p, row.allocation, invoices)
<1>1. /\ TypeOK /\ RequestOK(r) /\ pc[r] = "post" /\ EndTransaction(r)
      /\ UNCHANGED <<mapping, invoices>> /\ payments[p] = NoPayment
      /\ payments' = [payments EXCEPT ![p] = row] /\ lines' = lines \cup new
  BY AsFunctions DEF IInv, CommitPayment, Posted
<1>2. row \in Payment /\ row.status = "ACTIVE" /\ DOMAIN row.allocation = reqInvoices[r]
  BY <1>1 DEF RequestOK
<1>3. \A i \in reqInvoices[r] : i \in Invoices /\ invoiceLock[i] = r /\ invoices[i].status = "CONFIRMED"
  BY <1>1 DEF RequestOK, Locked
<1>4. \A i \in DOMAIN row.allocation : invoices[i].status = "CONFIRMED" /\ invoices[i].account \in Accounts
  BY <1>2, <1>3 DEF IInv, InvoicePosted
<1> HIDE DEF row
<1>5. /\ IsFiniteSet(new) /\ LinesTyped(new)
      /\ \A l \in new : l.source = p /\ l.event = "ORIGINAL"
      /\ TakesOff(new, row.allocation, invoices)
  <2>1. row \in Payment
    BY <1>2
  <2>2. \A i \in DOMAIN row.allocation : invoices[i].account \in Accounts
    BY <1>4
  <2>. QED
    BY <2>1, <2>2, PaymentPosts
<1>6. /\ payments \in PaymentRows /\ payments' \in PaymentRows
      /\ payments[p].status # "ACTIVE" /\ payments'[p] = row
      /\ \A q \in Payments \ {p} : payments'[q] = payments[q]
  BY <1>1, <1>2 DEF TypeOK, PaymentRows, NoPayment
<1>7. PostedBy(lines, p) = {} /\ new \cap lines = {}
  <2>1. PostedBy(lines, p) = {}
    BY <1>1 DEF IInv, PaymentPosted, NoPayment
  <2>. QED
    BY <1>5, <2>1 DEF PostedBy
<1>8. PaymentPosted(p)'
  <2>1. PostedBy(lines', p) = new
    BY <1>1, <1>5, <1>7 DEF PostedBy
  <2>. QED
    BY <1>1, <1>2, <1>6, <2>1 DEF PaymentPosted
<1>9. TypeOK'
  <2>1. LinesTyped(lines')
    BY <1>1, <1>5 DEF LinesTyped, TypeOK
  <2>2. /\ invoiceLock' \in [Invoices -> Requests \cup {NoRequest}]
        /\ settingsLock' \in Requests \cup {NoRequest}
        /\ pc' \in [Requests -> {"idle", "confirm", "resolved", "cancel", "lock", "balance", "post"}]
        /\ reqInvoices' \in [Requests -> SUBSET Invoices]
        /\ reqPayment' \in [Requests -> Payment \cup {NoPayment}]
        /\ reqAccount' \in [Requests -> Accounts \cup {NoAccount}]
    BY <1>1, Ended
  <2>3. /\ holder' \in [Keys -> Accounts \cup {NoAccount}] /\ usable' \subseteq Accounts
        /\ DOMAIN invoices' = Invoices /\ \A i \in Invoices : invoices'[i] \in Invoice(i) \cup {NoInvoice}
    BY <1>1 DEF TypeOK, mapping
  <2>. QED
    BY <1>6, <2>1, <2>2, <2>3 DEF TypeOK, LinesTyped, PaymentRows
<1>10. ASSUME NEW i \in Invoices
       PROVE  /\ PaidIn(payments', i) = PaidIn(payments, i) + Share(row.allocation, i)
              /\ PaidIn(payments, i) \in Nat
  BY <1>2, <1>6, OnePaymentMore, PaidInNat
<1>11. ASSUME NEW q \in Requests PROVE RequestOK(q)'
  <2>1. CASE q = r
    BY <1>1, <2>1, Ended
  <2>2. CASE q # r
    <3>1. Untouched(q) /\ RequestOK(q)
      BY <1>1, <2>2, Ended DEF IInv
    <3>2. ASSUME NEW i \in Locked(q) PROVE PaidIn(payments', i) <= PaidIn(payments, i)
      <4>1. i \in Invoices /\ i \notin DOMAIN row.allocation
        BY <1>2, <1>3, <2>2 DEF Locked
      <4>. QED
        BY <1>10, <4>1 DEF Share
    <3>3. invoices' = invoices
      BY <1>1
    <3>. QED
      BY <1>1, <1>9, <3>1, <3>2, <3>3, OthersStand
  <2>. QED
    BY <2>1, <2>2
<1>12. \A i \in Invoices : ActiveIn(payments', i) # {} => invoices[i].status = "CONFIRMED"
  <2>1. \A i \in Invoices : \A q \in ActiveIn(payments', i) :
          q \in ActiveIn(payments, i) \/ i \in DOMAIN row.allocation
    BY <1>6 DEF ActiveIn
  <2>. QED
    BY <1>4, <2>1 DEF IInv
<1>13. ASSUME NEW a \in Accounts
       PROVE  OwedIn(invoices, payments', a) = OwedIn(invoices, payments, a) + BalanceIn(new, a)
  <2>1. InvoicesTyped(invoices)
    BY <1>1 DEF TypeOK, InvoicesTyped
  <2>2. OwedIn(invoices, payments, a) =
          OwedIn(invoices, payments', a) + ShareOn(row.allocation, invoices, a)
    BY <1>2, <1>4, <1>6, <2>1, OnePaymentOwesLess
  <2>3. ShareOn(row.allocation, invoices, a) \in Int /\ OwedIn(invoices, payments', a) \in Int
    BY <1>2, <1>6, <2>1, ShareInt, OwedInt
  <2>4. BalanceIn(new, a) = 0 - ShareOn(row.allocation, invoices, a)
    <3>. HIDE DEF new
    <3>. QED
      BY <1>5 DEF TakesOff
  <2>. HIDE DEF new
  <2>. QED
    BY <2>2, <2>3, <2>4
<1>14. /\ payments'[p] \in Payment /\ DOMAIN payments' = Payments /\ \A l \in new : l.source = p
  BY <1>2, <1>5, <1>6 DEF PaymentRows
<1>. QED
  <2>. HIDE DEF new
  <2>. QED
    BY <1>1, <1>5, <1>6, <1>7, <1>8, <1>9, <1>11, <1>12, <1>13, <1>14, PaymentRowStep

LEMMA CancelPaymentStep ==
  ASSUME PurchaseLedgerAssumption, IInv, NEW p \in Payments, CancelPayment(p)
  PROVE  IInv'
<1> DEFINE row == payments[p]
           new == ReversalOf(p)
<1>1. /\ TypeOK /\ UNCHANGED <<mapping, invoices, locks, reqs>> /\ row.status = "ACTIVE"
      /\ payments' = [payments EXCEPT ![p].status = "CANCELLED"] /\ lines' = lines \cup new
  BY DEF IInv, CancelPayment, Posted
<1>2. row \in Payment
  BY <1>1, NoRows
<1>3. \A i \in DOMAIN row.allocation : i \in Invoices /\ invoices[i].status = "CONFIRMED"
                                                    /\ invoices[i].account \in Accounts
  BY <1>1, PaidOnConfirmed DEF IInv, InvoicePosted
<1>4. PostedBy(lines, p) = LinesFor(p, row.allocation, invoices)
  BY <1>1 DEF IInv, PaymentPosted
<1>5. /\ payments \in PaymentRows /\ payments' \in PaymentRows
      /\ payments'[p] \in Payment /\ payments'[p].status = "CANCELLED" /\ DOMAIN payments' = Payments
      /\ \A q \in Payments \ {p} : payments'[q] = payments[q]
  <2> DEFINE after == [row EXCEPT !.status = "CANCELLED"]
  <2>1. payments' = [payments EXCEPT ![p] = after]
    BY <1>1 DEF TypeOK
  <2>2. after \in Payment /\ after.status = "CANCELLED"
    BY <1>2 DEF Payment
  <2>3. payments \in PaymentRows
    BY <1>1 DEF TypeOK, PaymentRows
  <2>. HIDE DEF row, after
  <2>. QED
    BY <2>1, <2>2, <2>3 DEF PaymentRows
<1> HIDE DEF row
<1>6. /\ IsFiniteSet(new) /\ LinesTyped(new)
      /\ \A l \in new : l.source = p /\ l.event = "REVERSAL"
      /\ \A a : BalanceIn(new, a) = ShareOn(row.allocation, invoices, a)
  BY <1>2, <1>3, <1>4, ReversalPosts
<1>7. new \cap lines = {}
  <2>1. \A l \in PostedBy(lines, p) : l.event = "ORIGINAL"
    BY <1>2, <1>3, <1>4, PaymentPosts
  <2>. HIDE DEF new
  <2>. QED
    BY <1>6, <2>1 DEF PostedBy
<1>8. PaymentPosted(p)'
  BY <1>5 DEF PaymentPosted
<1>9. TypeOK'
  <2>. HIDE DEF new
  <2>1. LinesTyped(lines')
    BY <1>1, <1>6 DEF LinesTyped, TypeOK
  <2>2. /\ invoiceLock' = invoiceLock /\ settingsLock' = settingsLock /\ pc' = pc
        /\ reqInvoices' = reqInvoices /\ reqPayment' = reqPayment /\ reqAccount' = reqAccount
        /\ holder' = holder /\ usable' = usable /\ invoices' = invoices
    BY <1>1 DEF mapping, locks, reqs
  <2>3. payments' \in [Payments -> Payment \cup {NoPayment}]
    BY <1>5 DEF PaymentRows
  <2>4. /\ holder' \in [Keys -> Accounts \cup {NoAccount}] /\ usable' \subseteq Accounts
        /\ DOMAIN invoices' = Invoices /\ \A i \in Invoices : invoices'[i] \in Invoice(i) \cup {NoInvoice}
        /\ invoiceLock' \in [Invoices -> Requests \cup {NoRequest}]
        /\ settingsLock' \in Requests \cup {NoRequest}
        /\ pc' \in [Requests -> {"idle", "confirm", "resolved", "cancel", "lock", "balance", "post"}]
        /\ reqInvoices' \in [Requests -> SUBSET Invoices]
        /\ reqPayment' \in [Requests -> Payment \cup {NoPayment}]
        /\ reqAccount' \in [Requests -> Accounts \cup {NoAccount}]
    BY <1>1, <2>2 DEF TypeOK
  <2>. QED
    BY <2>1, <2>3, <2>4 DEF TypeOK, LinesTyped
<1>10. ASSUME NEW i \in Invoices PROVE PaidIn(payments', i) <= PaidIn(payments, i)
  <2>1. PaidIn(payments, i) = PaidIn(payments', i) + Share(row.allocation, i)
    <3>1. /\ payments'[p].status # "ACTIVE" /\ payments[p].status = "ACTIVE"
          /\ \A q \in Payments \ {p} : payments[q] = payments'[q]
      BY <1>1, <1>5 DEF row
    <3>. QED
      BY <1>5, <3>1, OnePaymentMore DEF row
  <2>2. PaidIn(payments', i) \in Nat /\ Share(row.allocation, i) \in Nat
    BY <1>2, <1>5, PaidInNat, AmountsArePositive DEF Share
  <2>. QED
    BY <2>1, <2>2
<1>11. ASSUME NEW q \in Requests PROVE RequestOK(q)'
  <2>1. Untouched(q)
    BY <1>1 DEF Untouched, locks, reqs
  <2>2. \A i \in Locked(q) : invoices'[i] = invoices[i] /\ PaidIn(payments', i) <= PaidIn(payments, i)
    BY <1>1, <1>10 DEF Locked
  <2>. QED
    BY <1>1, <1>9, <2>1, <2>2, OthersStand DEF IInv
<1>12. \A i \in Invoices : ActiveIn(payments', i) # {} => invoices[i].status = "CONFIRMED"
  <2>1. \A i \in Invoices : ActiveIn(payments', i) \subseteq ActiveIn(payments, i)
    BY <1>5 DEF ActiveIn
  <2>. QED
    BY <2>1 DEF IInv
<1>13. ASSUME NEW a \in Accounts
       PROVE  OwedIn(invoices, payments', a) = OwedIn(invoices, payments, a) + BalanceIn(new, a)
  <2>1. InvoicesTyped(invoices)
    BY <1>1 DEF TypeOK, InvoicesTyped
  <2>2. OwedIn(invoices, payments', a) =
          OwedIn(invoices, payments, a) + ShareOn(row.allocation, invoices, a)
    <3>1. /\ payments'[p].status # "ACTIVE" /\ payments[p].status = "ACTIVE"
          /\ \A q \in Payments \ {p} : payments[q] = payments'[q]
          /\ \A i \in DOMAIN payments[p].allocation : invoices[i].status = "CONFIRMED"
      BY <1>1, <1>3, <1>5 DEF row
    <3>. QED
      BY <1>5, <2>1, <3>1, OnePaymentOwesLess DEF row
  <2>. QED
    BY <1>6, <2>2
<1>14. \A l \in new : l.source = p
  BY <1>6
<1>. QED
  <2>. HIDE DEF new
  <2>. QED
    BY <1>1, <1>5, <1>6, <1>7, <1>8, <1>9, <1>11, <1>12, <1>13, <1>14, PaymentRowStep

-----------------------------------------------------------------------------
(* The invariant and what follows from it *)

\* Every step preserves the invariant.
LEMMA NextIInv ==
  ASSUME PurchaseLedgerAssumption, IInv, [Next]_vars
  PROVE  IInv'
<1>1. CASE UNCHANGED vars
  <2>1. UNCHANGED rows /\ TypeOK' /\ \A q \in Requests : Untouched(q)
    BY <1>1 DEF vars, rows, locks, reqs, mapping, Untouched, IInv, TypeOK
  <2>2. \A q \in Requests \ {} : Untouched(q)
    BY <2>1
  <2>3. \A q \in {} : RequestOK(q)'
    OBVIOUS
  <2>4. {} \in SUBSET Requests
    OBVIOUS
  <2>. QED
    BY <2>1, <2>2, <2>3, <2>4, RequestStep
<1>2. ASSUME NEW i \in Invoices, NEW total \in Totals[i], CreateInvoice(i, total) \/ EditInvoice(i, total)
      PROVE  IInv'
  BY <1>2, DraftStep
<1>3. ASSUME NEW r \in Requests, NEW i \in Invoices, BeginConfirm(r, i) \/ BeginCancel(r, i)
      PROVE  IInv'
  BY <1>3, LockOneInvoiceStep
<1>4. ASSUME NEW r \in Requests, NEW a \in Accounts, ResolvePayable(r, a) PROVE IInv'
  BY <1>4, ResolvePayableStep
<1>5. ASSUME NEW r \in Requests, CommitConfirm(r) PROVE IInv'
  BY <1>5, CommitConfirmStep
<1>6. ASSUME NEW r \in Requests, CommitCancel(r) PROVE IInv'
  BY <1>6, CommitCancelStep
<1>7. ASSUME NEW r \in Requests, NEW allocation \in Allocations,
             NEW key \in {{}} \cup {{k} : k \in IdempotencyKeys}, BeginPayment(r, allocation, key)
      PROVE  IInv'
  BY <1>7, BeginPaymentStep
<1>8. ASSUME NEW r \in Requests, LockNextInvoice(r) PROVE IInv'
  BY <1>8, LockNextInvoiceStep
<1>9. ASSUME NEW r \in Requests, LockSettings(r) PROVE IInv'
  BY <1>9, LockSettingsStep
<1>10. ASSUME NEW r \in Requests, CheckBalance(r) PROVE IInv'
  BY <1>10, CheckBalanceStep
<1>11. ASSUME NEW r \in Requests, NEW p \in Payments, CommitPayment(r, p) PROVE IInv'
  BY <1>11, CommitPaymentStep
<1>12. ASSUME NEW r \in Requests, RollBack(r) PROVE IInv'
  BY <1>12, RollBackStep
<1>13. ASSUME NEW p \in Payments, CancelPayment(p) PROVE IInv'
  BY <1>13, CancelPaymentStep
<1>14. ASSUME MappingNext, UNCHANGED <<rows, locks, reqs>> PROVE IInv'
  BY <1>14, MappingStep
<1>. QED
  BY <1>1, <1>2, <1>3, <1>4, <1>5, <1>6, <1>7, <1>8, <1>9, <1>10, <1>11, <1>12, <1>13, <1>14 DEF Next

\* The inductive invariant holds in every reachable state.
THEOREM InvariantHolds == Spec => []IInv
<1>1. Init => IInv
  BY InitIInv, PurchaseLedgerAssumption
<1>2. IInv /\ [Next]_vars => IInv'
  BY NextIInv, PurchaseLedgerAssumption
<1>. QED
  BY <1>1, <1>2, PTL DEF Spec

\* Rows, lines, locks and requests keep the shape of the schema and the code.
THEOREM TypeCorrect == Spec => []TypeOK
<1>1. IInv => TypeOK
  BY DEF IInv
<1>. QED
  BY <1>1, InvariantHolds, PTL

\* An invoice that a payment settles cannot be cancelled, and an invoice that is
\* cancelled meanwhile cannot be paid: both hold its row until they commit.
THEOREM PaidStand == Spec => []PaidInvoicesStand
<1>1. IInv => PaidInvoicesStand
  BY AsFunctions DEF IInv, PaidInvoicesStand
<1>. QED
  BY <1>1, InvariantHolds, PTL

\* Payments lock their invoices in ascending order and the settings last, so
\* that some request of any group can always go on.
THEOREM NoWaitCircle == Spec => []NoCircularWait
<1>1. IInv => NoCircularWait
  BY LocksAreOrdered, PurchaseLedgerAssumption DEF IInv
<1>. QED
  BY <1>1, InvariantHolds, PTL

\* Each liability account owes what its confirmed invoices still have to be
\* paid, whatever has been paid, cancelled or mapped to another account since.
THEOREM LedgerOwes == Spec => []LedgerMatchesInvoices
<1>1. IInv => LedgerMatchesInvoices
  BY AsFunctions DEF IInv, LedgerMatchesInvoices
<1>. QED
  BY <1>1, InvariantHolds, PTL

-----------------------------------------------------------------------------
(* What the invoices have posted, apart from what the payments have. *)

InvoiceLines(ls) == {l \in ls : l.source \in Invoices}

PaymentsLines(ls) == {l \in ls : l.source \in Payments}

NothingPaid == [p \in Payments |-> NoPayment]

\* The lines of the invoices come to the totals of those that are confirmed.
InvoicesPost ==
  \A a \in Accounts : BalanceIn(InvoiceLines(lines), a) = OwedIn(invoices, NothingPaid, a)

LEMMA NothingIsPaid ==
  NothingPaid \in PaymentRows /\ \A i : PaidIn(NothingPaid, i) = 0
<1>1. NothingPaid \in PaymentRows
  BY DEF NothingPaid, PaymentRows
<1>2. \A i : ActiveIn(NothingPaid, i) = {}
  BY DEF NothingPaid, ActiveIn, NoPayment
<1>. QED
  BY <1>1, <1>2, PaidNothing

LEMMA InvoicesPostAtFirst ==
  ASSUME Init
  PROVE  InvoicesPost
<1>1. ASSUME NEW a \in Accounts
      PROVE  BalanceIn(InvoiceLines(lines), a) = OwedIn(invoices, NothingPaid, a)
  <2>1. BalanceIn(InvoiceLines(lines), a) = 0
    <3>1. LinesOn(InvoiceLines(lines), a) = {}
      BY DEF Init, LinesOn, InvoiceLines
    <3>. QED
      BY <3>1, BalanceOfNone
  <2> DEFINE g == [i \in ConfirmedOn(invoices, a) |-> invoices[i].total - PaidIn(NothingPaid, i)]
  <2>2. DOMAIN g = {}
    BY DEF Init, NoInvoice, ConfirmedOn
  <2>3. SumFunction(g) = 0
    <3>. HIDE DEF g
    <3>. QED
      BY <2>2, SumNothing
  <2>. QED
    BY <2>1, <2>3 DEF OwedIn
<1>. QED
  BY <1>1 DEF InvoicesPost

\* Steps that neither post for an invoice nor confirm or cancel one.
LEMMA InvoicesPostAsBefore ==
  ASSUME InvoicesPost,
         \A l \in lines' : l \in lines \/ l.source \notin Invoices, lines \subseteq lines',
         \A i \in Invoices : \/ invoices'[i] = invoices[i]
                             \/ invoices[i].status # "CONFIRMED" /\ invoices'[i].status # "CONFIRMED"
  PROVE  InvoicesPost'
<1>1. InvoiceLines(lines') = InvoiceLines(lines)
  BY DEF InvoiceLines
<1>2. ASSUME NEW a \in Accounts PROVE OwedIn(invoices', NothingPaid, a) = OwedIn(invoices, NothingPaid, a)
  <2>1. ConfirmedOn(invoices', a) = ConfirmedOn(invoices, a)
    BY DEF ConfirmedOn
  <2>2. \A i \in ConfirmedOn(invoices, a) : invoices'[i].total = invoices[i].total
    BY DEF ConfirmedOn
  <2>. QED
    BY <2>1, <2>2 DEF OwedIn
<1>3. NothingPaid' = NothingPaid
  BY DEF NothingPaid, NoPayment
<1>. QED
  BY <1>1, <1>2, <1>3 DEF InvoicesPost

\* One line is posted for an invoice.
LEMMA InvoicePostsOne ==
  ASSUME PurchaseLedgerAssumption, IInv, InvoicesPost,
         NEW l, LinesTyped({l}), l.source \in Invoices, l \notin lines, lines' = lines \cup {l},
         \A a \in Accounts : OwedIn(invoices', NothingPaid, a) =
                               OwedIn(invoices, NothingPaid, a) + IF l.account = a THEN l.credit ELSE 0
  PROVE  InvoicesPost'
<1>1. NothingPaid' = NothingPaid
  BY DEF NothingPaid, NoPayment
<1>2. ASSUME NEW a \in Accounts
      PROVE  BalanceIn(InvoiceLines(lines'), a) = OwedIn(invoices', NothingPaid, a)
  <2> DEFINE old == InvoiceLines(lines)
  <2>1. InvoiceLines(lines') = old \cup {l} /\ old \cap {l} = {}
    BY DEF InvoiceLines
  <2>2. /\ IsFiniteSet(old) /\ IsFiniteSet({l})
        /\ (\A x \in old : x.credit \in Int) /\ (\A x \in {l} : x.credit \in Int)
    BY FS_Subset, FS_Singleton DEF IInv, TypeOK, InvoiceLines, LinesTyped
  <2>3. BalanceIn({l}, a) = IF l.account = a THEN l.credit ELSE 0
    BY OneLinePosts DEF LinesTyped
  <2>4. BalanceIn(old, a) = OwedIn(invoices, NothingPaid, a)
    BY DEF InvoicesPost
  <2>. HIDE DEF old
  <2>5. BalanceIn(old \cup {l}, a) = BalanceIn(old, a) + BalanceIn({l}, a)
    BY <2>1, <2>2, PostedBalance
  <2>. QED
    BY <2>1, <2>3, <2>4, <2>5
<1>. QED
  BY <1>1, <1>2 DEF InvoicesPost

LEMMA ConfirmPosts ==
  ASSUME PurchaseLedgerAssumption, IInv, IInv', InvoicesPost, NEW r \in Requests, CommitConfirm(r)
  PROVE  InvoicesPost'
<1>1. TypeOK /\ RequestOK(r) /\ HoldsOne(r, "DRAFT")
  BY DEF IInv, CommitConfirm, RequestOK
<1>2. PICK i \in reqInvoices[r] :
        /\ invoices' = [invoices EXCEPT ![i].status = "CONFIRMED", ![i].account = reqAccount[r]]
        /\ lines' = lines \cup {Line(i, "ORIGINAL", reqAccount[r], invoices[i].total)}
  BY DEF CommitConfirm, Posted
<1>3. i \in Invoices /\ invoices[i].status = "DRAFT"
  BY <1>1, OwnInvoice
<1>4. /\ InvoicesTyped(invoices) /\ InvoicesTyped(invoices')
      /\ \A j \in Invoices \ {i} : invoices'[j] = invoices[j]
  BY <1>2, <1>3 DEF IInv, TypeOK, InvoicesTyped
<1>5. invoices[i] \in Invoice(i)
  BY <1>1, <1>3, NoRows
<1>6. /\ invoices'[i].status = "CONFIRMED" /\ invoices'[i].account = reqAccount[r]
      /\ invoices'[i].total = invoices[i].total
  BY <1>1, <1>2, <1>3, <1>5 DEF TypeOK, Invoice
<1> DEFINE l == Line(i, "ORIGINAL", invoices'[i].account, invoices'[i].total)
<1>7. lines' = lines \cup {l} /\ PostedBy(lines, i) = {}
  BY <1>2, <1>3, <1>6 DEF IInv, InvoicePosted
<1>8. /\ l.source = i /\ l.account = invoices'[i].account /\ l.credit = invoices'[i].total
      /\ l \notin lines
  BY <1>7 DEF Line, PostedBy
<1> HIDE DEF l
<1>9. LinesTyped({l})
  BY <1>7 DEF IInv, TypeOK, LinesTyped
<1>10. \A a : OwedIn(invoices', NothingPaid, a) =
         OwedIn(invoices, NothingPaid, a) + IF invoices'[i].account = a THEN invoices'[i].total ELSE 0
  BY <1>3, <1>4, <1>6, NothingIsPaid, OneInvoiceMore
<1>. QED
  BY <1>3, <1>7, <1>8, <1>9, <1>10, InvoicePostsOne

LEMMA CancelPosts ==
  ASSUME PurchaseLedgerAssumption, IInv, IInv', InvoicesPost, NEW r \in Requests, CommitCancel(r)
  PROVE  InvoicesPost'
<1>1. TypeOK /\ RequestOK(r) /\ HoldsOne(r, "CONFIRMED")
  BY DEF IInv, CommitCancel, RequestOK
<1>2. PICK i \in reqInvoices[r] :
        /\ invoices' = [invoices EXCEPT ![i].status = "CANCELLED"]
        /\ lines' = lines \cup ReversalOf(i)
  BY DEF CommitCancel, Posted
<1>3. i \in Invoices /\ invoices[i].status = "CONFIRMED"
  BY <1>1, OwnInvoice
<1>4. /\ InvoicesTyped(invoices) /\ InvoicesTyped(invoices')
      /\ \A j \in Invoices \ {i} : invoices'[j] = invoices[j]
      /\ invoices'[i].status = "CANCELLED"
  <2>1. invoices[i] \in Invoice(i)
    BY <1>1, <1>3, NoRows
  <2>. QED
    BY <1>1, <1>2, <1>3, <2>1 DEF IInv, TypeOK, InvoicesTyped, Invoice
<1> DEFINE o == Line(i, "ORIGINAL", invoices[i].account, invoices[i].total)
           l == Line(i, "REVERSAL", invoices[i].account, -invoices[i].total)
<1>5. PostedBy(lines, i) = {o}
  BY <1>3 DEF IInv, InvoicePosted
<1>6. ReversalOf(i) = {l}
  <2>1. {x \in lines : x.source = i /\ x.event = "ORIGINAL"} = {o}
    BY <1>5 DEF PostedBy, Line
  <2>2. o.account = invoices[i].account /\ -o.credit = -invoices[i].total
    BY DEF Line
  <2>. HIDE DEF o
  <2>. QED
    BY <2>1, <2>2 DEF ReversalOf
<1>7. /\ l.source = i /\ l.account = invoices[i].account /\ l.credit = -invoices[i].total
      /\ l \notin lines
  BY <1>5 DEF Line, PostedBy
<1> HIDE DEF l, o
<1>8. lines' = lines \cup {l} /\ LinesTyped({l})
  BY <1>2, <1>6 DEF IInv, TypeOK, LinesTyped
<1>9. \A a : OwedIn(invoices, NothingPaid, a) =
        OwedIn(invoices', NothingPaid, a) + IF invoices[i].account = a THEN invoices[i].total ELSE 0
  BY <1>3, <1>4, NothingIsPaid, OneInvoiceMore
<1>10. \A a : OwedIn(invoices', NothingPaid, a) \in Int
  BY <1>4, NothingIsPaid, OwedInt
<1>11. invoices[i].total \in Nat
  BY <1>1, <1>3, NoRows, AmountsArePositive
<1>12. \A a : OwedIn(invoices', NothingPaid, a) =
         OwedIn(invoices, NothingPaid, a) + IF l.account = a THEN l.credit ELSE 0
  BY <1>7, <1>9, <1>10, <1>11
<1>. QED
  BY <1>3, <1>7, <1>8, <1>12, InvoicePostsOne

LEMMA StepsPost ==
  ASSUME PurchaseLedgerAssumption, IInv, IInv', InvoicesPost, [Next]_vars
  PROVE  InvoicesPost'
<1>1. CASE UNCHANGED rows
  BY <1>1, InvoicesPostAsBefore DEF rows
<1>2. ASSUME NEW i \in Invoices, NEW total \in Totals[i], CreateInvoice(i, total) \/ EditInvoice(i, total)
      PROVE  InvoicesPost'
  <2>1. /\ invoices[i].status # "CONFIRMED" /\ invoices'[i].status # "CONFIRMED"
        /\ \A j \in Invoices \ {i} : invoices'[j] = invoices[j]
        /\ lines' = lines
    <3>1. DOMAIN invoices = Invoices
      BY DEF IInv, TypeOK
    <3>2. CASE CreateInvoice(i, total)
      BY <3>1, <3>2 DEF CreateInvoice, NoInvoice
    <3>3. CASE EditInvoice(i, total)
      <4>1. invoices[i] \in Invoice(i) /\ invoices[i].status = "DRAFT"
        BY <3>3, NoRows DEF EditInvoice, IInv
      <4>2. invoices' = [invoices EXCEPT ![i] = [invoices[i] EXCEPT !.total = total]]
        BY <3>1, <3>3 DEF EditInvoice
      <4>3. [invoices[i] EXCEPT !.total = total].status = "DRAFT"
        BY <4>1 DEF Invoice
      <4>. QED
        BY <3>1, <3>3, <4>1, <4>2, <4>3 DEF EditInvoice
    <3>. QED
      BY <1>2, <3>2, <3>3
  <2>. QED
    BY <2>1, InvoicesPostAsBefore
<1>3. ASSUME NEW r \in Requests, NEW p \in Payments, CommitPayment(r, p) PROVE InvoicesPost'
  <2>1. invoices' = invoices /\ lines' = lines \cup PaymentLines(p, reqPayment[r].allocation)
    BY <1>3 DEF CommitPayment, Posted
  <2>2. \A l \in PaymentLines(p, reqPayment[r].allocation) : l.source \notin Invoices
    <3>1. \A l \in LinesFor(p, reqPayment[r].allocation, invoices) : l.source = p
      BY DEF LinesFor, Line
    <3>. QED
      BY <3>1, AsFunctions DEF PurchaseLedgerAssumption
  <2>. QED
    BY <2>1, <2>2, InvoicesPostAsBefore
<1>4. ASSUME NEW p \in Payments, CancelPayment(p) PROVE InvoicesPost'
  <2>1. invoices' = invoices /\ lines' = lines \cup ReversalOf(p)
    BY <1>4 DEF CancelPayment, Posted
  <2>2. \A l \in ReversalOf(p) : l.source \notin Invoices
    BY DEF ReversalOf, Line, PurchaseLedgerAssumption
  <2>. QED
    BY <2>1, <2>2, InvoicesPostAsBefore
<1>5. ASSUME NEW r \in Requests,
             \/ \E i \in Invoices : BeginConfirm(r, i) \/ BeginCancel(r, i)
             \/ \E a \in Accounts : ResolvePayable(r, a)
             \/ \E allocation \in Allocations, key \in {{}} \cup {{k} : k \in IdempotencyKeys} :
                  BeginPayment(r, allocation, key)
             \/ LockNextInvoice(r)
             \/ LockSettings(r)
             \/ CheckBalance(r)
             \/ RollBack(r)
      PROVE  UNCHANGED rows
  BY <1>5 DEF BeginConfirm, BeginCancel, LockOneInvoice, ResolvePayable, BeginPayment,
              LockNextInvoice, TakeLock, LockSettings, CheckBalance, RollBack
<1>6. CASE UNCHANGED vars
  BY <1>1, <1>6 DEF vars
<1>. QED
  BY <1>1, <1>2, <1>3, <1>4, <1>5, <1>6, ConfirmPosts, CancelPosts DEF Next

\* What was posted for invoices alone stays the sum of their totals by account,
\* whatever is paid: a confirmation adds its line and a cancellation its reversal
\* to the account that was credited.
THEOREM InvoicesArePosted == Spec => []InvoicesPost
<1>1. Init => InvoicesPost
  BY InvoicesPostAtFirst
<1>2. IInv /\ IInv' /\ InvoicesPost /\ [Next]_vars => InvoicesPost'
  BY StepsPost, PurchaseLedgerAssumption
<1>. QED
  BY <1>1, <1>2, InvariantHolds, PTL DEF Spec

-----------------------------------------------------------------------------
(* What the reports say of the invoices that are confirmed. *)

Confirmed == {i \in Invoices : invoices[i].status = "CONFIRMED"}

LEMMA EverythingIsConfirmed ==
  /\ Payables(Everything) = Confirmed
  /\ \A query \in Queries : Payables(query) \subseteq Confirmed
BY DEF Payables, Everything, Queries, Confirmed

\* The amounts that reports add up are those of the rows.
LEMMA ConfirmedTyped ==
  ASSUME PurchaseLedgerAssumption, IInv
  PROVE  /\ IsFiniteSet(Confirmed) /\ payments \in PaymentRows /\ InvoicesTyped(invoices)
         /\ \A i \in Confirmed : /\ invoices[i].total \in Nat \ {0} /\ invoices[i].account \in Accounts
                                  /\ PaidIn(payments, i) \in Nat /\ PaidAmount(i) = PaidIn(payments, i)
<1>1. IsFiniteSet(Confirmed)
  BY FS_Subset DEF Confirmed, PurchaseLedgerAssumption
<1>2. payments \in PaymentRows /\ InvoicesTyped(invoices)
  BY DEF IInv, TypeOK, PaymentRows, InvoicesTyped
<1>3. ASSUME NEW i \in Confirmed
      PROVE  invoices[i].total \in Nat \ {0} /\ invoices[i].account \in Accounts
  <2>1. invoices[i] \in Invoice(i) /\ i \in Invoices
    BY NoRows DEF Confirmed, IInv
  <2>2. invoices[i].total \in Nat \ {0}
    BY <2>1, AmountsArePositive
  <2>. QED
    BY <2>1, <2>2 DEF Confirmed, IInv, InvoicePosted
<1>4. \A i : PaidIn(payments, i) \in Nat /\ PaidAmount(i) = PaidIn(payments, i)
  BY <1>2, PaidInNat, AsFunctions DEF PaidAmount
<1>. QED
  BY <1>1, <1>2, <1>3, <1>4

\* The entry of a confirmed invoice has one credit, of its total.
LEMMA EntryAgrees ==
  ASSUME PurchaseLedgerAssumption, IInv, NEW i \in Confirmed
  PROVE  ~EntryDisagrees(i) /\ HistoricalAccounts(i) = {invoices[i].account}
<1> DEFINE l == Line(i, "ORIGINAL", invoices[i].account, invoices[i].total)
<1>1. PostedBy(lines, i) = {l}
  BY DEF Confirmed, IInv, InvoicePosted
<1>2. /\ l.source = i /\ l.event = "ORIGINAL" /\ l.credit = invoices[i].total
      /\ l.account = invoices[i].account
  BY DEF Line
<1>3. l.credit > 0
  BY <1>2, ConfirmedTyped
<1> HIDE DEF l
<1>4. Credited(i) = {l}
  BY <1>1, <1>2, <1>3 DEF Credited, PostedBy
<1>5. Cardinality(Credited(i)) = 1
  BY <1>4, FS_Singleton
<1>. QED
  BY <1>2, <1>4, <1>5 DEF EntryDisagrees, HistoricalAccounts

\* What has been paid of some confirmed invoices that credited an account.
OfAccount(R, a) == {i \in R : invoices[i].account = a}

PaidOver(S) == [i \in S |-> PaidIn(payments, i)]

LEMMA PaidTyped ==
  ASSUME PurchaseLedgerAssumption, IInv, NEW S \in SUBSET Confirmed
  PROVE  Addends(PaidOver(S), S) /\ SumFunction(PaidOver(S)) \in Int
<1>1. IsFiniteSet(S) /\ PaidOver(S) \in [S -> Int]
  BY ConfirmedTyped, FS_Subset DEF PaidOver
<1>. QED
  BY <1>1, SumType DEF Addends

LEMMA PaidOnAccount ==
  ASSUME PurchaseLedgerAssumption, IInv, NEW R \in SUBSET Confirmed, NEW a
  PROVE  PaidOn(R, a) = SumFunction(PaidOver(OfAccount(R, a)))
<1> DEFINE S == {i \in R : a \in HistoricalAccounts(i)}
<1>1. S = OfAccount(R, a)
  BY EntryAgrees DEF OfAccount
<1>2. [i \in S |-> PaidAmount(i)] = [i \in S |-> PaidIn(payments, i)]
  BY ConfirmedTyped
<1>3. PaidOn(R, a) = SumFunction([i \in S |-> PaidAmount(i)])
  BY DEF PaidOn, Sum
<1>. QED
  BY <1>1, <1>2, <1>3 DEF PaidOver

\* The invoices that a filter shows and those that it leaves out.
LEMMA PaidInParts ==
  ASSUME PurchaseLedgerAssumption, IInv, NEW R \in SUBSET Confirmed, NEW a
  PROVE  /\ PaidOn(Confirmed, a) = PaidOn(R, a) + PaidOn(Confirmed \ R, a)
         /\ PaidOn(R, a) \in Int /\ PaidOn(Confirmed \ R, a) \in Int
<1> DEFINE D == OfAccount(Confirmed, a)
           C == OfAccount(R, a)
           E == OfAccount(Confirmed \ R, a)
<1>1. C \cup E = D /\ C \cap E = {} /\ D \subseteq Confirmed
  BY DEF OfAccount
<1>2. (\A i \in C : PaidOver(C)[i] = PaidOver(D)[i]) /\ (\A i \in E : PaidOver(E)[i] = PaidOver(D)[i])
  BY <1>1 DEF PaidOver
<1>3. PaidOn(Confirmed, a) = SumFunction(PaidOver(D)) /\ PaidOn(R, a) = SumFunction(PaidOver(C))
      /\ PaidOn(Confirmed \ R, a) = SumFunction(PaidOver(E))
  <2>1. (Confirmed \ R) \in SUBSET Confirmed /\ Confirmed \in SUBSET Confirmed
    OBVIOUS
  <2>. QED
    BY <2>1, PaidOnAccount
<1> HIDE DEF C, D, E
<1>4. Addends(PaidOver(D), D) /\ Addends(PaidOver(C), C) /\ Addends(PaidOver(E), E)
  BY <1>1, PaidTyped
<1>5. Shares(PaidOver(D), D, PaidOver(C), C, PaidOver(E), E)
  BY <1>1, <1>2, <1>4 DEF Shares
<1>6. SumFunction(PaidOver(D)) = SumFunction(PaidOver(C)) + SumFunction(PaidOver(E))
  BY <1>5, SumParts
<1>7. SumFunction(PaidOver(C)) \in Int /\ SumFunction(PaidOver(E)) \in Int
  BY <1>1, PaidTyped
<1>. QED
  BY <1>3, <1>6, <1>7

\* An account owes the totals of its invoices less what they have been paid.
LEMMA TotalsLessPaid ==
  ASSUME PurchaseLedgerAssumption, IInv, NEW a
  PROVE  OwedIn(invoices, NothingPaid, a)
           = OwedIn(invoices, payments, a) + SumFunction(PaidOver(OfAccount(Confirmed, a)))
<1> DEFINE D == ConfirmedOn(invoices, a)
           f == [i \in D |-> invoices[i].total - PaidIn(NothingPaid, i)]
           g == [i \in D |-> invoices[i].total - PaidIn(payments, i)]
<1>1. D = OfAccount(Confirmed, a) /\ D \in SUBSET Confirmed
  BY DEF ConfirmedOn, OfAccount, Confirmed
<1>2. Addends(f, D) /\ Addends(g, D) /\ Addends(PaidOver(D), D)
  BY <1>1, ConfirmedTyped, NothingIsPaid, OwedTerms, PaidTyped
<1>3. \A i \in D : f[i] = g[i] + PaidOver(D)[i]
  BY <1>1, ConfirmedTyped, NothingIsPaid DEF PaidOver
<1>4. SumFunction(f) = SumFunction(g) + SumFunction(PaidOver(D))
  <2>. HIDE DEF D, f, g
  <2>. QED
    BY <1>2, <1>3, SumPlus DEF Addends
<1>. QED
  BY <1>1, <1>4 DEF OwedIn

\* What the payments have taken off an account, net of those cancelled.
LEMMA NetDebitOfLines ==
  ASSUME PurchaseLedgerAssumption, IInv, NEW a
  PROVE  NetDebit(a) = -BalanceIn(PaymentsLines(lines), a) /\ BalanceIn(PaymentsLines(lines), a) \in Int
<1> DEFINE D == LinesOn(PaymentsLines(lines), a)
           f == [l \in D |-> l.credit]
           g == [l \in D |-> -l.credit]
<1>1. IsFiniteSet(PaymentsLines(lines)) /\ \A l \in PaymentsLines(lines) : l.credit \in Int
  BY FS_Subset DEF IInv, TypeOK, PaymentsLines
<1>2. IsFiniteSet(D) /\ f \in [D -> Int] /\ BalanceIn(PaymentsLines(lines), a) \in Int
  BY <1>1, BalanceInt
<1>3. g \in [D -> Int] /\ \A l \in D : g[l] = -f[l]
  BY <1>2
<1>4. SumFunction(g) = -SumFunction(f)
  <2>. HIDE DEF D, f, g
  <2>. QED
    BY <1>2, <1>3, SumOpposite
<1>5. NetDebit(a) = SumFunction(g)
  <2>1. {l \in lines : l.source \in Payments /\ l.account = a} = D
    BY DEF LinesOn, PaymentsLines
  <2>. QED
    BY <2>1 DEF NetDebit, Sum
<1>. QED
  BY <1>2, <1>4, <1>5 DEF BalanceIn

\* It is what the invoices that credited it have been paid.
LEMMA NetDebitIsPaid ==
  ASSUME PurchaseLedgerAssumption, IInv, InvoicesPost, NEW a \in Accounts
  PROVE  NetDebit(a) = PaidOn(Confirmed, a)
<1> DEFINE A == InvoiceLines(lines)
           B == PaymentsLines(lines)
<1>1. lines = A \cup B /\ A \cap B = {}
  BY DEF IInv, TypeOK, InvoiceLines, PaymentsLines, PurchaseLedgerAssumption
<1>2. /\ IsFiniteSet(A) /\ IsFiniteSet(B)
      /\ (\A l \in A : l.credit \in Int) /\ (\A l \in B : l.credit \in Int)
  BY FS_Subset DEF IInv, TypeOK, InvoiceLines, PaymentsLines
<1>3. BalanceIn(lines, a) = BalanceIn(A, a) + BalanceIn(B, a)
  <2>. HIDE DEF A, B
  <2>. QED
    BY <1>1, <1>2, PostedBalance
<1>4. BalanceIn(A, a) = OwedIn(invoices, NothingPaid, a) /\ BalanceIn(lines, a) = OwedIn(invoices, payments, a)
  BY DEF InvoicesPost, IInv
<1>5. BalanceIn(A, a) = BalanceIn(lines, a) + PaidOn(Confirmed, a) /\ PaidOn(Confirmed, a) \in Int
  BY <1>4, TotalsLessPaid, PaidOnAccount, PaidInParts
<1>6. NetDebit(a) = -BalanceIn(B, a) /\ BalanceIn(B, a) \in Int
  BY NetDebitOfLines
<1>7. BalanceIn(lines, a) \in Int
  BY BalanceInt DEF IInv, TypeOK
<1> HIDE DEF A, B
<1>. QED
  BY <1>3, <1>5, <1>6, <1>7

\* Against what was posted, a report differs by what it leaves out.
LEMMA DifferencesAreLeftOut ==
  ASSUME PurchaseLedgerAssumption, IInv, InvoicesPost, NEW R \in SUBSET Confirmed
  PROVE  \A a \in DOMAIN Differences(R) : Differences(R)[a] = -PaidOn(Confirmed \ R, a)
<1>1. DOMAIN Differences(R) \subseteq Accounts
  BY EntryAgrees, ConfirmedTyped DEF Differences
<1>2. ASSUME NEW a \in DOMAIN Differences(R) PROVE Differences(R)[a] = -PaidOn(Confirmed \ R, a)
  <2>1. Differences(R)[a] = PaidOn(R, a) - NetDebit(a)
    BY DEF Differences
  <2>. QED
    BY <1>1, <2>1, NetDebitIsPaid, PaidInParts
<1>. QED
  BY <1>2

\* The reconciliation of all invoices finds nothing wrong.
LEMMA AllIsConsistent ==
  ASSUME PurchaseLedgerAssumption, IInv, InvoicesPost
  PROVE  Consistent(Confirmed)
<1>1. \A a : PaidOn({}, a) = 0
  <2>1. ASSUME NEW a PROVE SumFunction(PaidOver({})) = 0
    BY SumNothing DEF PaidOver
  <2>2. \A a : OfAccount({}, a) = {}
    BY DEF OfAccount
  <2>3. {} \in SUBSET Confirmed
    OBVIOUS
  <2>. QED
    BY <2>1, <2>2, <2>3, PaidOnAccount
<1>2. ASSUME NEW a \in DOMAIN Differences(Confirmed) PROVE Differences(Confirmed)[a] = 0
  <2>1. Confirmed \ Confirmed = {} /\ Confirmed \in SUBSET Confirmed
    OBVIOUS
  <2>2. Differences(Confirmed)[a] = -PaidOn({}, a)
    BY <2>1, DifferencesAreLeftOut
  <2>. QED
    BY <1>1, <2>2
<1>. QED
  BY <1>2, EntryAgrees DEF Consistent

-----------------------------------------------------------------------------
(* The sums of the reports *)

DueOver(S) == [i \in S |-> invoices[i].total - PaidIn(payments, i)]

LEMMA DueTyped ==
  ASSUME PurchaseLedgerAssumption, IInv, NEW S \in SUBSET Confirmed
  PROVE  /\ Addends(DueOver(S), S) /\ Sum(BalanceDue, S) = SumFunction(DueOver(S))
         /\ Part(DueOver(Confirmed), S) = DueOver(S)
<1>1. IsFiniteSet(S)
  BY ConfirmedTyped, FS_Subset
<1>2. \A i \in S : BalanceDue(i) = invoices[i].total - PaidIn(payments, i) /\ BalanceDue(i) \in Int
  BY ConfirmedTyped DEF BalanceDue
<1>3. [i \in S |-> BalanceDue(i)] = DueOver(S) /\ DueOver(S) \in [S -> Int]
  BY <1>2 DEF DueOver
<1>4. Sum(BalanceDue, S) = SumFunction(DueOver(S))
  BY <1>3 DEF Sum
<1>5. Part(DueOver(Confirmed), S) = DueOver(S)
  BY DEF Part, DueOver
<1>. QED
  BY <1>1, <1>3, <1>4, <1>5 DEF Addends

\* What is pending in all is what the accounts owe.
LEMMA AgingIsOwed ==
  ASSUME PurchaseLedgerAssumption, AccountsPayableAssumption, IInv
  PROVE  Aging(Confirmed).total = Sum(Balance, Accounts)
<1> DEFINE f == DueOver(Confirmed)
           key == [i \in Confirmed |-> invoices[i].account]
<1>1. Keyed(f, Confirmed, key, Accounts)
  BY DueTyped, ConfirmedTyped DEF Keyed, AccountsPayableAssumption
<1>2. GroupSums(f, Confirmed, key, Accounts) = [a \in Accounts |-> Balance(a)]
  <2>1. ASSUME NEW a \in Accounts
        PROVE  SumFunction(Part(f, {i \in Confirmed : key[i] = a})) = Balance(a)
    <3>1. {i \in Confirmed : key[i] = a} = ConfirmedOn(invoices, a)
      BY DEF Confirmed, ConfirmedOn
    <3>2. ConfirmedOn(invoices, a) \in SUBSET Confirmed
      BY DEF Confirmed, ConfirmedOn
    <3>3. Part(f, ConfirmedOn(invoices, a)) = DueOver(ConfirmedOn(invoices, a))
      BY <3>2, DueTyped
    <3>4. Balance(a) = SumFunction(DueOver(ConfirmedOn(invoices, a)))
      BY AsFunctions DEF IInv, OwedIn, DueOver
    <3>. QED
      BY <3>1, <3>3, <3>4
  <2>. HIDE DEF f, key
  <2>. QED
    BY <2>1 DEF GroupSums
<1>3. SumFunction(GroupSums(f, Confirmed, key, Accounts)) = SumFunction(f)
  <2>. HIDE DEF f, key
  <2>. QED
    BY <1>1, SumGrouped
<1>4. Aging(Confirmed).total = SumFunction(f)
  BY DueTyped DEF Aging
<1>. QED
  BY <1>2, <1>3, <1>4 DEF Sum

\* The summary of a report is what its invoices have pending.
LEMMA SummaryIsDue ==
  ASSUME PurchaseLedgerAssumption, IInv, NEW R \in SUBSET Confirmed
  PROVE  Summary(R).original - Summary(R).paid = SumFunction(DueOver(R))
<1> DEFINE f == [i \in R |-> invoices[i].total]
           g == DueOver(R)
           h == PaidOver(R)
<1>1. Addends(g, R) /\ Addends(h, R)
  BY DueTyped, PaidTyped
<1>2. f \in [R -> Int] /\ \A i \in R : f[i] = g[i] + h[i]
  BY ConfirmedTyped DEF DueOver, PaidOver
<1>3. Summary(R).original = SumFunction(f)
  BY DEF Summary, Sum
<1>4. Summary(R).paid = SumFunction(h)
  <2>1. [i \in R |-> PaidAmount(i)] = h
    BY ConfirmedTyped DEF PaidOver
  <2>. QED
    BY <2>1 DEF Summary, Sum
<1> HIDE DEF f, g, h
<1>5. SumFunction(f) = SumFunction(g) + SumFunction(h)
  BY <1>1, <1>2, SumPlus DEF Addends
<1>6. SumFunction(g) \in Int /\ SumFunction(h) \in Int
  BY <1>1, SumType DEF Addends
<1>7. SumFunction(f) - SumFunction(h) = SumFunction(g)
  BY <1>5, <1>6
<1>. QED
  BY <1>3, <1>4, <1>7 DEF g

\* The buckets that a report has.
BucketsOf(R) == {BucketOf(DaysOverdue[i]) : i \in R}

Bucketed(R) == [i \in R |-> BucketOf(DaysOverdue[i])]

LEMMA BucketsTyped ==
  ASSUME PurchaseLedgerAssumption, IInv, NEW R \in SUBSET Confirmed
  PROVE  /\ IsFiniteSet(R) /\ IsFiniteSet(BucketsOf(R)) /\ Bucketed(R) \in [R -> BucketsOf(R)]
         /\ DOMAIN Aging(R).buckets = BucketsOf(R)
         /\ \A b : InBucket(R, b) = {i \in R : Bucketed(R)[i] = b} /\ InBucket(R, b) \in SUBSET R
<1>1. IsFiniteSet(R)
  BY ConfirmedTyped, FS_Subset
<1>2. Bucketed(R) \in Surjection(R, BucketsOf(R))
  BY DEF Bucketed, BucketsOf, Surjection
<1>3. IsFiniteSet(BucketsOf(R))
  BY <1>1, <1>2, FS_Surjection
<1>4. DOMAIN Aging(R).buckets = BucketsOf(R)
  BY DEF Aging, BucketsOf
<1>5. \A b : InBucket(R, b) = {i \in R : Bucketed(R)[i] = b}
  BY DEF InBucket, Bucketed
<1>. QED
  BY <1>1, <1>2, <1>3, <1>4, <1>5 DEF Surjection

LEMMA BucketsAreDue ==
  ASSUME PurchaseLedgerAssumption, IInv, NEW R \in SUBSET Confirmed
  PROVE  SumFunction([b \in BucketsOf(R) |-> Aging(R).buckets[b].amount]) = SumFunction(DueOver(R))
<1> DEFINE f == DueOver(R)
           key == Bucketed(R)
           B == BucketsOf(R)
<1>1. Keyed(f, R, key, B)
  BY BucketsTyped, DueTyped DEF Keyed
<1>2. ASSUME NEW b \in B
      PROVE  Aging(R).buckets[b].amount = SumFunction(Part(f, {i \in R : key[i] = b}))
  <2> DEFINE S == InBucket(R, b)
  <2>1. Aging(R).buckets[b].amount = Sum(BalanceDue, S)
    BY DEF Aging, BucketsOf
  <2>2. S = {i \in R : key[i] = b} /\ S \in SUBSET R /\ S \in SUBSET Confirmed
    BY BucketsTyped
  <2>3. Sum(BalanceDue, S) = SumFunction(DueOver(S))
    BY <2>2, DueTyped
  <2>4. Part(f, S) = DueOver(S)
    BY <2>2 DEF Part, DueOver
  <2>. HIDE DEF S, f, key
  <2>. QED
    BY <2>1, <2>2, <2>3, <2>4
<1>3. [b \in B |-> Aging(R).buckets[b].amount] = GroupSums(f, R, key, B)
  <2>. HIDE DEF B, f, key
  <2>. QED
    BY <1>2 DEF GroupSums
<1>. QED
  <2>. HIDE DEF f, key
  <2>. QED
    BY <1>1, <1>3, SumGrouped DEF f

LEMMA BucketsCount ==
  ASSUME PurchaseLedgerAssumption, IInv, NEW R \in SUBSET Confirmed
  PROVE  SumFunction([b \in BucketsOf(R) |-> Aging(R).buckets[b].count]) = Cardinality(R)
<1> DEFINE f == [i \in R |-> 1]
           key == Bucketed(R)
           B == BucketsOf(R)
<1>1. IsFiniteSet(R) /\ f \in [R -> Int] /\ Keyed(f, R, key, B)
  BY BucketsTyped DEF Keyed, Addends
<1>2. ASSUME NEW b \in B
      PROVE  Aging(R).buckets[b].count = SumFunction(Part(f, {i \in R : key[i] = b}))
  <2> DEFINE S == InBucket(R, b)
  <2>1. Aging(R).buckets[b].count = Cardinality(S)
    BY DEF Aging, BucketsOf
  <2>2. S = {i \in R : key[i] = b} /\ S \in SUBSET R
    BY BucketsTyped
  <2>3. IsFiniteSet(S) /\ Part(f, S) \in [S -> Int] /\ \A i \in S : Part(f, S)[i] = 1
    BY <1>1, <2>2, FS_Subset DEF Part
  <2>. HIDE DEF S, f, key
  <2>4. SumFunction(Part(f, S)) = Cardinality(S)
    BY <2>3, SumOfOnes
  <2>. QED
    BY <2>1, <2>2, <2>4
<1>3. [b \in B |-> Aging(R).buckets[b].count] = GroupSums(f, R, key, B)
  <2>. HIDE DEF B, f, key
  <2>. QED
    BY <1>2 DEF GroupSums
<1>4. SumFunction(GroupSums(f, R, key, B)) = SumFunction(f) /\ SumFunction(f) = Cardinality(R)
  <2>1. \A i \in R : f[i] = 1
    OBVIOUS
  <2>. HIDE DEF f, key, B
  <2>. QED
    BY <1>1, <2>1, SumGrouped, SumOfOnes
<1>. QED
  BY <1>3, <1>4

\* The standing payments in the history of an invoice are what it has been paid.
LEMMA HistoryIsPaid ==
  ASSUME PurchaseLedgerAssumption, IInv, NEW i \in Confirmed
  PROVE  invoices[i].total - BalanceDue(i)
           = Sum(LAMBDA p : payments[p].allocation[i], {p \in History(i) : payments[p].status = "ACTIVE"})
<1>1. {p \in History(i) : payments[p].status = "ACTIVE"} = ActiveIn(payments, i)
  BY DEF History, ActiveIn, NoPayment
<1>2. invoices[i].total - BalanceDue(i) = PaidIn(payments, i)
  BY ConfirmedTyped DEF BalanceDue
<1>. QED
  BY <1>1, <1>2 DEF Sum, PaidIn
-----------------------------------------------------------------------------
(* The pages of the list *)

Ascends(s, S) ==
  /\ s \in [1..Cardinality(S) -> S]
  /\ \A j, k \in 1..Cardinality(S) : (j # k => s[j] # s[k]) /\ (j < k => s[j] < s[k])

\* There is a row of any invoices in ascending order.
LEMMA AscendingExists ==
  ASSUME PurchaseLedgerAssumption, NEW R \in SUBSET Invoices
  PROVE  \E s : Ascends(s, R)
<1> DEFINE T == {S \in SUBSET Invoices : \E s : Ascends(s, S)}
<1>1. {} \in T
  <2>1. Cardinality({}) = 0 /\ 1..0 = {}
    BY FS_EmptySet
  <2>2. Ascends([k \in {} |-> 0], {})
    BY <2>1 DEF Ascends
  <2>. QED
    BY <2>2
<1>2. ASSUME NEW S \in SUBSET Invoices, \A x \in S : S \ {x} \in T PROVE S \in T
  <2>1. CASE S = {}
    BY <1>1, <2>1
  <2>2. CASE S # {}
    <3>1. PICK m \in S : \A i \in S : i <= m
      BY <2>2, GreatestInvoice
    <3>2. PICK s : Ascends(s, S \ {m})
      BY <1>2
    <3> DEFINE n == Cardinality(S)
               t == [k \in 1..n |-> IF k < n THEN s[k] ELSE m]
    <3>3. /\ n \in Nat \ {0} /\ Cardinality(S \ {m}) = n - 1
          /\ \A i \in S : i \in Nat
      <4>1. IsFiniteSet(S) /\ S \subseteq Nat
        BY FS_Subset DEF PurchaseLedgerAssumption
      <4>. QED
        BY <2>2, <4>1, FS_CardinalityType, FS_RemoveElement, FS_EmptySet
    <3> HIDE DEF n
    <3>4. \A k \in 1..n : k < n => k \in 1..(n - 1)
      BY <3>3
    <3>5. \A k \in 1..(n - 1) : s[k] \in S \ {m} /\ s[k] < m
      <4>1. s \in [1..(n - 1) -> S \ {m}]
        BY <3>2, <3>3 DEF Ascends
      <4>2. \A x \in S \ {m} : x < m
        BY <3>1, <3>3
      <4>. QED
        BY <4>1, <4>2
    <3>6. \A j, k \in 1..(n - 1) : (j # k => s[j] # s[k]) /\ (j < k => s[j] < s[k])
      BY <3>2, <3>3 DEF Ascends
    <3>7. t \in [1..n -> S]
      BY <3>4, <3>5
    <3>8. ASSUME NEW j \in 1..n, NEW k \in 1..n
          PROVE  (j # k => t[j] # t[k]) /\ (j < k => t[j] < t[k])
      <4>1. \A x \in 1..n : x < n \/ x = n
        BY <3>3
      <4>2. CASE j < n /\ k < n
        BY <3>4, <3>6, <4>2
      <4>3. CASE j < n /\ k = n
        BY <3>3, <3>4, <3>5, <4>3
      <4>4. CASE j = n /\ k < n
        BY <3>3, <3>4, <3>5, <4>4
      <4>5. CASE j = n /\ k = n
        BY <3>3, <4>5
      <4>. QED
        BY <4>1, <4>2, <4>3, <4>4, <4>5
    <3>9. Ascends(t, S)
      BY <3>7, <3>8 DEF Ascends, n
    <3>. QED
      BY <3>9
  <2>. QED
    BY <2>1, <2>2
<1>3. SUBSET Invoices \subseteq T
  <2>1. IsFiniteSet(Invoices)
    BY DEF PurchaseLedgerAssumption
  <2>. HIDE DEF T
  <2>. QED
    BY <1>1, <1>2, <2>1, SubsetsBySize
<1>. QED
  BY <1>3

\* The list is such a row.
LEMMA ListInOrder ==
  ASSUME PurchaseLedgerAssumption, NEW R \in SUBSET Invoices
  PROVE  /\ InOrder(R) \in Seq(R) /\ Len(InOrder(R)) = Cardinality(R) /\ Cardinality(R) \in Nat
         /\ Range(InOrder(R)) = R
<1> DEFINE N == Cardinality(R)
           s == InOrder(R)
<1>1. IsFiniteSet(R) /\ N \in Nat
  BY FS_Subset, FS_CardinalityType DEF PurchaseLedgerAssumption
<1>2. PICK t : Ascends(t, R)
  BY AscendingExists
<1>3. t \in SetToSeqs(R) /\ \A j, k \in DOMAIN t : j < k => t[j] < t[k]
  BY <1>2 DEF Ascends, SetToSeqs
<1>4. s \in SetToSeqs(R)
  BY <1>3 DEF InOrder
<1>5. s \in [1..N -> R] /\ \A j, k \in 1..N : j # k => s[j] # s[k]
  BY <1>4 DEF SetToSeqs
<1> HIDE DEF N, s
<1>6. s \in Seq(R) /\ Len(s) = N
  BY <1>1, <1>5
<1>7. s \in Surjection(1..N, R)
  <2>1. s \in Injection(1..N, R)
    BY <1>5 DEF Injection, IsInjective
  <2>2. Cardinality(1..N) = Cardinality(R)
    BY <1>1, FS_Interval DEF N
  <2>. QED
    BY <1>1, <2>1, <2>2, FS_Injection
<1>8. Range(s) = R
  <2>1. DOMAIN s = 1..N /\ \A k \in 1..N : s[k] \in R
    BY <1>5
  <2>2. \A i \in R : \E k \in 1..N : s[k] = i
    BY <1>7 DEF Surjection
  <2>. QED
    BY <2>1, <2>2 DEF Range
<1>. QED
  BY <1>1, <1>6, <1>8 DEF N, s

LEMMA LeastOfTwo ==
  ASSUME NEW a \in Int, NEW b \in Int
  PROVE  Min({a, b}) = IF a <= b THEN a ELSE b
<1> DEFINE m == IF a <= b THEN a ELSE b
<1>1. m \in {a, b} /\ \A y \in {a, b} : m <= y
  OBVIOUS
<1>2. \A x \in {a, b} : (\A y \in {a, b} : x <= y) => x = m
  OBVIOUS
<1>. QED
  BY <1>1, <1>2 DEF Min

\* The first two pages are the first page of twice their size, and a page of
\* the size of the list has all of it.
LEMMA PagesFit ==
  ASSUME PurchaseLedgerAssumption, NEW R \in SUBSET Invoices
  PROVE  /\ Range(Page(R, {}, 1, Cardinality(R))) = R
         /\ \A n \in 1..Cardinality(R) : Page(R, {}, 1, n) \o Page(R, {}, 2, n) = Page(R, {}, 1, 2 * n)
<1> DEFINE s == InOrder(R)
           N == Cardinality(R)
<1>1. s \in Seq(R) /\ Len(s) = N /\ N \in Nat /\ Range(s) = R
  BY ListInOrder
<1>2. {i \in R : {} \in {{}, {BucketOf(DaysOverdue[i])}}} = R
  OBVIOUS
<1>3. \A page, limit :
        Page(R, {}, page, limit) = SubSeq(s, (page - 1) * limit + 1, Min({page * limit, N}))
  BY <1>1, <1>2 DEF Page
<1> HIDE DEF s, N
<1>4. Page(R, {}, 1, N) = s
  <2>1. (1 - 1) * N + 1 = 1 /\ 1 * N = N /\ Min({N, N}) = N
    BY <1>1, LeastOfTwo
  <2>2. Page(R, {}, 1, N) = SubSeq(s, 1, N)
    BY <1>3, <2>1
  <2>. QED
    BY <1>1, <2>2, SubSeqFull
<1>5. ASSUME NEW n \in 1..N PROVE Page(R, {}, 1, n) \o Page(R, {}, 2, n) = Page(R, {}, 1, 2 * n)
  <2> DEFINE e == IF 2 * n <= N THEN 2 * n ELSE N
  <2>1. n \in Nat /\ (1 - 1) * n + 1 = 1 /\ (2 - 1) * n + 1 = n + 1 /\ 1 * n = n /\ (1 - 1) * (2 * n) + 1 = 1
        /\ 1 * (2 * n) = 2 * n
    BY <1>1
  <2>2. Min({n, N}) = n /\ Min({2 * n, N}) = e
    BY <1>1, <2>1, LeastOfTwo
  <2>3. Page(R, {}, 1, n) = SubSeq(s, 1, n) /\ Page(R, {}, 2, n) = SubSeq(s, n + 1, e)
        /\ Page(R, {}, 1, 2 * n) = SubSeq(s, 1, e)
    <3>1. /\ Page(R, {}, 1, n) = SubSeq(s, (1 - 1) * n + 1, Min({1 * n, N}))
          /\ Page(R, {}, 2, n) = SubSeq(s, (2 - 1) * n + 1, Min({2 * n, N}))
          /\ Page(R, {}, 1, 2 * n) = SubSeq(s, (1 - 1) * (2 * n) + 1, Min({1 * (2 * n), N}))
      BY <1>3
    <3>. HIDE DEF e
    <3>. QED
      BY <2>1, <2>2, <3>1, Zenon
  <2>4. 1 \in 1..Len(s)+1 /\ n \in 1-1..Len(s) /\ e \in n..Len(s)
    BY <1>1, <2>1
  <2>. HIDE DEF e
  <2>. QED
    BY <1>1, <2>3, <2>4, ConcatAdjacentSubSeq
<1>. QED
  BY <1>1, <1>4, <1>5 DEF N

-----------------------------------------------------------------------------
(* The reports *)

LEMMA ReportsOnPayables ==
  ASSUME PurchaseLedgerAssumption, IInv, InvoicesPost, NEW R \in SUBSET Confirmed
  PROVE  ReportAgrees(R, Confirmed)
<1>1. \A i \in R : ~EntryDisagrees(i)
  BY EntryAgrees
<1>2. \A a \in DOMAIN Differences(R) : Differences(R)[a] = -PaidOn(Confirmed \ R, a)
  BY DifferencesAreLeftOut
<1>3. DOMAIN Aging(R).buckets = BucketsOf(R)
  BY BucketsTyped
<1>4. Summary(R).original - Summary(R).paid
        = Sum(LAMBDA b : Aging(R).buckets[b].amount, DOMAIN Aging(R).buckets)
  BY <1>3, SummaryIsDue, BucketsAreDue DEF Sum
<1>5. Cardinality(R) = Sum(LAMBDA b : Aging(R).buckets[b].count, DOMAIN Aging(R).buckets)
  BY <1>3, BucketsCount DEF Sum
<1>6. \A i \in R :
        invoices[i].total - BalanceDue(i)
          = Sum(LAMBDA p : payments[p].allocation[i], {p \in History(i) : payments[p].status = "ACTIVE"})
  BY HistoryIsPaid
<1>7. /\ Range(Page(R, {}, 1, Cardinality(R))) = R
      /\ \A n \in 1..Cardinality(R) : Page(R, {}, 1, n) \o Page(R, {}, 2, n) = Page(R, {}, 1, 2 * n)
  BY PagesFit DEF Confirmed
<1>. QED
  BY <1>1, <1>2, <1>4, <1>5, <1>6, <1>7 DEF ReportAgrees

\* Every report on payables agrees with the ledger and with the others, in every
\* state and for every filter.
THEOREM PayablesReported == Spec => []PayablesAgree
<1>1. ASSUME IInv, InvoicesPost PROVE PayablesAgree
  <2>1. Payables(Everything) = Confirmed
    BY EverythingIsConfirmed
  <2>2. \A R \in {Payables(query) : query \in Queries} : ReportAgrees(R, Confirmed)
    BY <1>1, EverythingIsConfirmed, ReportsOnPayables, PurchaseLedgerAssumption
  <2>3. LedgerMatchesInvoices
    BY <1>1, AsFunctions DEF IInv, LedgerMatchesInvoices
  <2>4. Consistent(Confirmed) /\ Aging(Confirmed).total = Sum(Balance, Accounts)
    BY <1>1, AllIsConsistent, AgingIsOwed, PurchaseLedgerAssumption, AccountsPayableAssumption
  <2>. QED
    BY <2>1, <2>2, <2>3, <2>4 DEF PayablesAgree
<1>2. IInv /\ InvoicesPost => PayablesAgree
  BY <1>1
<1>. QED
  BY <1>2, InvariantHolds, InvoicesArePosted, PTL

-----------------------------------------------------------------------------
(* The requests implement the book of payables. *)

\* PayableBook adds up as PurchaseLedger does.
LEMMA BookSum ==
  ASSUME NEW f
  PROVE  Book!SumFunction(f) = SumFunction(f)
BY DEF SumFunction, SumFunctionOnSet, FoldFunctionOnSet, MapThenFoldSet,
       Book!SumFunction, Book!SumFunctionOnSet, Book!FoldFunctionOnSet, Book!MapThenFoldSet

\* What the book has settled of an invoice is what its active payments say.
LEMMA BookSettles ==
  ASSUME PurchaseLedgerAssumption, TypeOK, NEW i \in Invoices
  PROVE  Book!Settled(i) = PaidIn(payments, i)
<1>1. \A p \in Payments : i \in DOMAIN BookSettled[p] <=> p \in ActiveIn(payments, i)
  BY DEF BookSettled, ActiveIn
<1>2. \A p \in ActiveIn(payments, i) : BookSettled[p][i] = payments[p].allocation[i]
  BY DEF BookSettled, ActiveIn
<1>3. ActiveIn(payments, i) \subseteq Payments
  BY DEF ActiveIn
<1>4. {p \in Payments : i \in DOMAIN BookSettled[p]} = ActiveIn(payments, i)
  BY <1>1, <1>3
<1>5. [p \in {p \in Payments : i \in DOMAIN BookSettled[p]} |-> BookSettled[p][i]]
        = [p \in ActiveIn(payments, i) |-> payments[p].allocation[i]]
  BY <1>2, <1>4
<1>. QED
  BY <1>5, BookSum DEF Book!Settled, PaidIn

\* Initially there is nothing in the book.
LEMMA BookInit ==
  ASSUME Init
  PROVE  Book!Init
<1>1. /\ \A i \in Invoices : invoices[i].status = "NONE"
      /\ \A p \in Payments : payments[p] = NoPayment /\ payments[p].status = "NONE"
  BY DEF Init, NoInvoice, NoPayment
<1>2. BookOwed = [i \in Invoices |-> 0] /\ BookVoided = {}
  BY <1>1 DEF BookOwed, BookVoided
<1>3. BookSettled = [p \in Payments |-> [i \in {} |-> 0]] /\ BookUndone = {} /\ BookKeys = {}
  BY <1>1 DEF BookSettled, BookUndone, BookKeys
<1>. QED
  BY <1>2, <1>3 DEF Book!Init, Book!Nothing

\* The book does not see drafts.
LEMMA DraftsNotInBook ==
  ASSUME UNCHANGED payments,
         \A i \in Invoices : \/ invoices'[i] = invoices[i]
                             \/ {invoices[i].status, invoices'[i].status} \subseteq {"NONE", "DRAFT"}
  PROVE  UNCHANGED Book!vars
<1>1. BookOwed' = BookOwed
  BY DEF BookOwed
<1>2. BookVoided' = BookVoided
  BY DEF BookVoided
<1>3. BookSettled' = BookSettled /\ BookKeys' = BookKeys /\ BookUndone' = BookUndone
  BY DEF BookSettled, BookKeys, BookUndone
<1>. QED
  BY <1>1, <1>2, <1>3 DEF Book!vars

\* Confirming an invoice recognises it.
LEMMA BookRecognises ==
  ASSUME PurchaseLedgerAssumption, IInv, NEW r \in Requests, CommitConfirm(r)
  PROVE  Book!Next
<1>1. TypeOK /\ pc[r] = "resolved" /\ HoldsOne(r, "DRAFT")
  BY DEF CommitConfirm, IInv, RequestOK
<1>2. PICK i \in reqInvoices[r] :
        invoices' = [invoices EXCEPT ![i].status = "CONFIRMED", ![i].account = reqAccount[r]]
  BY DEF CommitConfirm
<1>3. i \in Invoices /\ invoices[i].status = "DRAFT"
  BY <1>1, OwnInvoice
<1>4. invoices[i] \in Invoice(i) /\ invoices[i].total \in Totals[i]
  BY <1>1, <1>3, NoRows DEF Invoice
<1>5. invoices'[i].status = "CONFIRMED" /\ invoices'[i].total = invoices[i].total
      /\ \A j \in Invoices \ {i} : invoices'[j] = invoices[j]
  BY <1>1, <1>2, <1>3, <1>4 DEF TypeOK, Invoice
<1>6. payments' = payments
  BY DEF CommitConfirm
<1>7. BookOwed[i] = 0 /\ i \notin BookVoided
  BY <1>3 DEF BookOwed, BookVoided
<1>8. BookOwed' = [BookOwed EXCEPT ![i] = invoices[i].total]
  BY <1>3, <1>5 DEF BookOwed
<1>9. BookVoided' = BookVoided
  BY <1>3, <1>5 DEF BookVoided
<1>10. BookSettled' = BookSettled /\ BookKeys' = BookKeys /\ BookUndone' = BookUndone
  BY <1>6 DEF BookSettled, BookKeys, BookUndone
<1>11. Book!Recognise(i, invoices[i].total)
  BY <1>7, <1>8, <1>9, <1>10 DEF Book!Recognise
<1>. QED
  BY <1>3, <1>4, <1>11 DEF Book!Next

\* Cancelling an invoice voids it.
LEMMA BookVoids ==
  ASSUME PurchaseLedgerAssumption, IInv, NEW r \in Requests, CommitCancel(r)
  PROVE  Book!Next
<1>1. TypeOK /\ pc[r] = "cancel" /\ HoldsOne(r, "CONFIRMED")
  BY DEF CommitCancel, IInv, RequestOK
<1>2. PICK i \in reqInvoices[r] :
        ActivePayments(i) = {} /\ invoices' = [invoices EXCEPT ![i].status = "CANCELLED"]
  BY DEF CommitCancel
<1>3. i \in Invoices /\ invoices[i].status = "CONFIRMED"
  BY <1>1, OwnInvoice
<1>4. invoices[i] \in Invoice(i) /\ invoices[i].total \in Nat \ {0}
  BY <1>1, <1>3, NoRows, AmountsArePositive
<1>5. invoices'[i].status = "CANCELLED" /\ \A j \in Invoices \ {i} : invoices'[j] = invoices[j]
  BY <1>1, <1>2, <1>3, <1>4 DEF TypeOK, Invoice
<1>6. payments' = payments
  BY DEF CommitCancel
<1>7. BookOwed[i] = invoices[i].total
  BY <1>3 DEF BookOwed
<1>8. BookOwed' = [BookOwed EXCEPT ![i] = 0]
  BY <1>3, <1>5 DEF BookOwed
<1>9. BookVoided' = BookVoided \cup {i}
  BY <1>3, <1>5 DEF BookVoided
<1>10. BookSettled' = BookSettled /\ BookKeys' = BookKeys /\ BookUndone' = BookUndone
  BY <1>6 DEF BookSettled, BookKeys, BookUndone
<1>11. Book!Settled(i) = 0
  BY <1>1, <1>2, <1>3, BookSettles, AsFunctions, PaidNothing
<1>12. BookOwed[i] > 0
  BY <1>4, <1>7
<1>13. Book!Void(i)
  BY <1>8, <1>9, <1>10, <1>11, <1>12 DEF Book!Void
<1>. QED
  BY <1>3, <1>13 DEF Book!Next

\* Committing a payment settles what its allocations say, which the invoices
\* still owe: the request has held them since it compared the two.
LEMMA BookSettlesPayment ==
  ASSUME PurchaseLedgerAssumption, IInv, NEW r \in Requests, NEW p \in Payments, CommitPayment(r, p)
  PROVE  Book!Next
<1> DEFINE row == reqPayment[r]
<1>1. /\ TypeOK /\ RequestOK(r) /\ pc[r] = "post" /\ payments[p] = NoPayment /\ ~KeyUsed(row.key)
      /\ payments' = [payments EXCEPT ![p] = row] /\ invoices' = invoices
  BY DEF IInv, CommitPayment
<1>2. /\ row \in Payment /\ row.status = "ACTIVE" /\ DOMAIN row.allocation = reqInvoices[r]
      /\ \A i \in reqInvoices[r] : /\ invoices[i].status = "CONFIRMED"
                                   /\ row.allocation[i] <= invoices[i].total - PaidIn(payments, i)
  BY <1>1 DEF RequestOK
<1>3. /\ row.allocation \in Allocations /\ row.key \in {{}} \cup {{k} : k \in IdempotencyKeys}
      /\ DOMAIN row.allocation \subseteq Invoices
  BY <1>2, AmountsArePositive DEF Payment
<1> HIDE DEF row
<1>4. NoPayment.status = "NONE" /\ row # NoPayment
  BY <1>2 DEF NoPayment
<1>5. payments'[p] = row /\ \A q \in Payments \ {p} : payments'[q] = payments[q]
  BY <1>1 DEF TypeOK
<1>6. BookSettled[p] = Book!Nothing /\ p \notin BookUndone
  BY <1>1, <1>4 DEF BookSettled, BookUndone, Book!Nothing
<1>7. BookSettled' = [BookSettled EXCEPT ![p] = row.allocation]
  BY <1>2, <1>5 DEF BookSettled
<1>8. BookUndone' = BookUndone
  BY <1>1, <1>2, <1>4, <1>5 DEF BookUndone
<1>9. row.key \cap BookKeys = {}
  BY <1>1 DEF KeyUsed, BookKeys
<1>10. BookKeys' = BookKeys \cup row.key
  <2> DEFINE old == {q \in Payments : payments[q] # NoPayment}
             now == {q \in Payments : payments'[q] # NoPayment}
  <2>1. now = old \cup {p} /\ p \notin old
    BY <1>1, <1>4, <1>5
  <2>2. BookKeys' = UNION {payments'[q].key : q \in now}
    BY DEF BookKeys
  <2>3. BookKeys = UNION {payments[q].key : q \in old}
    BY DEF BookKeys
  <2>4. \A q \in old : payments'[q].key = payments[q].key
    BY <1>5, <2>1
  <2>. HIDE DEF old, now
  <2>. QED
    BY <1>5, <2>1, <2>2, <2>3, <2>4
<1>11. BookOwed' = BookOwed /\ BookVoided' = BookVoided
  BY <1>1 DEF BookOwed, BookVoided
<1>12. ASSUME NEW i \in DOMAIN row.allocation
       PROVE  Book!Settled(i) + row.allocation[i] <= BookOwed[i]
  <2>1. i \in Invoices /\ invoices[i].status = "CONFIRMED"
        /\ row.allocation[i] <= invoices[i].total - PaidIn(payments, i)
    BY <1>2, <1>3 DEF row
  <2>2. BookOwed[i] = invoices[i].total
    BY <2>1 DEF BookOwed
  <2>3. Book!Settled(i) = PaidIn(payments, i)
    BY <1>1, <2>1, BookSettles
  <2>4. PaidIn(payments, i) \in Nat
    BY <1>1, PaidInNat DEF TypeOK, PaymentRows
  <2>5. invoices[i].total \in Nat
    BY <1>1, <2>1, NoRows, AmountsArePositive
  <2>6. row.allocation[i] \in Nat
    BY <1>2, AmountsArePositive
  <2>. QED
    BY <2>1, <2>2, <2>3, <2>4, <2>5, <2>6
<1>13. Book!Settle(p, row.allocation, row.key)
  BY <1>6, <1>7, <1>8, <1>9, <1>10, <1>11, <1>12 DEF Book!Settle
<1>14. row.allocation \in Book!Allocations
  BY <1>3 DEF Book!Allocations, Allocations
<1>. QED
  BY <1>3, <1>13, <1>14 DEF Book!Next

\* Cancelling a payment undoes it.
LEMMA BookUndoes ==
  ASSUME PurchaseLedgerAssumption, IInv, NEW p \in Payments, CancelPayment(p)
  PROVE  Book!Next
<1>1. /\ TypeOK /\ invoices' = invoices /\ payments[p].status = "ACTIVE"
      /\ payments' = [payments EXCEPT ![p].status = "CANCELLED"]
  BY DEF IInv, CancelPayment
<1>2. payments[p] \in Payment
  BY <1>1, NoRows
<1>3. payments'[p].status = "CANCELLED" /\ payments'[p].key = payments[p].key
      /\ \A q \in Payments \ {p} : payments'[q] = payments[q]
  BY <1>1, <1>2 DEF TypeOK, Payment
<1>4. payments[p] # NoPayment /\ payments'[p] # NoPayment
  BY <1>1, <1>3 DEF NoPayment
<1>5. DOMAIN payments[p].allocation # {}
  BY <1>2, AmountsArePositive
<1>6. BookSettled[p] # Book!Nothing
  BY <1>1, <1>5 DEF BookSettled, Book!Nothing
<1>7. BookSettled' = [BookSettled EXCEPT ![p] = Book!Nothing]
  BY <1>3 DEF BookSettled, Book!Nothing
<1>8. BookUndone' = BookUndone \cup {p}
  BY <1>3 DEF BookUndone
<1>9. BookKeys' = BookKeys
  <2> DEFINE old == {q \in Payments : payments[q] # NoPayment}
             now == {q \in Payments : payments'[q] # NoPayment}
  <2>1. now = old
    BY <1>3, <1>4
  <2>2. \A q \in old : payments'[q].key = payments[q].key
    BY <1>3
  <2>3. BookKeys' = UNION {payments'[q].key : q \in now} /\ BookKeys = UNION {payments[q].key : q \in old}
    BY DEF BookKeys
  <2>. HIDE DEF old, now
  <2>. QED
    BY <2>1, <2>2, <2>3
<1>10. BookOwed' = BookOwed /\ BookVoided' = BookVoided
  BY <1>1 DEF BookOwed, BookVoided
<1>11. Book!Undo(p)
  BY <1>6, <1>7, <1>8, <1>9, <1>10 DEF Book!Undo
<1>. QED
  BY <1>11 DEF Book!Next

\* Every step is a step of the book, or none of it.
LEMMA BookStep ==
  ASSUME PurchaseLedgerAssumption, IInv, [Next]_vars
  PROVE  [Book!Next]_Book!vars
<1>1. CASE UNCHANGED <<invoices, payments>>
  BY <1>1, DraftsNotInBook
<1>2. ASSUME NEW i \in Invoices, NEW total \in Totals[i], CreateInvoice(i, total) \/ EditInvoice(i, total)
      PROVE  UNCHANGED Book!vars
  <2>1. PICK row : /\ invoices' = [invoices EXCEPT ![i] = row] /\ row.status = "DRAFT"
                   /\ invoices[i].status \in {"NONE", "DRAFT"} /\ payments' = payments
    <3>1. CASE CreateInvoice(i, total)
      <4> DEFINE row == [status |-> "DRAFT", total |-> total, account |-> NoAccount]
      <4>1. invoices' = [invoices EXCEPT ![i] = row] /\ row.status = "DRAFT" /\ payments' = payments
        BY <3>1 DEF CreateInvoice
      <4>2. invoices[i].status = "NONE"
        BY <3>1 DEF CreateInvoice, NoInvoice
      <4>. QED
        BY <4>1, <4>2
    <3>2. CASE EditInvoice(i, total)
      <4> DEFINE row == [invoices[i] EXCEPT !.total = total]
      <4>1. invoices' = [invoices EXCEPT ![i] = row] /\ payments' = payments /\ invoices[i].status = "DRAFT"
        BY <3>2 DEF EditInvoice
      <4>2. row.status = "DRAFT"
        BY <4>1, NoRows DEF IInv, Invoice
      <4>. QED
        BY <4>1, <4>2
    <3>. QED
      BY <1>2, <3>1, <3>2
  <2>2. invoices'[i] = row /\ \A j \in Invoices \ {i} : invoices'[j] = invoices[j]
    BY <2>1 DEF IInv, TypeOK
  <2>. QED
    BY <2>1, <2>2, DraftsNotInBook
<1>3. ASSUME NEW r \in Requests, CommitConfirm(r) PROVE Book!Next
  BY <1>3, BookRecognises
<1>4. ASSUME NEW r \in Requests, CommitCancel(r) PROVE Book!Next
  BY <1>4, BookVoids
<1>5. ASSUME NEW r \in Requests, NEW p \in Payments, CommitPayment(r, p) PROVE Book!Next
  BY <1>5, BookSettlesPayment
<1>6. ASSUME NEW p \in Payments, CancelPayment(p) PROVE Book!Next
  BY <1>6, BookUndoes
<1>. QED
  <2>1. CASE UNCHANGED vars
    BY <1>1, <2>1 DEF vars, rows
  <2>2. CASE Next
    BY <1>1, <1>2, <1>3, <1>4, <1>5, <1>6, <2>2
       DEF Next, rows, BeginConfirm, BeginCancel, LockOneInvoice, ResolvePayable, BeginPayment,
           LockNextInvoice, TakeLock, LockSettings, CheckBalance, RollBack
  <2>. QED
    BY <2>1, <2>2

\* Requests that interleave statement by statement do what the book of payables
\* does in one step each: no invoice is ever paid more than it owes.
THEOREM ImplementsBook == Spec => ImplementsPayableBook
<1>1. Init => Book!Init
  BY BookInit
<1>2. IInv /\ [Next]_vars => [Book!Next]_Book!vars
  BY BookStep, PurchaseLedgerAssumption
<1>. QED
  BY <1>1, <1>2, InvariantHolds, PTL DEF Spec, ImplementsPayableBook, Book!Spec

-----------------------------------------------------------------------------
(* Links: what a table of links sums to on a line. *)

\* Both columns of a link that name a line.
LineColumns == {"shipmentLine", "receiptLine"}

LinksOn(table, column, x) == {l \in Links : table[l].status = "ACTIVE" /\ table[l][column] = x}

Quantities(table, set) == [l \in set |-> table[l].quantity]

SumOn(table, column, x) == SumFunction(Quantities(table, LinksOn(table, column, x)))

LinkTable == [Links -> Link \cup {NoLink}]

LEMMA ActiveIsLink ==
  ASSUME NEW table \in LinkTable, NEW l \in Links, table[l].status = "ACTIVE"
  PROVE  /\ table[l] \in Link
         /\ table[l].shipmentLine \in ShipmentLines /\ table[l].receiptLine \in ReceiptLines
         /\ table[l].quantity \in Nat /\ table[l].quantity # 0
  BY DEF LinkTable, Link, NoLink

LEMMA QuantitiesTyped ==
  ASSUME NEW table \in LinkTable, NEW column, NEW x
  PROVE  /\ IsFiniteSet(LinksOn(table, column, x))
         /\ Quantities(table, LinksOn(table, column, x)) \in [LinksOn(table, column, x) -> Nat]
         /\ SumOn(table, column, x) \in Nat
<1>1. LinksOn(table, column, x) \subseteq Links
  BY DEF LinksOn
<1>2. \A l \in LinksOn(table, column, x) : table[l].quantity \in Nat
  BY ActiveIsLink DEF LinksOn
<1>3. /\ IsFiniteSet(LinksOn(table, column, x))
      /\ Quantities(table, LinksOn(table, column, x)) \in [LinksOn(table, column, x) -> Nat]
  BY <1>1, <1>2, FS_Subset, LinksAssumption DEF Quantities
<1>4. SumOn(table, column, x) \in Nat
  BY <1>3, SumNat DEF SumOn
<1>. QED
  BY <1>3, <1>4

\* A new link adds its quantity to its two lines and to no other.
LEMMA NewLinkAdds ==
  ASSUME NEW table \in LinkTable, NEW after \in LinkTable, NEW column \in LineColumns, NEW x,
         NEW l \in Links, table[l] = NoLink, after[l].status = "ACTIVE",
         \A k \in Links \ {l} : after[k] = table[k]
  PROVE  SumOn(after, column, x)
           = IF after[l][column] = x
             THEN after[l].quantity + SumOn(table, column, x)
             ELSE SumOn(table, column, x)
<1> DEFINE old == LinksOn(table, column, x)
           new == LinksOn(after, column, x)
<1>1. l \notin old /\ old \subseteq Links
  BY DEF LinksOn, NoLink
<1>2. /\ IsFiniteSet(new) /\ IsFiniteSet(old)
      /\ Quantities(after, new) \in [new -> Nat] /\ Quantities(table, old) \in [old -> Nat]
  BY QuantitiesTyped
<1>3. CASE after[l][column] = x
  <2>1. new = old \cup {l}
    BY <1>1, <1>3 DEF LinksOn
  <2>2. \A k \in old : Quantities(after, new)[k] = Quantities(table, old)[k]
    BY <1>1, <2>1 DEF Quantities
  <2>3. Quantities(after, new)[l] = after[l].quantity
    BY <2>1 DEF Quantities
  <2> HIDE DEF old, new
  <2>4. HasOneMore(Quantities(after, new), new, Quantities(table, old), old, l)
    BY <1>1, <1>2, <2>1, <2>2 DEF HasOneMore, Addends
  <2>. QED
    BY <1>3, <2>3, <2>4, SumAdd DEF old, new, SumOn
<1>4. CASE after[l][column] # x
  <2>1. new = old
    BY <1>1, <1>4 DEF LinksOn
  <2>2. Quantities(after, new) = Quantities(table, old)
    BY <1>1, <2>1 DEF Quantities
  <2>. QED
    BY <1>4, <2>2 DEF SumOn
<1>. QED
  BY <1>3, <1>4

\* Links that are dropped, and lines that are not theirs, only take from a sum.
LEMMA FewerLinksSumLess ==
  ASSUME NEW table \in LinkTable, NEW after \in LinkTable, NEW column, NEW x,
         LinksOn(after, column, x) \subseteq LinksOn(table, column, x),
         \A l \in LinksOn(after, column, x) : after[l].quantity = table[l].quantity
  PROVE  SumOn(after, column, x)
           <= SumOn(table, column, x)
<1> DEFINE old == LinksOn(table, column, x)
           new == LinksOn(after, column, x)
<1>1. IsFiniteSet(old) /\ Quantities(after, new) \in [new -> Nat] /\ Quantities(table, old) \in [old -> Nat]
  BY QuantitiesTyped
<1>2. new \subseteq old /\ \A l \in new : Quantities(after, new)[l] = Quantities(table, old)[l]
  BY DEF Quantities
<1> HIDE DEF old, new
<1>3. Within(Quantities(after, new), new, Quantities(table, old), old)
  BY <1>1, <1>2 DEF Within
<1>. QED
  BY <1>3, SumOfPart DEF old, new, SumOn

\* A table of links that keeps to the lines, and one to which a command can be added.
KeepsToLines(table) ==
  /\ \A sl \in ShipmentLines : SumOn(table, "shipmentLine", sl) <= Planned[sl]
  /\ \A rl \in ReceiptLines : SumOn(table, "receiptLine", rl) <= Received[rl]
  /\ \A k, l \in Links :
       /\ table[k].status = "ACTIVE" /\ table[l].status = "ACTIVE"
       /\ table[k].shipmentLine = table[l].shipmentLine
       /\ table[k].receiptLine = table[l].receiptLine
       => k = l

HasRoom(table, c) ==
  /\ \A l \in Links : table[l].status = "ACTIVE" =>
       <<table[l].shipmentLine, table[l].receiptLine>> # <<c.shipmentLine, c.receiptLine>>
  /\ SumOn(table, "shipmentLine", c.shipmentLine) + c.quantity <= Planned[c.shipmentLine]
  /\ SumOn(table, "receiptLine", c.receiptLine) + c.quantity <= Received[c.receiptLine]

\* The sums of the code are sums over the table of links.
LEMMA LinkedSums ==
  /\ \A sl : LinkedToShipmentLine(sl) = SumOn(links, "shipmentLine", sl)
  /\ \A rl : LinkedToReceiptLine(rl) = SumOn(links, "receiptLine", rl)
<1>1. \A sl : {l \in ActiveLinks : links[l].shipmentLine = sl} = LinksOn(links, "shipmentLine", sl)
  BY DEF ActiveLinks, LinksOn
<1>2. \A rl : {l \in ActiveLinks : links[l].receiptLine = rl} = LinksOn(links, "receiptLine", rl)
  BY DEF ActiveLinks, LinksOn
<1>. QED
  BY <1>1, <1>2 DEF LinkedToShipmentLine, LinkedToReceiptLine, Linked, Quantities, SumOn

LEMMA FitMeansKeepsToLines == (NeverOverLinked /\ OneActiveLinkPerPair) <=> KeepsToLines(links)
<1>1. NeverOverLinked <=>
        /\ \A sl \in ShipmentLines : SumOn(links, "shipmentLine", sl) <= Planned[sl]
        /\ \A rl \in ReceiptLines : SumOn(links, "receiptLine", rl) <= Received[rl]
  BY LinkedSums DEF NeverOverLinked
<1>. QED
  BY <1>1 DEF OneActiveLinkPerPair, ActiveLinks, KeepsToLines

LEMMA AllowedMeansRoom == \A r \in Linkers : LinkAllowed(command[r]) <=> HasRoom(links, command[r])
BY LinkedSums DEF LinkAllowed, HasRoom, ActiveLinks

LEMMA CommandTyped ==
  ASSUME NEW c \in Command
  PROVE  /\ c.shipmentLine \in ShipmentLines /\ c.receiptLine \in ReceiptLines
         /\ c.quantity \in Nat \ {0} /\ c.key \in ClientKeys \cup {NoKey}
BY LinksAssumption DEF Command

\* As long as no link of the two lines is added, there is room for the command.
LEMMA RoomStays ==
  ASSUME NEW table \in LinkTable, NEW after \in LinkTable, NEW c \in Command, HasRoom(table, c),
         \A l \in Links : after[l].status = "ACTIVE" =>
           \/ after[l] = table[l]
           \/ after[l].shipmentLine # c.shipmentLine /\ after[l].receiptLine # c.receiptLine
  PROVE  HasRoom(after, c)
<1>1. ASSUME NEW column, NEW x,
             \/ column = "shipmentLine" /\ x = c.shipmentLine
             \/ column = "receiptLine" /\ x = c.receiptLine
      PROVE  SumOn(after, column, x) <= SumOn(table, column, x)
  <2>1. /\ LinksOn(after, column, x) \subseteq LinksOn(table, column, x)
        /\ \A l \in LinksOn(after, column, x) : after[l].quantity = table[l].quantity
    BY <1>1 DEF LinksOn
  <2>. QED
    BY <2>1, FewerLinksSumLess
<1>2. /\ \A column, x : SumOn(after, column, x) \in Nat /\ SumOn(table, column, x) \in Nat
      /\ c.quantity \in Nat /\ Planned[c.shipmentLine] \in Nat /\ Received[c.receiptLine] \in Nat
  BY QuantitiesTyped, CommandTyped, LinksAssumption
<1>3. /\ SumOn(after, "shipmentLine", c.shipmentLine) <= SumOn(table, "shipmentLine", c.shipmentLine)
      /\ SumOn(after, "receiptLine", c.receiptLine) <= SumOn(table, "receiptLine", c.receiptLine)
  BY <1>1
<1>. QED
  BY <1>2, <1>3 DEF HasRoom

\* Links that are dropped keep the others to their lines.
LEMMA DroppedKeepsToLines ==
  ASSUME NEW table \in LinkTable, NEW after \in LinkTable, KeepsToLines(table),
         \A l \in Links : after[l].status = "ACTIVE" => after[l] = table[l]
  PROVE  KeepsToLines(after)
<1>1. ASSUME NEW column, NEW x
      PROVE  /\ SumOn(after, column, x) <= SumOn(table, column, x)
             /\ SumOn(after, column, x) \in Nat /\ SumOn(table, column, x) \in Nat
  <2>1. /\ LinksOn(after, column, x) \subseteq LinksOn(table, column, x)
        /\ \A l \in LinksOn(after, column, x) : after[l].quantity = table[l].quantity
    BY DEF LinksOn
  <2>. QED
    BY <2>1, FewerLinksSumLess, QuantitiesTyped
<1>2. /\ \A sl \in ShipmentLines : Planned[sl] \in Nat
      /\ \A rl \in ReceiptLines : Received[rl] \in Nat
  BY LinksAssumption
<1>3. /\ \A sl \in ShipmentLines : SumOn(after, "shipmentLine", sl) <= Planned[sl]
      /\ \A rl \in ReceiptLines : SumOn(after, "receiptLine", rl) <= Received[rl]
  BY <1>1, <1>2 DEF KeepsToLines
<1>. QED
  BY <1>3 DEF KeepsToLines

\* A link for which there was room keeps to its lines.
LEMMA AddedKeepsToLines ==
  ASSUME NEW table \in LinkTable, NEW after \in LinkTable, KeepsToLines(table),
         NEW c \in Command, HasRoom(table, c), NEW l \in Links, table[l] = NoLink,
         after = [table EXCEPT ![l] =
           [status |-> "ACTIVE", shipmentLine |-> c.shipmentLine,
            receiptLine |-> c.receiptLine, quantity |-> c.quantity, key |-> c.key]]
  PROVE  KeepsToLines(after)
<1>1. /\ after[l].status = "ACTIVE" /\ after[l].quantity = c.quantity
      /\ after[l].shipmentLine = c.shipmentLine /\ after[l].receiptLine = c.receiptLine
      /\ \A k \in Links \ {l} : after[k] = table[k]
  BY DEF LinkTable
<1>2. ASSUME NEW column \in LineColumns, NEW x
      PROVE  SumOn(after, column, x) = IF after[l][column] = x
                                       THEN c.quantity + SumOn(table, column, x)
                                       ELSE SumOn(table, column, x)
  <2>1. SumOn(after, column, x) = IF after[l][column] = x
                                  THEN after[l].quantity + SumOn(table, column, x)
                                  ELSE SumOn(table, column, x)
    BY ONLY <1>1, <1>2, after \in LinkTable, table \in LinkTable, table[l] = NoLink,
       l \in Links, NewLinkAdds
  <2>. QED
    BY <1>1, <2>1
<1>3. /\ \A column, x : SumOn(table, column, x) \in Nat
      /\ c.quantity \in Nat /\ c.shipmentLine \in ShipmentLines /\ c.receiptLine \in ReceiptLines
  BY QuantitiesTyped, CommandTyped
<1>4. ASSUME NEW sl \in ShipmentLines PROVE SumOn(after, "shipmentLine", sl) <= Planned[sl]
  <2>1. SumOn(after, "shipmentLine", sl) = IF c.shipmentLine = sl
                                           THEN c.quantity + SumOn(table, "shipmentLine", sl)
                                           ELSE SumOn(table, "shipmentLine", sl)
    BY <1>1, <1>2 DEF LineColumns
  <2>. QED
    BY <1>3, <2>1, LinksAssumption DEF KeepsToLines, HasRoom
<1>5. ASSUME NEW rl \in ReceiptLines PROVE SumOn(after, "receiptLine", rl) <= Received[rl]
  <2>1. SumOn(after, "receiptLine", rl) = IF c.receiptLine = rl
                                          THEN c.quantity + SumOn(table, "receiptLine", rl)
                                          ELSE SumOn(table, "receiptLine", rl)
    BY <1>1, <1>2 DEF LineColumns
  <2>. QED
    BY <1>3, <2>1, LinksAssumption DEF KeepsToLines, HasRoom
<1>6. ASSUME NEW j \in Links, NEW k \in Links,
             after[j].status = "ACTIVE", after[k].status = "ACTIVE",
             after[j].shipmentLine = after[k].shipmentLine,
             after[j].receiptLine = after[k].receiptLine
      PROVE  j = k
  <2>1. j = l \/ k = l => j = k
    BY <1>1, <1>6 DEF HasRoom
  <2>2. j # l /\ k # l => j = k
    BY <1>1, <1>6 DEF KeepsToLines
  <2>. QED
    BY <2>1, <2>2
<1>. QED
  BY <1>4, <1>5, <1>6 DEF KeepsToLines

-----------------------------------------------------------------------------
(* Links: the inductive invariant. *)

\* Who links two lines holds them, and the shipment has arrived for good; once
\* the link has been found to fit, there is room for it until it is written.
HoldsLines(r) ==
  /\ linking[r] \in {"shipmentLine", "lines", "checked"} =>
       /\ command[r] \in Command
       /\ shipmentLineLock[command[r].shipmentLine] = r
       /\ shipmentStatus[command[r].shipmentLine] = "ARRIVED"
  /\ linking[r] \in {"lines", "checked"} => receiptLineLock[command[r].receiptLine] = r
  /\ linking[r] = "checked" => HasRoom(links, command[r])

LinksStand ==
  /\ LinksTyped
  /\ KeepsToLines(links)
  /\ LinkedHasArrived
  /\ \A r \in Linkers : HoldsLines(r)

\* A request that a step leaves alone still holds its lines, and has room.
LEMMA OthersHoldLines ==
  ASSUME NEW s \in Linkers, HoldsLines(s), LinksTyped, LinksTyped',
         linking'[s] = linking[s], command'[s] = command[s],
         \A sl \in ShipmentLines : shipmentLineLock[sl] = s => shipmentLineLock'[sl] = s,
         \A rl \in ReceiptLines : receiptLineLock[rl] = s => receiptLineLock'[rl] = s,
         \A sl \in ShipmentLines : shipmentStatus[sl] = "ARRIVED" => shipmentStatus'[sl] = "ARRIVED",
         linking[s] = "checked" => HasRoom(links', command[s])
  PROVE  HoldsLines(s)'
<1>1. linking[s] \in {"shipmentLine", "lines", "checked"} =>
        command[s].shipmentLine \in ShipmentLines /\ command[s].receiptLine \in ReceiptLines
  BY CommandTyped DEF HoldsLines
<1>. QED
  BY <1>1 DEF HoldsLines

LEMMA LinksStartStanding == LinksInit => LinksStand
<1> SUFFICES ASSUME LinksInit PROVE LinksStand
  OBVIOUS
<1>1. LinksTyped
  BY DEF LinksInit, LinksTyped
<1>2. KeepsToLines(links)
  <2>1. \A l \in Links : links[l].status # "ACTIVE"
    BY DEF LinksInit, NoLink
  <2>2. \A column, x : LinksOn(links, column, x) = {}
    BY <2>1 DEF LinksOn
  <2>3. \A column, x : SumOn(links, column, x) = 0
    BY <2>2, SumNothing DEF SumOn, Quantities
  <2>. QED
    BY <2>1, <2>3, LinksAssumption DEF KeepsToLines
<1>3. LinkedHasArrived
  BY DEF LinksInit, LinkedHasArrived, Exists
<1>4. ASSUME NEW r \in Linkers PROVE HoldsLines(r)
  BY DEF LinksInit, HoldsLines
<1>. QED
  BY <1>1, <1>2, <1>3, <1>4 DEF LinksStand

\* A shipment that moves was not there yet, so those that are there stay.
LEMMA MoveKeepsLinks ==
  ASSUME LinksStand, NEW sl \in ShipmentLines, NEW from, NEW to, "ARRIVED" \notin from,
         to \in {"PLANNED", "IN_TRANSIT", "ARRIVED", "CANCELLED"}, MoveShipment(sl, from, to)
  PROVE  LinksStand'
<1>1. LinksTyped'
  BY DEF LinksStand, LinksTyped, MoveShipment, lineLocks
<1>2. \A x \in ShipmentLines : shipmentStatus[x] = "ARRIVED" => shipmentStatus'[x] = "ARRIVED"
  BY DEF LinksStand, LinksTyped, MoveShipment
<1>3. KeepsToLines(links')
  BY DEF LinksStand, MoveShipment
<1>4. LinkedHasArrived'
  BY <1>2 DEF LinksStand, LinksTyped, Link, MoveShipment, LinkedHasArrived, Exists
<1>5. ASSUME NEW r \in Linkers PROVE HoldsLines(r)'
  BY <1>1, <1>2, OthersHoldLines DEF LinksStand, MoveShipment, lineLocks, HoldsLines
<1>. QED
  BY <1>1, <1>3, <1>4, <1>5 DEF LinksStand

\* What an ending request leaves behind, when the rows it leaves stand.
LEMMA EndKeepsLinks ==
  ASSUME LinksStand, NEW r \in Linkers, EndLinking(r),
         shipmentStatus' = shipmentStatus, links' \in LinkTable,
         receiptStatus' \in [Receipts -> {"ACTIVE", "CANCELLED"}],
         KeepsToLines(links'), LinkedHasArrived',
         \A s \in Linkers \ {r} : linking[s] = "checked" => HasRoom(links', command[s])
  PROVE  LinksStand'
<1>1. LinksTyped'
  BY DEF LinksStand, LinksTyped, LinkTable, EndLinking, Freed, GoOn
<1>2. ASSUME NEW s \in Linkers PROVE HoldsLines(s)'
  <2>1. CASE s = r
    BY <2>1 DEF LinksStand, LinksTyped, EndLinking, GoOn, HoldsLines
  <2>2. CASE s # r
    <3>1. linking'[s] = linking[s] /\ command'[s] = command[s]
      BY <2>2 DEF LinksStand, LinksTyped, EndLinking, GoOn
    <3>2. /\ \A sl \in ShipmentLines : shipmentLineLock[sl] = s => shipmentLineLock'[sl] = s
          /\ \A rl \in ReceiptLines : receiptLineLock[rl] = s => receiptLineLock'[rl] = s
      BY <2>2 DEF LinksStand, LinksTyped, EndLinking, Freed
    <3>. QED
      BY <1>1, <2>2, <3>1, <3>2, OthersHoldLines DEF LinksStand
  <2>. QED
    BY <2>1, <2>2
<1>. QED
  BY <1>1, <1>2 DEF LinksStand

\* What a request may rely on that goes on and writes no row.
LEMMA GoingOnKeepsLinks ==
  ASSUME LinksStand, LinksTyped', NEW r \in Linkers, UNCHANGED linkRows,
         \A s \in Linkers \ {r} : linking'[s] = linking[s] /\ command'[s] = command[s],
         \A sl \in ShipmentLines : shipmentLineLock[sl] # NoLinker => shipmentLineLock'[sl] = shipmentLineLock[sl],
         \A rl \in ReceiptLines : receiptLineLock[rl] # NoLinker => receiptLineLock'[rl] = receiptLineLock[rl],
         HoldsLines(r)'
  PROVE  LinksStand'
<1>1. LinkedHasArrived' /\ KeepsToLines(links')
  BY DEF LinksStand, LinkedHasArrived, Exists, linkRows
<1>2. ASSUME NEW s \in Linkers \ {r} PROVE HoldsLines(s)'
  <2>1. linking[s] = "checked" => HasRoom(links', command[s])
    BY DEF LinksStand, HoldsLines, linkRows
  <2>2. /\ \A sl \in ShipmentLines : shipmentLineLock[sl] = s => shipmentLineLock'[sl] = s
        /\ \A rl \in ReceiptLines : receiptLineLock[rl] = s => receiptLineLock'[rl] = s
        /\ \A sl \in ShipmentLines : shipmentStatus[sl] = "ARRIVED" => shipmentStatus'[sl] = "ARRIVED"
    BY LinksAssumption DEF linkRows
  <2>3. HoldsLines(s) /\ LinksTyped
    BY DEF LinksStand
  <2>. QED
    BY <2>1, <2>2, <2>3, OthersHoldLines
<1>. QED
  BY <1>1, <1>2 DEF LinksStand

LEMMA LockShipmentLineKeepsLinks ==
  ASSUME LinksStand, NEW r \in Linkers, NEW c \in Command, LockShipmentLine(r, c)
  PROVE  LinksStand'
<1>1. LinksTyped'
  BY CommandTyped DEF LinksStand, LinksTyped, LockShipmentLine, linkRows, GoOn
<1>2. HoldsLines(r)'
  BY CommandTyped DEF LinksStand, LinksTyped, LockShipmentLine, linkRows, GoOn, HoldsLines
<1>3. \A s \in Linkers \ {r} : linking'[s] = linking[s] /\ command'[s] = command[s]
  BY DEF LinksStand, LinksTyped, LockShipmentLine, GoOn
<1>4. \A sl \in ShipmentLines : shipmentLineLock[sl] # NoLinker => shipmentLineLock'[sl] = shipmentLineLock[sl]
  BY DEF LinksStand, LinksTyped, LockShipmentLine
<1>. QED
  BY <1>1, <1>2, <1>3, <1>4, GoingOnKeepsLinks DEF LockShipmentLine

LEMMA LockReceiptLineKeepsLinks ==
  ASSUME LinksStand, NEW r \in Linkers, LockReceiptLine(r)
  PROVE  LinksStand'
<1>0. command[r].receiptLine \in ReceiptLines /\ HoldsLines(r) /\ LinksTyped
  BY CommandTyped DEF LinksStand, HoldsLines, LockReceiptLine
<1>1. LinksTyped'
  BY <1>0 DEF LinksTyped, LockReceiptLine, linkRows, GoOn
<1>2. HoldsLines(r)'
  BY <1>0 DEF LinksTyped, LockReceiptLine, linkRows, GoOn, HoldsLines
<1>3. \A s \in Linkers \ {r} : linking'[s] = linking[s] /\ command'[s] = command[s]
  BY <1>0 DEF LinksTyped, LockReceiptLine, GoOn
<1>4. \A rl \in ReceiptLines : receiptLineLock[rl] # NoLinker => receiptLineLock'[rl] = receiptLineLock[rl]
  BY <1>0 DEF LinksTyped, LockReceiptLine
<1>. QED
  BY <1>1, <1>2, <1>3, <1>4, GoingOnKeepsLinks DEF LockReceiptLine

LEMMA CheckLinkKeepsLinks ==
  ASSUME LinksStand, NEW r \in Linkers, CheckLink(r)
  PROVE  LinksStand'
<1>1. LinksTyped'
  BY DEF LinksStand, LinksTyped, CheckLink, linkRows, lineLocks, GoOn
<1>2. HoldsLines(r)'
  BY AllowedMeansRoom DEF LinksStand, LinksTyped, CheckLink, linkRows, lineLocks, GoOn, HoldsLines
<1>3. \A s \in Linkers \ {r} : linking'[s] = linking[s] /\ command'[s] = command[s]
  BY DEF LinksStand, LinksTyped, CheckLink, GoOn
<1>. QED
  BY <1>1, <1>2, <1>3, GoingOnKeepsLinks DEF CheckLink, lineLocks

LEMMA LockReceiptKeepsLinks ==
  ASSUME LinksStand, NEW r \in Linkers, NEW rc \in Receipts, LockReceipt(r, rc)
  PROVE  LinksStand'
<1>1. LinksTyped'
  BY DEF LinksStand, LinksTyped, LockReceipt, linkRows, GoOn
<1>2. HoldsLines(r)'
  BY DEF LinksStand, LinksTyped, LockReceipt, linkRows, GoOn, HoldsLines
<1>3. \A s \in Linkers \ {r} : linking'[s] = linking[s] /\ command'[s] = command[s]
  BY DEF LinksStand, LinksTyped, LockReceipt, GoOn
<1>. QED
  BY <1>1, <1>2, <1>3, GoingOnKeepsLinks DEF LockReceipt

LEMMA CheckNoActiveLinkKeepsLinks ==
  ASSUME LinksStand, NEW r \in Linkers, CheckNoActiveLink(r)
  PROVE  LinksStand'
<1>1. LinksTyped'
  BY DEF LinksStand, LinksTyped, CheckNoActiveLink, linkRows, lineLocks, GoOn
<1>2. HoldsLines(r)'
  BY DEF LinksStand, LinksTyped, CheckNoActiveLink, linkRows, lineLocks, GoOn, HoldsLines
<1>3. \A s \in Linkers \ {r} : linking'[s] = linking[s] /\ command'[s] = command[s]
  BY DEF LinksStand, LinksTyped, CheckNoActiveLink, GoOn
<1>. QED
  BY <1>1, <1>2, <1>3, GoingOnKeepsLinks DEF CheckNoActiveLink, lineLocks

\* Requests that end without writing a link.
LEMMA EndsWithoutLink ==
  ASSUME LinksStand, NEW r \in Linkers,
         RepeatLink(r) \/ CommitCancelReceipt(r) \/ RollBackLinking(r)
  PROVE  LinksStand'
<1>1. /\ EndLinking(r) /\ shipmentStatus' = shipmentStatus /\ links' = links
      /\ receiptStatus' \in [Receipts -> {"ACTIVE", "CANCELLED"}]
  BY DEF LinksStand, LinksTyped, RepeatLink, CommitCancelReceipt, RollBackLinking, linkRows
<1>2. links' \in LinkTable /\ KeepsToLines(links') /\ LinkedHasArrived'
  BY <1>1 DEF LinksStand, LinksTyped, LinkTable, LinkedHasArrived, Exists
<1>3. \A s \in Linkers \ {r} : linking[s] = "checked" => HasRoom(links', command[s])
  BY <1>1 DEF LinksStand, HoldsLines
<1>. QED
  BY <1>1, <1>2, <1>3, EndKeepsLinks

\* The link that is written has room, and it takes none from the requests
\* that hold other lines.
LEMMA CommitLinkKeepsLinks ==
  ASSUME LinksStand, NEW r \in Linkers, NEW l \in Links, CommitLink(r, l)
  PROVE  LinksStand'
<1> DEFINE c == command[r]
           new == [status |-> "ACTIVE", shipmentLine |-> c.shipmentLine,
                   receiptLine |-> c.receiptLine, quantity |-> c.quantity, key |-> c.key]
<1>1. /\ c \in Command /\ HasRoom(links, c)
      /\ shipmentLineLock[c.shipmentLine] = r /\ receiptLineLock[c.receiptLine] = r
      /\ shipmentStatus[c.shipmentLine] = "ARRIVED"
      /\ links \in LinkTable /\ KeepsToLines(links) /\ LinkedHasArrived
  BY DEF LinksStand, LinksTyped, LinkTable, HoldsLines, CommitLink
<1>2. /\ links[l] = NoLink /\ links' = [links EXCEPT ![l] = new] /\ EndLinking(r)
      /\ shipmentStatus' = shipmentStatus /\ receiptStatus' = receiptStatus
  BY DEF CommitLink, Exists
<1>3. new \in Link /\ links' \in LinkTable
  BY <1>1, <1>2, CommandTyped DEF Link, LinkTable
<1>4. KeepsToLines(links')
  BY <1>1, <1>2, <1>3, AddedKeepsToLines
<1>5. LinkedHasArrived'
  <2>1. /\ links'[l].shipmentLine = c.shipmentLine
        /\ \A k \in Links \ {l} : links'[k] = links[k]
    BY <1>1, <1>2 DEF LinkTable
  <2>. QED
    BY <1>1, <1>2, <2>1 DEF LinkedHasArrived, Exists
<1>6. ASSUME NEW s \in Linkers \ {r}, linking[s] = "checked"
      PROVE  HasRoom(links', command[s])
  <2>1. /\ command[s] \in Command /\ HasRoom(links, command[s])
        /\ shipmentLineLock[command[s].shipmentLine] = s
        /\ receiptLineLock[command[s].receiptLine] = s
    BY <1>6 DEF LinksStand, HoldsLines
  <2>2. c.shipmentLine # command[s].shipmentLine /\ c.receiptLine # command[s].receiptLine
    BY <1>1, <2>1
  <2>3. \A k \in Links : links'[k] = links[k] \/ links'[k] = new
    BY <1>1, <1>2 DEF LinkTable
  <2>4. \A k \in Links : \/ links'[k] = links[k]
                        \/ /\ links'[k].shipmentLine # command[s].shipmentLine
                           /\ links'[k].receiptLine # command[s].receiptLine
    BY <2>2, <2>3
  <2>. QED
    BY <1>1, <1>3, <2>1, <2>4, RoomStays
<1>7. receiptStatus' \in [Receipts -> {"ACTIVE", "CANCELLED"}]
  BY <1>2 DEF LinksStand, LinksTyped
<1>. QED
  BY <1>2, <1>3, <1>4, <1>5, <1>6, <1>7, EndKeepsLinks

\* A link that is cancelled only makes room.
LEMMA CancelLinkKeepsLinks ==
  ASSUME LinksStand, NEW l \in Links, CancelLink(l)
  PROVE  LinksStand'
<1>1. links \in LinkTable /\ links[l] \in Link
  BY DEF LinksStand, LinksTyped, LinkTable, CancelLink, Exists
<1>2. /\ links' \in LinkTable
      /\ \A k \in Links \ {l} : links'[k] = links[k]
      /\ links'[l].status = "CANCELLED" /\ links'[l].shipmentLine = links[l].shipmentLine
  BY <1>1 DEF CancelLink, LinkTable, Link
<1>3. \A k \in Links : links'[k].status = "ACTIVE" => links'[k] = links[k]
  BY <1>2
<1>4. KeepsToLines(links')
  BY <1>1, <1>2, <1>3, DroppedKeepsToLines DEF LinksStand
<1>5. LinksTyped'
  BY <1>2 DEF LinksStand, LinksTyped, LinkTable, CancelLink, lineLocks
<1>6. LinkedHasArrived'
  BY <1>2 DEF LinksStand, LinkedHasArrived, Exists, CancelLink
<1>7. ASSUME NEW s \in Linkers PROVE HoldsLines(s)'
  <2>1. HoldsLines(s) /\ LinksTyped
    BY DEF LinksStand
  <2>2. linking[s] = "checked" => HasRoom(links', command[s])
    BY <1>1, <1>2, <1>3, <2>1, RoomStays DEF HoldsLines
  <2>. QED
    BY <1>5, <2>1, <2>2, OthersHoldLines DEF CancelLink, lineLocks
<1>. QED
  BY <1>4, <1>5, <1>6, <1>7 DEF LinksStand

LEMMA EveryStepKeepsLinks ==
  ASSUME LinksStand, [LinksNext]_linkVars
  PROVE  LinksStand'
<1>1. CASE UNCHANGED linkVars
  BY <1>1 DEF linkVars, linkRows, lineLocks, LinksStand, LinksTyped, LinkedHasArrived, Exists, HoldsLines
<1>2. ASSUME NEW sl \in ShipmentLines, DepartShipment(sl) \/ ArriveShipment(sl) \/ CancelShipment(sl)
      PROVE  LinksStand'
  <2>1. PICK from \in {{"PLANNED"}, {"PLANNED", "IN_TRANSIT"}}, to \in {"IN_TRANSIT", "ARRIVED", "CANCELLED"} :
          MoveShipment(sl, from, to)
    BY <1>2 DEF DepartShipment, ArriveShipment, CancelShipment
  <2>. QED
    BY <2>1, MoveKeepsLinks
<1>. QED
  BY <1>1, <1>2, CancelLinkKeepsLinks, LockShipmentLineKeepsLinks, LockReceiptLineKeepsLinks,
     EndsWithoutLink, CheckLinkKeepsLinks, CommitLinkKeepsLinks, LockReceiptKeepsLinks,
     CheckNoActiveLinkKeepsLinks DEF LinksNext

\* Links of shipment lines and receipt lines stay within the quantities of
\* both lines, none is there twice and all of them have arrived, although each
\* link is checked and written in a transaction of its own
\* (ImportReceiptLinksService.create and cancel, PurchaseReceiptsService.cancel).
THEOREM LinksKeepFitting == LinksSpec => []LinksFit
<1>1. LinksInit => LinksStand
  BY LinksStartStanding
<1>2. LinksStand /\ [LinksNext]_linkVars => LinksStand'
  BY EveryStepKeepsLinks
<1>3. LinksStand => LinksFit
  BY FitMeansKeepsToLines DEF LinksStand, LinksFit
<1>. QED
  BY <1>1, <1>2, <1>3, PTL DEF LinksSpec

-----------------------------------------------------------------------------
(* Costs: what the lines of shipments plan of the lines of invoices. *)

LineRecord == [shipment : Shipments, planned : Nat \ {0}, item : Items \cup {NoItem},
               WEIGHT : Nat \cup {Unmeasured}, VOLUME : Nat \cup {Unmeasured}, links : Seq(Nat)]

LineTables == UNION {[ls -> LineRecord] : ls \in SUBSET (1..MaxLines)}

\* Shipped
Counted(table, ships, i, except) ==
  {l \in DOMAIN table : /\ table[l].shipment \notin except
                        /\ ships[table[l].shipment].status # "CANCELLED"
                        /\ table[l].item = i}

Plans(table, ls) == [l \in ls |-> table[l].planned]

ShippedBy(table, ships, i, except) == SumFunction(Plans(table, Counted(table, ships, i, except)))

\* RequestedOf
Naming(i, content) == {k \in DOMAIN content : content[k].item = i}

LEMMA TotalIsSum == \A f : Total(f) = SumFunction(f)
BY DEF Total, FoldFunction, SumFunction, SumFunctionOnSet

LEMMA TableTyped ==
  ASSUME NEW table \in LineTables
  PROVE  /\ DOMAIN table \subseteq 1..MaxLines /\ IsFiniteSet(DOMAIN table)
         /\ \A l \in DOMAIN table : table[l] \in LineRecord
<1>1. DOMAIN table \subseteq 1..MaxLines /\ \A l \in DOMAIN table : table[l] \in LineRecord
  BY DEF LineTables
<1>. QED
  BY <1>1, FS_Interval, FS_Subset, ImportCostsAssumption

LEMMA ShippedTyped ==
  ASSUME NEW table \in LineTables, NEW ships, NEW i, NEW except
  PROVE  /\ IsFiniteSet(Counted(table, ships, i, except))
         /\ Plans(table, Counted(table, ships, i, except)) \in [Counted(table, ships, i, except) -> Nat]
         /\ ShippedBy(table, ships, i, except) \in Nat
<1>1. Counted(table, ships, i, except) \subseteq DOMAIN table
  BY DEF Counted
<1>2. /\ IsFiniteSet(Counted(table, ships, i, except))
      /\ Plans(table, Counted(table, ships, i, except)) \in [Counted(table, ships, i, except) -> Nat]
  BY <1>1, TableTyped, FS_Subset DEF Plans, LineRecord
<1>. QED
  BY <1>2, SumNat DEF ShippedBy

LEMMA ShippedIsSum == \A i, except : Shipped(i, except) = ShippedBy(line, shipment, i, except)
<1>1. ASSUME NEW i, NEW except
      PROVE  Shipped(i, except) = ShippedBy(line, shipment, i, except)
  <2>1. {l \in {l \in DOMAIN line : /\ line[l].shipment \notin except
                                    /\ shipment[line[l].shipment].status # "CANCELLED"} : line[l].item = i}
          = Counted(line, shipment, i, except)
    BY DEF Counted
  <2>. QED
    BY <2>1, TotalIsSum DEF Shipped, PlannedOf, ShippedBy, Plans
<1>. QED
  BY <1>1

\* Lines that count no more only take from what is shipped.
LEMMA FewerLinesShipLess ==
  ASSUME NEW table \in LineTables, NEW ships, NEW after \in LineTables, NEW shipsAfter,
         NEW i, NEW x, NEW y,
         \A l \in Counted(after, shipsAfter, i, x) :
           l \in Counted(table, ships, i, y) /\ after[l].planned = table[l].planned
  PROVE  ShippedBy(after, shipsAfter, i, x) <= ShippedBy(table, ships, i, y)
<1> DEFINE old == Counted(table, ships, i, y)
           new == Counted(after, shipsAfter, i, x)
<1>1. IsFiniteSet(old) /\ Plans(table, old) \in [old -> Nat] /\ Plans(after, new) \in [new -> Nat]
  BY ShippedTyped
<1>2. new \subseteq old /\ \A l \in new : Plans(after, new)[l] = Plans(table, old)[l]
  BY DEF Plans
<1> HIDE DEF old, new
<1>3. Within(Plans(after, new), new, Plans(table, old), old)
  BY <1>1, <1>2 DEF Within
<1>. QED
  BY <1>3, SumOfPart DEF old, new, ShippedBy

-----------------------------------------------------------------------------
(* Costs: lines that are inserted. *)

\* A finite set of numbers that is not empty has a greatest one.
LEMMA GreatestExists ==
  ASSUME NEW D \in SUBSET Nat, IsFiniteSet(D), D # {}
  PROVE  LastOf(D) \in D /\ \A j \in D : j <= LastOf(D)
<1> DEFINE T == {s \in SUBSET D : s # {} => \E k \in s : \A j \in s : j <= k}
<1>1. {} \in T
  OBVIOUS
<1>2. ASSUME NEW s \in SUBSET D, \A x \in s : s \ {x} \in T PROVE s \in T
  <2>1. SUFFICES ASSUME s # {} PROVE \E k \in s : \A j \in s : j <= k
    OBVIOUS
  <2>2. PICK x \in s : TRUE
    BY <2>1
  <2>3. CASE s \ {x} = {}
    <3>1. \A j \in s : j = x /\ j \in Nat
      BY <2>3
    <3>. QED
      BY <2>2, <3>1
  <2>4. CASE s \ {x} # {}
    <3>1. PICK m \in s \ {x} : \A j \in s \ {x} : j <= m
      BY <1>2, <2>4
    <3>2. x \in Nat /\ m \in Nat /\ \A j \in s : j \in Nat
      OBVIOUS
    <3>3. CASE x <= m
      BY <3>1, <3>3
    <3>4. CASE m <= x
      <4>1. \A j \in s : j <= x
        BY <3>1, <3>2, <3>4
      <4>. QED
        BY <2>2, <4>1
    <3>. QED
      BY <3>2, <3>3, <3>4
  <2>. QED
    BY <2>3, <2>4
<1> HIDE DEF T
<1>3. D \in T
  BY <1>1, <1>2, SubsetsBySize
<1>. QED
  BY <1>3 DEF T, LastOf

\* As many numbers as there are can be taken in ascending order.
LEMMA NumbersExist ==
  ASSUME NEW D \in SUBSET Nat, IsFiniteSet(D), NEW n \in Nat, Cardinality(D) >= n
  PROVE  \E f \in [1..n -> D] : \A j, k \in 1..n : j < k => f[j] < f[k]
<1> DEFINE Ascending(s, m) == \E f \in [1..m -> s] : \A j, k \in 1..m : j < k => f[j] < f[k]
           T == {m \in Nat : \A s \in SUBSET D : Cardinality(s) >= m => Ascending(s, m)}
<1>1. 0 \in T
  <2>1. ASSUME NEW s PROVE Ascending(s, 0)
    <3> DEFINE f == [j \in 1..0 |-> j]
    <3>1. f \in [1..0 -> s] /\ \A j, k \in 1..0 : j < k => f[j] < f[k]
      OBVIOUS
    <3> HIDE DEF f
    <3>. QED
      BY <3>1
  <2> HIDE DEF Ascending
  <2>. QED
    BY <2>1
<1>2. ASSUME NEW m \in T PROVE m + 1 \in T
  <2>1. SUFFICES ASSUME NEW s \in SUBSET D, Cardinality(s) >= m + 1 PROVE Ascending(s, m + 1)
    OBVIOUS
  <2>2. IsFiniteSet(s) /\ Cardinality(s) \in Nat
    BY FS_Subset, FS_CardinalityType
  <2>3. s # {}
    BY <2>1, <2>2, FS_EmptySet
  <2>4. LastOf(s) \in s /\ \A j \in s : j <= LastOf(s)
    BY <2>2, <2>3, GreatestExists
  <2>5. Cardinality(s \ {LastOf(s)}) = Cardinality(s) - 1
    BY <2>2, <2>4, FS_RemoveElement
  <2>6. PICK f \in [1..m -> s \ {LastOf(s)}] : \A j, k \in 1..m : j < k => f[j] < f[k]
    BY <2>1, <2>2, <2>5
  <2> DEFINE g == [j \in 1..(m + 1) |-> IF j = m + 1 THEN LastOf(s) ELSE f[j]]
  <2>7. g \in [1..(m + 1) -> s]
    BY <2>4
  <2>8. ASSUME NEW j \in 1..(m + 1), NEW k \in 1..(m + 1), j < k PROVE g[j] < g[k]
    <3>1. CASE k = m + 1
      <4>1. f[j] \in s \ {LastOf(s)} /\ g[j] = f[j] /\ g[k] = LastOf(s)
        BY <2>8, <3>1
      <4>2. f[j] <= LastOf(s) /\ f[j] # LastOf(s) /\ f[j] \in Nat /\ LastOf(s) \in Nat
        BY <2>4, <4>1
      <4> HIDE DEF g
      <4>. QED
        BY <4>1, <4>2
    <3>2. CASE k # m + 1
      <4>1. j \in 1..m /\ k \in 1..m /\ g[j] = f[j] /\ g[k] = f[k]
        BY <2>8, <3>2
      <4> HIDE DEF g
      <4>. QED
        BY <2>6, <2>8, <4>1
    <3>. QED
      BY <3>1, <3>2
  <2> HIDE DEF g
  <2>. QED
    BY <2>7, <2>8
<1> HIDE DEF T
<1>3. T = Nat
  <2>1. T \subseteq Nat
    BY DEF T
  <2>. QED
    BY <1>1, <1>2, <2>1, SetOfNaturals
<1>4. D \in SUBSET D /\ n \in T
  BY <1>3
<1>. QED
  BY <1>4 DEF T

\* The table after has the lines of content, numbered by new, in place of old.
Replaces(after, table, old, s, content, new) ==
  /\ after \in LineTables
  /\ \A k \in DOMAIN content : new[k] \notin DOMAIN table \ old
  /\ \A j, k \in DOMAIN content : new[j] = new[k] => j = k
  /\ DOMAIN after = (DOMAIN table \ old) \cup {new[k] : k \in DOMAIN content}
  /\ \A l \in DOMAIN table \ old : after[l] = table[l]
  /\ \A k \in DOMAIN content : /\ after[new[k]].shipment = s
                               /\ after[new[k]].planned = content[k].planned
                               /\ after[new[k]].item = content[k].item

ContentLine == [planned : Nat \ {0}, item : Items \cup {NoItem},
                WEIGHT : Nat \cup {Unmeasured}, VOLUME : Nat \cup {Unmeasured}]

LEMMA ContentTyped ==
  ASSUME NEW content \in Contents
  PROVE  /\ Len(content) \in Nat /\ DOMAIN content = 1..Len(content) /\ IsFiniteSet(DOMAIN content)
         /\ \A k \in DOMAIN content : content[k] \in ContentLine
<1>1. content \in Seq(ContentLine)
  BY ImportCostsAssumption DEF ContentLine
<1>2. Len(content) \in Nat /\ DOMAIN content = 1..Len(content)
  BY <1>1
<1>3. \A k \in DOMAIN content : content[k] \in ContentLine
  BY <1>1
<1>. QED
  BY <1>2, <1>3, FS_Interval

LEMMA RequestedTyped ==
  ASSUME NEW content \in Contents, NEW i
  PROVE  /\ IsFiniteSet(Naming(i, content))
         /\ Plans(content, Naming(i, content)) \in [Naming(i, content) -> Nat]
         /\ RequestedOf(i, content) = SumFunction(Plans(content, Naming(i, content)))
         /\ RequestedOf(i, content) \in Nat
         /\ RequestedOf(i, content) # 0 => Naming(i, content) # {}
<1>1. Naming(i, content) \subseteq DOMAIN content
  BY DEF Naming
<1>2. /\ IsFiniteSet(Naming(i, content))
      /\ Plans(content, Naming(i, content)) \in [Naming(i, content) -> Nat]
  BY <1>1, ContentTyped, FS_Subset DEF Plans, ContentLine
<1>3. RequestedOf(i, content) = SumFunction(Plans(content, Naming(i, content)))
  BY TotalIsSum DEF RequestedOf, Plans, Naming
<1>4. Naming(i, content) = {} => SumFunction(Plans(content, Naming(i, content))) = 0
  BY SumNothing DEF Plans
<1>. QED
  BY <1>2, <1>3, <1>4, SumNat

\* A request plans what its content asks for, and its lines hold new numbers.
LEMMA WithLinesReplaces ==
  ASSUME line \in LineTables, NEW old, NEW s \in Shipments, NEW content \in Contents,
         Cardinality(FreshLines(old)) >= Len(content)
  PROVE  \E new : Replaces(WithLines(old, s, content), line, old, s, content, new)
<1> DEFINE fresh == FreshLines(old)
           new == CHOOSE f \in [1..Len(content) -> fresh] :
                    \A j, k \in 1..Len(content) : j < k => f[j] < f[k]
           after == WithLines(old, s, content)
<1>1. /\ fresh \subseteq 1..MaxLines /\ fresh \cap (DOMAIN line \ old) = {}
      /\ fresh \in SUBSET Nat /\ IsFiniteSet(fresh)
  <2>1. fresh \subseteq 1..MaxLines /\ fresh \cap (DOMAIN line \ old) = {}
    BY DEF FreshLines
  <2>2. 1..MaxLines \in SUBSET Nat /\ IsFiniteSet(1..MaxLines)
    BY FS_Interval, ImportCostsAssumption
  <2> HIDE DEF fresh
  <2>. QED
    BY <2>1, <2>2, FS_Subset
<1>2. /\ new \in [1..Len(content) -> fresh]
      /\ \A j, k \in 1..Len(content) : j < k => new[j] < new[k]
  <2>1. \E f \in [1..Len(content) -> fresh] : \A j, k \in 1..Len(content) : j < k => f[j] < f[k]
    BY <1>1, ContentTyped, NumbersExist
  <2> HIDE DEF fresh
  <2>. QED
    BY <2>1
<1>3. after = [l \in (DOMAIN line \ old) \cup Range(new) |->
                 IF l \in Range(new)
                 THEN LET c == content[CHOOSE k \in DOMAIN new : new[k] = l]
                      IN  [shipment |-> s, planned |-> c.planned, item |-> c.item,
                           WEIGHT |-> c.WEIGHT, VOLUME |-> c.VOLUME, links |-> <<>>]
                 ELSE line[l]]
  BY DEF WithLines
<1> HIDE DEF fresh, new, after
<1>4. /\ DOMAIN content = 1..Len(content) /\ DOMAIN new = DOMAIN content
      /\ Range(new) = {new[k] : k \in DOMAIN content}
      /\ Range(new) \subseteq fresh
      /\ \A k \in DOMAIN content : new[k] \in fresh
  BY <1>2, ContentTyped DEF Range
<1>5. \A j, k \in DOMAIN content : new[j] = new[k] => j = k
  <2>1. \A j \in DOMAIN content : j \in Int /\ new[j] \in Int
    <3>1. \A j \in DOMAIN content : new[j] \in Nat
      BY <1>1, <1>4
    <3>2. \A j \in 1..Len(content) : j \in Int
      BY ContentTyped
    <3>. QED
      BY <1>4, <3>1, <3>2
  <2>. QED
    BY <1>2, <1>4, <2>1
<1>6. ASSUME NEW k \in DOMAIN content
      PROVE  /\ after[new[k]] \in LineRecord /\ after[new[k]].shipment = s
             /\ after[new[k]].planned = content[k].planned
             /\ after[new[k]].item = content[k].item
  <2>1. new[k] \in Range(new)
    BY <1>4
  <2>2. (CHOOSE j \in DOMAIN new : new[j] = new[k]) = k
    BY <1>4, <1>5
  <2>3. after[new[k]] = [shipment |-> s, planned |-> content[k].planned, item |-> content[k].item,
                         WEIGHT |-> content[k].WEIGHT, VOLUME |-> content[k].VOLUME, links |-> <<>>]
    BY <1>3, <2>1, <2>2
  <2>4. /\ content[k].planned \in Nat \ {0} /\ content[k].item \in Items \cup {NoItem}
        /\ content[k].WEIGHT \in Nat \cup {Unmeasured} /\ content[k].VOLUME \in Nat \cup {Unmeasured}
    BY ContentTyped DEF ContentLine
  <2>5. <<>> \in Seq(Nat)
    OBVIOUS
  <2>. QED
    BY ONLY s \in Shipments, <2>3, <2>4, <2>5 DEF LineRecord
<1>7. DOMAIN after = (DOMAIN line \ old) \cup Range(new)
  BY <1>3
<1>8. \A l \in DOMAIN line \ old : after[l] = line[l]
  BY <1>1, <1>3, <1>4
<1>9. after \in LineTables
  <2>1. ASSUME NEW l \in DOMAIN after PROVE after[l] \in LineRecord
    <3>1. CASE l \in DOMAIN line \ old
      BY <1>8, <3>1, TableTyped
    <3>2. CASE l \in Range(new)
      <4>1. PICK k \in DOMAIN content : l = new[k]
        BY <1>4, <3>2
      <4>. QED
        BY <1>6, <4>1
    <3>. QED
      BY <1>7, <3>1, <3>2
  <2>2. DOMAIN after \subseteq 1..MaxLines
    BY <1>1, <1>4, <1>7, TableTyped
  <2>3. after = [l \in DOMAIN after |-> after[l]]
    BY <1>3
  <2>4. after \in [DOMAIN after -> LineRecord]
    BY <2>1, <2>3
  <2>. QED
    BY <2>2, <2>4 DEF LineTables
<1>10. Replaces(after, line, old, s, content, new)
  <2>1. \A k \in DOMAIN content : new[k] \notin DOMAIN line \ old
    BY <1>1, <1>4
  <2>3. DOMAIN after = (DOMAIN line \ old) \cup {new[k] : k \in DOMAIN content}
    BY <1>4, <1>7
  <2>. QED
    BY <1>5, <1>6, <1>8, <1>9, <2>1, <2>3 DEF Replaces
<1>. QED
  BY <1>10 DEF after

\* What is shipped after the lines of s have been replaced.
LEMMA ReplacedShips ==
  ASSUME NEW table \in LineTables, NEW ships, NEW after, NEW shipsAfter, NEW s \in Shipments,
         NEW content \in Contents, NEW new, NEW old, NEW x, NEW i,
         Replaces(after, table, old, s, content, new),
         old = {l \in DOMAIN table : table[l].shipment = s},
         shipsAfter[s].status # "CANCELLED", s \notin x,
         \A t \in Shipments \ {s} : shipsAfter[t].status = ships[t].status
  PROVE  ShippedBy(after, shipsAfter, i, x) = ShippedBy(table, ships, i, x \cup {s}) + RequestedOf(i, content)
<1> DEFINE C == Counted(table, ships, i, x \cup {s})
           N == Naming(i, content)
           E == {new[k] : k \in N}
           D == Counted(after, shipsAfter, i, x)
<1>1. after \in LineTables
  BY DEF Replaces
<1>2. /\ IsFiniteSet(C) /\ Plans(table, C) \in [C -> Nat]
      /\ IsFiniteSet(D) /\ Plans(after, D) \in [D -> Nat]
      /\ IsFiniteSet(N) /\ Plans(content, N) \in [N -> Nat]
      /\ RequestedOf(i, content) = SumFunction(Plans(content, N))
  BY <1>1, ShippedTyped, RequestedTyped
<1>3. N \subseteq DOMAIN content
  BY DEF Naming
<1>4. D = C \cup E /\ C \cap E = {}
  <2>1. \A l \in DOMAIN table : table[l].shipment \in Shipments
    BY TableTyped DEF LineRecord
  <2>2. C \subseteq DOMAIN table \ old /\ C \cap E = {}
    BY <1>3 DEF Counted, Replaces
  <2>3. C \subseteq D
    BY <2>1, <2>2 DEF Counted, Replaces
  <2>4. E \subseteq D
    BY <1>3 DEF Counted, Replaces, Naming
  <2>5. ASSUME NEW l \in D PROVE l \in C \cup E
    <3>1. CASE l \in DOMAIN table \ old
      <4>1. after[l] = table[l] /\ table[l].shipment # s /\ table[l].shipment \in Shipments
        BY <2>1, <3>1 DEF Replaces
      <4>. QED
        BY <3>1, <4>1 DEF Counted
    <3>2. CASE l \notin DOMAIN table \ old
      <4>1. PICK k \in DOMAIN content : l = new[k]
        BY <3>2 DEF Counted, Replaces
      <4>. QED
        BY <4>1 DEF Counted, Replaces, Naming
    <3>. QED
      BY <3>1, <3>2
  <2>. QED
    BY <2>2, <2>3, <2>4, <2>5
<1>5. /\ IsFiniteSet(E) /\ Plans(after, E) \in [E -> Nat]
      /\ \A l \in E : Plans(after, E)[l] = Plans(after, D)[l]
  <2>1. E \subseteq D
    BY <1>4
  <2> HIDE DEF D, E
  <2>. QED
    BY <1>2, <2>1, FS_Subset DEF Plans
<1>6. \A l \in C : Plans(table, C)[l] = Plans(after, D)[l]
  <2>1. \A l \in C : after[l] = table[l] /\ l \in D
    BY <1>4 DEF Counted, Replaces
  <2> HIDE DEF C, D
  <2>. QED
    BY <2>1 DEF Plans
<1>7. Shares(Plans(after, D), D, Plans(table, C), C, Plans(after, E), E)
  <2> HIDE DEF C, D, E
  <2>1. /\ Plans(after, D) \in [D -> Int] /\ Plans(table, C) \in [C -> Int]
        /\ Plans(after, E) \in [E -> Int]
    BY <1>2, <1>5
  <2>2. C \cup E = D /\ C \cap E = {}
    BY <1>4
  <2>. QED
    BY <1>2, <1>5, <1>6, <2>1, <2>2 DEF Shares, Addends
<1>8. Renames(Plans(after, E), E, Plans(content, N), N, new)
  <2>1. \A k \in N : new[k] \in E /\ Plans(after, E)[new[k]] = Plans(content, N)[k]
    BY <1>3 DEF Plans, Replaces
  <2>2. /\ \A j, k \in N : new[j] = new[k] => j = k
        /\ \A l \in E : \E k \in N : new[k] = l
    BY <1>3 DEF Replaces
  <2> HIDE DEF E, N
  <2>. QED
    BY <1>2, <1>5, <2>1, <2>2 DEF Renames, Addends
<1>. QED
  BY <1>2, <1>7, <1>8, SumParts, SumRenamed DEF ShippedBy

-----------------------------------------------------------------------------
(* Costs: what an allocation shares out. *)

\* The residue of the roundings falls on the last target, so nothing is lost.
LEMMA ProportionalExact ==
  ASSUME NEW ls \in SUBSET Nat, IsFiniteSet(ls), ls # {}, NEW weight \in [ls -> Nat],
         Total(weight) # 0, NEW amount \in Nat
  PROVE  /\ Proportional(weight, amount) \in [ls -> Int]
         /\ Total(Proportional(weight, amount)) = amount
<1> DEFINE last == LastOf(ls)
           sum == Total(weight)
           rounded == [k \in ls \ {last} |-> HalfUp(amount * weight[k], sum)]
           shares == Proportional(weight, amount)
<1>1. last \in ls
  BY GreatestExists
<1>2. sum \in Nat /\ sum > 0
  <2>1. SumFunction(weight) \in Nat /\ sum = SumFunction(weight)
    BY SumNat, TotalIsSum
  <2> HIDE DEF sum
  <2>. QED
    BY <2>1 DEF sum
<1>3. \A k \in ls : HalfUp(amount * weight[k], sum) \in Int
  <2>1. \A n \in Nat : HalfUp(n, sum) \in Int
    <3>1. 2 * sum \in Int /\ 2 * sum > 0
      BY <1>2
    <3>2. \A n \in Nat : 2 * n + sum \in Int
      BY <1>2
    <3>3. \A m \in Int, d \in Int : d > 0 => m \div d \in Int
      OBVIOUS
    <3>. QED
      BY <3>1, <3>2, <3>3 DEF HalfUp
  <2>2. \A k \in ls : amount * weight[k] \in Nat
    OBVIOUS
  <2>. QED
    BY <2>1, <2>2
<1>4. rounded \in [ls \ {last} -> Int] /\ IsFiniteSet(ls \ {last})
  <2> HIDE DEF sum
  <2>. QED
    BY <1>3, FS_Subset
<1>5. shares = [k \in ls |-> IF k = last THEN amount - Total(rounded) ELSE rounded[k]]
  BY DEF Proportional
<1>6. SumFunction(rounded) \in Int /\ Total(rounded) = SumFunction(rounded)
  <2> HIDE DEF rounded
  <2>. QED
    BY <1>4, SumType, TotalIsSum
<1> HIDE DEF last, sum, rounded, shares
<1>7. /\ shares \in [ls -> Int] /\ shares[last] = amount - SumFunction(rounded)
      /\ \A k \in ls \ {last} : rounded[k] = shares[k]
  BY <1>1, <1>4, <1>5, <1>6
<1>8. SumFunction(shares) = shares[last] + SumFunction(rounded)
  <2>1. HasOneMore(shares, ls, rounded, ls \ {last}, last)
    BY <1>1, <1>4, <1>7 DEF HasOneMore, Addends
  <2>. QED
    BY <2>1, SumAdd
<1>. QED
  BY <1>6, <1>7, <1>8, TotalIsSum DEF shares

\* What an allocation writes adds up to what it was asked for.
LEMMA SharesExact ==
  ASSUME line \in LineTables, NEW ls \in SUBSET DOMAIN line, ls # {}, NEW method \in Methods,
         NEW amount \in Portions, NEW shares \in AllocationShares(method, amount, ls),
         AmountsPositive(shares)
  PROVE  shares \in [ls -> Nat] /\ Total(shares) = amount
<1>1. amount \in Nat /\ method \in {"MANUAL", "QUANTITY", "WEIGHT", "VOLUME"}
  BY ImportCostsAssumption
<1>2. CASE method = "MANUAL"
  BY <1>1, <1>2 DEF AllocationShares
<1>3. CASE method # "MANUAL"
  <2> DEFINE weight == [l \in ls |-> Weight(method, l)]
  <2>1. /\ shares = Proportional(weight, amount) /\ Total(weight) # 0
        /\ \A l \in ls : weight[l] # Unmeasured
    BY <1>3 DEF AllocationShares
  <2>2. ls \in SUBSET Nat /\ IsFiniteSet(ls)
    <3>1. ls \subseteq 1..MaxLines /\ 1..MaxLines \subseteq Nat
      BY TableTyped, ImportCostsAssumption
    <3>. QED
      BY <3>1, TableTyped, FS_Subset
  <2>3. ASSUME NEW l \in ls PROVE weight[l] \in Nat
    <3>1. line[l] \in LineRecord /\ weight[l] # Unmeasured /\ weight[l] = Weight(method, l)
      BY <2>1, TableTyped
    <3> HIDE DEF weight
    <3>. QED
      BY <1>1, <1>3, <3>1 DEF Weight, LineRecord
  <2>4. weight \in [ls -> Nat]
    BY <2>3
  <2> HIDE DEF weight
  <2>5. shares \in [ls -> Int] /\ Total(shares) = amount
    BY <1>1, <2>1, <2>2, <2>4, ProportionalExact
  <2>6. \A l \in ls : shares[l] \in Nat
    BY <2>5 DEF AmountsPositive
  <2>. QED
    BY <2>5, <2>6
<1>. QED
  BY <1>2, <1>3

Batch == [key : ExpenseKeys \cup {NoExpenseKey}, requested : Portions,
          shares : UNION {[ls -> Nat] : ls \in SUBSET (1..MaxLines)}]

\* Assigned
AssignedOf(list) == Total([k \in DOMAIN list |-> list[k].requested])

KeyIsNew(list, key) == \A k \in DOMAIN list : key = NoExpenseKey \/ list[k].key # key

KeysDiffer(list) ==
  \A j, k \in DOMAIN list : j # k /\ list[j].key # NoExpenseKey => list[j].key # list[k].key

LEMMA AppendedBatch ==
  ASSUME NEW list \in Seq(Batch), NEW b \in Batch
  PROVE  /\ Append(list, b) \in Seq(Batch)
         /\ DOMAIN Append(list, b) = DOMAIN list \cup {Len(list) + 1}
         /\ Len(list) + 1 \notin DOMAIN list
         /\ Append(list, b)[Len(list) + 1] = b
         /\ \A k \in DOMAIN list : Append(list, b)[k] = list[k]
         /\ AssignedOf(list) \in Nat
         /\ AssignedOf(Append(list, b)) = AssignedOf(list) + b.requested
<1> DEFINE more == Append(list, b)
           z == Len(list) + 1
           f == [k \in DOMAIN list |-> list[k].requested]
           g == [k \in DOMAIN more |-> more[k].requested]
<1>1. more \in Seq(Batch) /\ Len(list) \in Nat
  OBVIOUS
<1>2. DOMAIN list = 1..Len(list) /\ DOMAIN more = 1..z
  OBVIOUS
<1>3. more[z] = b /\ \A k \in DOMAIN list : more[k] = list[k]
  BY <1>2
<1>4. DOMAIN more = DOMAIN list \cup {z} /\ z \notin DOMAIN list
  BY <1>1, <1>2
<1>5. IsFiniteSet(DOMAIN list) /\ IsFiniteSet(DOMAIN more)
  BY <1>1, <1>2, FS_Interval
<1>6. /\ \A k \in DOMAIN list : list[k].requested \in Nat
      /\ \A k \in DOMAIN more : more[k].requested \in Nat
  <2>1. \A c \in Batch : c.requested \in Nat
    BY ImportCostsAssumption DEF Batch
  <2>2. \A k \in DOMAIN list : list[k] \in Batch
    OBVIOUS
  <2> HIDE DEF more, z
  <2>. QED
    BY <1>3, <1>4, <2>1, <2>2
<1> HIDE DEF more, z
<1>7. /\ f \in [DOMAIN list -> Nat] /\ g \in [DOMAIN more -> Nat]
      /\ g[z] = b.requested /\ \A k \in DOMAIN list : g[k] = f[k]
  BY <1>3, <1>4, <1>6
<1> HIDE DEF f, g
<1>8. HasOneMore(g, DOMAIN more, f, DOMAIN list, z)
  BY <1>4, <1>5, <1>7 DEF HasOneMore, Addends
<1>9. SumFunction(g) = b.requested + SumFunction(f) /\ SumFunction(f) \in Nat
  BY <1>5, <1>7, <1>8, SumAdd, SumNat
<1>10. b.requested \in Nat
  BY ImportCostsAssumption DEF Batch
<1>11. AssignedOf(list) = SumFunction(f) /\ AssignedOf(more) = SumFunction(g)
  BY TotalIsSum DEF AssignedOf, f, g
<1>. QED
  BY <1>1, <1>3, <1>4, <1>9, <1>10, <1>11 DEF more, z

-----------------------------------------------------------------------------
(* Costs: the inductive invariant. *)

ShipmentRecord == [status : {"PLANNED", "IN_TRANSIT", "ARRIVED", "CANCELLED"}, operation : Operations]

ExpenseRecord == [status : {"DRAFT", "FINALIZED", "CANCELLED"}, operation : Operations,
                  currency : Currencies, amount : ExpenseAmounts, finalized : BOOLEAN]

CostShape ==
  /\ operation \in [Operations -> {"NONE", "DRAFT", "IN_PROGRESS", "COMPLETED", "CANCELLED"}]
  /\ shipment \in [Shipments -> ShipmentRecord \cup {Absent}]
  /\ line \in LineTables
  /\ expense \in [Expenses -> ExpenseRecord \cup {Absent}]
  /\ batches \in [Expenses -> Seq(Batch)]
  /\ request = [p \in Importers |-> request[p]]

\* FitsInvoices
FitsIn(table, ships, content, except) ==
  \A i \in Items : RequestedOf(i, content) > 0 =>
    ShippedBy(table, ships, i, except) + RequestedOf(i, content) <= Invoiced[i]

KeepsToInvoices(table, ships) == \A i \in Items : ShippedBy(table, ships, i, {}) <= Invoiced[i]

\* What each request holds and has found, by what it is doing.
Creating(p) ==
  LET r == request[p]
  IN  r.does = "createShipment" =>
        /\ r.operation \in Operations /\ r.content \in Contents
        /\ OperationRow(r.operation) \cup ItemRows(r.content) \subseteq r.locks
        /\ operation[r.operation] \in {"DRAFT", "IN_PROGRESS"}
        /\ FitsIn(line, shipment, r.content, {})

Replacing(p) ==
  LET r == request[p]
  IN  /\ r.does \in {"replace", "insertLines"} =>
           /\ r = [does |-> r.does, locks |-> r.locks, shipment |-> r.shipment, content |-> r.content]
           /\ r.shipment \in Shipments /\ r.content \in Contents
           /\ ShipmentRow(r.shipment) \subseteq r.locks
           /\ shipment[r.shipment].status = "PLANNED"
      /\ r.does = "insertLines" =>
           /\ LineRows(LinesOf(r.shipment)) \cup ItemRows(r.content) \subseteq r.locks
           /\ \A l \in LinesOf(r.shipment) : ~Allocated(l)
           /\ FitsIn(line, shipment, r.content, {r.shipment})

Cancelling(p) ==
  LET r == request[p]
  IN  r.does = "cancelShipment" =>
        /\ r.shipment \in Shipments /\ ShipmentRow(r.shipment) \subseteq r.locks
        /\ shipment[r.shipment].status \in {"PLANNED", "IN_TRANSIT"}

Updating(p) ==
  LET r == request[p]
  IN  r.does = "updateExpense" =>
        /\ r.expense \in Expenses /\ r.currency \in Currencies /\ r.amount \in ExpenseAmounts
        /\ expense[r.expense] # Absent

Allocating(p) ==
  LET r == request[p]
  IN  /\ r.does \in {"allocate", "insertBatch"} =>
           /\ r = [does |-> r.does, locks |-> r.locks, expense |-> r.expense, key |-> r.key,
                   amount |-> r.amount, method |-> r.method, lines |-> r.lines]
           /\ r.expense \in Expenses /\ r.key \in ExpenseKeys \cup {NoExpenseKey}
           /\ r.amount \in Portions /\ r.method \in Methods /\ r.lines # {}
           /\ ExpenseRow(r.expense) \subseteq r.locks
           /\ expense[r.expense].status \in {"DRAFT", "FINALIZED"}
           /\ AssignedOf(batches[r.expense]) + r.amount <= expense[r.expense].amount
           /\ KeyIsNew(batches[r.expense], r.key)
      /\ r.does = "insertBatch" =>
           /\ LineRows(r.lines) \subseteq r.locks
           /\ r.lines \subseteq DOMAIN line
           /\ \A l \in r.lines : shipment[line[l].shipment].operation = expense[r.expense].operation

HoldsRows(p) ==
  /\ request[p].does \in {"nothing", "createShipment", "replace", "insertLines", "cancelShipment",
                           "updateExpense", "allocate", "insertBatch"}
  /\ Creating(p) /\ Replacing(p) /\ Cancelling(p) /\ Updating(p) /\ Allocating(p)

LinesHaveShipments == \A l \in DOMAIN line : shipment[line[l].shipment] # Absent

LocksExclude ==
  \A p, q \in Importers : p # q => request[p].locks \cap request[q].locks = {}

\* The rows, which are seen by everyone, and what the requests hold of them.
CostRowsStand ==
  /\ CostShape
  /\ LinesHaveShipments
  /\ KeepsToInvoices(line, shipment)
  /\ CompletedIsOver
  /\ \A e \in Expenses : (expense[e] = Absent => batches[e] = <<>>) /\ KeysDiffer(batches[e])
  /\ BatchesStand

CostsStand ==
  /\ CostRowsStand
  /\ LocksExclude
  /\ \A p \in Importers : HoldsRows(p)

\* A step leaves alone what is behind the locks that are taken, and no row of a
\* shipment or an expense goes away or changes its operation.
Respects(taken) ==
  /\ \A o \in Operations : <<"operation", o>> \in taken /\ operation[o] # "NONE" =>
       operation'[o] = operation[o]
  /\ \A s \in Shipments : <<"shipment", s>> \in taken /\ shipment[s] # Absent =>
       shipment'[s] = shipment[s] /\ LinesOf(s)' = LinesOf(s)
  /\ \A l \in DOMAIN line : <<"line", l>> \in taken =>
       /\ l \in DOMAIN line' /\ line'[l].shipment = line[l].shipment
       /\ Allocated(l)' => Allocated(l)
  /\ \A e \in Expenses : <<"expense", e>> \in taken /\ expense[e] # Absent =>
       expense'[e] = expense[e] /\ batches'[e] = batches[e]
  /\ \A i \in Items : <<"item", i>> \in taken =>
       /\ ShippedBy(line', shipment', i, {}) <= ShippedBy(line, shipment, i, {})
       /\ \A s \in Shipments : <<"shipment", s>> \in taken /\ shipment[s] # Absent =>
            ShippedBy(line', shipment', i, {s}) <= ShippedBy(line, shipment, i, {s})
  /\ \A s \in Shipments : shipment[s] # Absent =>
       shipment'[s] # Absent /\ shipment'[s].operation = shipment[s].operation
  /\ \A e \in Expenses : expense[e] # Absent => expense'[e] # Absent

\* Every item that a content names is locked with it.
LEMMA NamedIsLocked ==
  ASSUME NEW content \in Contents, NEW i \in Items, RequestedOf(i, content) # 0
  PROVE  <<"item", i>> \in ItemRows(content)
<1>1. PICK k \in DOMAIN content : content[k].item = i
  BY RequestedTyped DEF Naming
<1>2. content[k].item # NoItem
  BY <1>1, ImportCostsAssumption
<1>. QED
  BY <1>1, <1>2 DEF ItemRows

LEMMA FitsStays ==
  ASSUME NEW table \in LineTables, NEW ships, NEW after \in LineTables, NEW shipsAfter,
         NEW content \in Contents, NEW x, FitsIn(table, ships, content, x),
         \A i \in Items : <<"item", i>> \in ItemRows(content) =>
           ShippedBy(after, shipsAfter, i, x) <= ShippedBy(table, ships, i, x)
  PROVE  FitsIn(after, shipsAfter, content, x)
<1>1. SUFFICES ASSUME NEW i \in Items, RequestedOf(i, content) > 0
               PROVE  ShippedBy(after, shipsAfter, i, x) + RequestedOf(i, content) <= Invoiced[i]
  BY DEF FitsIn
<1>2. /\ ShippedBy(after, shipsAfter, i, x) \in Nat /\ ShippedBy(table, ships, i, x) \in Nat
      /\ RequestedOf(i, content) \in Nat /\ Invoiced[i] \in Nat
  BY ShippedTyped, RequestedTyped, ImportCostsAssumption
<1>3. ShippedBy(after, shipsAfter, i, x) <= ShippedBy(table, ships, i, x)
  <2>1. RequestedOf(i, content) # 0
    BY <1>1, <1>2
  <2>. QED
    BY <2>1, NamedIsLocked
<1>. QED
  BY <1>1, <1>2, <1>3 DEF FitsIn

LEMMA OthersHoldRows ==
  ASSUME NEW q \in Importers, HoldsRows(q), CostShape, CostShape', LinesHaveShipments,
         request'[q] = request[q], Respects(request[q].locks)
  PROVE  HoldsRows(q)'
<1> DEFINE r == request[q]
<1>1. Creating(q)'
  <2>1. SUFFICES ASSUME r.does = "createShipment" PROVE Creating(q)'
    BY DEF Creating
  <2>2. /\ r.operation \in Operations /\ r.content \in Contents
        /\ OperationRow(r.operation) \subseteq r.locks /\ ItemRows(r.content) \subseteq r.locks
        /\ operation[r.operation] \in {"DRAFT", "IN_PROGRESS"} /\ FitsIn(line, shipment, r.content, {})
    BY <2>1 DEF HoldsRows, Creating
  <2>3. operation'[r.operation] = operation[r.operation]
    BY <2>2 DEF Respects, OperationRow
  <2>4. FitsIn(line', shipment', r.content, {})
    <3>1. \A i \in Items : <<"item", i>> \in ItemRows(r.content) =>
            ShippedBy(line', shipment', i, {}) <= ShippedBy(line, shipment, i, {})
      BY <2>2 DEF Respects
    <3>. QED
      BY <2>2, <3>1, FitsStays DEF CostShape
  <2>. QED
    BY <2>2, <2>3, <2>4 DEF Creating
<1>2. Replacing(q)'
  <2>1. SUFFICES ASSUME r.does \in {"replace", "insertLines"} PROVE Replacing(q)'
    BY DEF Replacing
  <2>2. /\ r = [does |-> r.does, locks |-> r.locks, shipment |-> r.shipment, content |-> r.content]
        /\ r.shipment \in Shipments /\ r.content \in Contents
        /\ <<"shipment", r.shipment>> \in r.locks /\ ShipmentRow(r.shipment) \subseteq r.locks
        /\ shipment[r.shipment].status = "PLANNED"
    BY <2>1 DEF HoldsRows, Replacing, ShipmentRow
  <2>3. shipment'[r.shipment] = shipment[r.shipment] /\ LinesOf(r.shipment)' = LinesOf(r.shipment)
    BY <2>2 DEF Respects, LinesOf, Absent
  <2>4. ASSUME r.does = "insertLines"
        PROVE  /\ LineRows(LinesOf(r.shipment)') \cup ItemRows(r.content) \subseteq r.locks
               /\ \A l \in LinesOf(r.shipment)' : ~Allocated(l)'
               /\ FitsIn(line', shipment', r.content, {r.shipment})
    <3>1. /\ LineRows(LinesOf(r.shipment)) \subseteq r.locks /\ ItemRows(r.content) \subseteq r.locks
          /\ \A l \in LinesOf(r.shipment) : ~Allocated(l)
          /\ FitsIn(line, shipment, r.content, {r.shipment})
      BY <2>4 DEF HoldsRows, Replacing
    <3>2. \A l \in LinesOf(r.shipment) : ~Allocated(l)'
      <4>1. \A l \in LinesOf(r.shipment) : l \in DOMAIN line /\ <<"line", l>> \in r.locks
        BY <3>1 DEF LinesOf, LineRows
      <4>. QED
        BY <3>1, <4>1 DEF Respects
    <3>3. \A i \in Items : <<"item", i>> \in ItemRows(r.content) =>
            ShippedBy(line', shipment', i, {r.shipment}) <= ShippedBy(line, shipment, i, {r.shipment})
      BY <2>2, <3>1 DEF Respects, Absent
    <3>4. FitsIn(line', shipment', r.content, {r.shipment})
      BY <2>2, <3>1, <3>3, FitsStays DEF CostShape
    <3>. QED
      BY <2>3, <3>1, <3>2, <3>4
  <2>. QED
    BY <2>2, <2>3, <2>4 DEF Replacing, LinesOf
<1>3. Cancelling(q)'
  BY DEF HoldsRows, Cancelling, Respects, ShipmentRow, Absent
<1>4. Updating(q)'
  BY DEF HoldsRows, Updating, Respects
<1>5. Allocating(q)'
  <2>1. SUFFICES ASSUME r.does \in {"allocate", "insertBatch"} PROVE Allocating(q)'
    BY DEF Allocating
  <2>2. /\ r.expense \in Expenses /\ <<"expense", r.expense>> \in r.locks
        /\ expense[r.expense] # Absent
    BY <2>1 DEF HoldsRows, Allocating, ExpenseRow, Absent
  <2>3. expense'[r.expense] = expense[r.expense] /\ batches'[r.expense] = batches[r.expense]
    BY <2>2 DEF Respects
  <2>4. ASSUME r.does = "insertBatch"
        PROVE  /\ r.lines \subseteq DOMAIN line'
               /\ \A l \in r.lines : shipment'[line'[l].shipment].operation = expense[r.expense].operation
    <3>1. \A l \in r.lines : /\ l \in DOMAIN line /\ <<"line", l>> \in r.locks
                            /\ shipment[line[l].shipment].operation = expense[r.expense].operation
      BY <2>4 DEF HoldsRows, Allocating, LineRows
    <3>2. \A l \in r.lines : line[l].shipment \in Shipments /\ shipment[line[l].shipment] # Absent
      BY <3>1, TableTyped DEF CostShape, LineRecord, LinesHaveShipments
    <3>3. \A l \in r.lines : /\ l \in DOMAIN line' /\ line'[l].shipment = line[l].shipment
                            /\ shipment'[line[l].shipment].operation = shipment[line[l].shipment].operation
      BY <3>1, <3>2 DEF Respects
    <3>. QED
      BY <3>1, <3>3
  <2>. QED
    BY <2>1, <2>3, <2>4 DEF HoldsRows, Allocating
<1>. QED
  BY <1>1, <1>2, <1>3, <1>4, <1>5 DEF HoldsRows

-----------------------------------------------------------------------------
(* Costs: the steps. *)

\* What is left of a step once every row that others have locked is left alone.
LEMMA OtherImportersStand ==
  ASSUME CostsStand, CostRowsStand', NEW p \in Importers, HoldsRows(p)',
         \A q \in Importers \ {p} : /\ request'[q] = request[q] /\ Respects(request[q].locks)
                                  /\ request'[p].locks \cap request[q].locks = {}
  PROVE  CostsStand'
<1>1. \A q \in Importers : HoldsRows(q)'
  BY OthersHoldRows DEF CostsStand, CostRowsStand
<1>2. LocksExclude'
  BY DEF CostsStand, LocksExclude
<1>. QED
  BY <1>1, <1>2 DEF CostsStand

\* A step of the rows alone, when it leaves alone every row that is locked.
LEMMA AllStand ==
  ASSUME CostsStand, CostRowsStand', UNCHANGED request, \A q \in Importers : Respects(request[q].locks)
  PROVE  CostsStand'
<1>1. \A q \in Importers : HoldsRows(q)'
  BY OthersHoldRows DEF CostsStand, CostRowsStand
<1>2. LocksExclude'
  BY DEF CostsStand, LocksExclude
<1>. QED
  BY <1>1, <1>2 DEF CostsStand

LEMMA CommitStands ==
  ASSUME CostsStand, CostRowsStand', NEW p \in Importers, Commit(p),
         \A q \in Importers \ {p} : Respects(request[q].locks)
  PROVE  CostsStand'
<1>1. request'[p] = Idle /\ \A q \in Importers \ {p} : request'[q] = request[q]
  BY DEF CostsStand, CostRowsStand, CostShape, Commit, Continue
<1>2. HoldsRows(p)'
  BY <1>1 DEF Idle, HoldsRows, Creating, Replacing, Cancelling, Updating, Allocating
<1>3. request'[p].locks = {}
  BY <1>1 DEF Idle
<1>. QED
  BY <1>1, <1>2, <1>3, OtherImportersStand

LEMMA NothingRespects ==
  ASSUME CostShape, UNCHANGED <<operation, shipment, line, expense, batches>>, NEW taken
  PROVE  Respects(taken)
<1>1. \A x : \A i \in Items : /\ ShippedBy(line', shipment', i, x) <= ShippedBy(line, shipment, i, x)
  BY ShippedTyped DEF CostShape
<1>. QED
  BY <1>1 DEF Respects, LinesOf, Allocated

LEMMA NothingStands ==
  ASSUME CostRowsStand, UNCHANGED <<operation, shipment, line, expense, batches>>,
         request' = [p \in Importers |-> request'[p]]
  PROVE  CostRowsStand'
<1>1. CostShape'
  BY DEF CostRowsStand, CostShape
<1>2. LinesHaveShipments' /\ KeepsToInvoices(line, shipment)' /\ CompletedIsOver' /\ BatchesStand'
  BY DEF CostRowsStand, LinesHaveShipments, KeepsToInvoices, CompletedIsOver, ShipmentsOf, BatchesStand,
         Counted, ShippedBy, Plans
<1>. QED
  BY <1>1, <1>2 DEF CostRowsStand

LEMMA ImporterStep ==
  ASSUME CostsStand, NEW p \in Importers, NEW next, Continue(p, next),
         UNCHANGED <<operation, shipment, line, expense, batches>>, HoldsRows(p)',
         \A q \in Importers \ {p} : next.locks \cap request[q].locks = {}
  PROVE  CostsStand'
<1>1. /\ request'[p] = next /\ \A q \in Importers \ {p} : request'[q] = request[q]
      /\ request' = [q \in Importers |-> request'[q]]
  BY DEF CostsStand, CostRowsStand, CostShape, Continue
<1>2. CostRowsStand' /\ \A taken : Respects(taken)
  BY <1>1, NothingStands, NothingRespects DEF CostsStand, CostRowsStand
<1>. QED
  BY <1>1, <1>2, OtherImportersStand

LEMMA CostsRollBack ==
  ASSUME CostsStand, NEW p \in Importers, RollBackCosts(p)
  PROVE  CostsStand'
<1>1. request' = [q \in Importers |-> request'[q]]
  BY DEF CostsStand, CostRowsStand, CostShape, RollBackCosts, Commit, Continue
<1>2. CostRowsStand' /\ \A taken : Respects(taken)
  BY <1>1, NothingStands, NothingRespects DEF CostsStand, CostRowsStand, RollBackCosts
<1>. QED
  BY <1>2, CommitStands DEF RollBackCosts

\* The rows of the sums that are looked at are those of the model.
LEMMA FitsIsFits ==
  \A content, except : FitsInvoices(content, except) <=> FitsIn(line, shipment, content, except)
BY ShippedIsSum DEF FitsInvoices, FitsIn

LEMMA CreatingBegins ==
  ASSUME CostsStand, NEW p \in Importers, NEW o \in Operations, NEW content \in Contents,
         BeginShipment(p, o, content)
  PROVE  CostsStand'
<1> DEFINE next == [does |-> "createShipment", locks |-> OperationRow(o) \cup ItemRows(content),
                    operation |-> o, content |-> content]
<1>1. request'[p] = next
  BY DEF CostsStand, CostRowsStand, CostShape, BeginShipment, Continue
<1>2. HoldsRows(p)'
  BY <1>1, FitsIsFits DEF BeginShipment, HoldsRows, Creating, Replacing, Cancelling, Updating, Allocating
<1>3. \A q \in Importers \ {p} : next.locks \cap request[q].locks = {}
  BY DEF BeginShipment, Free
<1>. QED
  BY <1>2, <1>3, ImporterStep DEF BeginShipment

LEMMA ReplacingBegins ==
  ASSUME CostsStand, NEW p \in Importers, NEW s \in Shipments, NEW content \in Contents,
         BeginReplace(p, s, content)
  PROVE  CostsStand'
<1> DEFINE next == [does |-> "replace", locks |-> ShipmentRow(s), shipment |-> s, content |-> content]
<1>1. request'[p] = next
  BY DEF CostsStand, CostRowsStand, CostShape, BeginReplace, Continue
<1>2. HoldsRows(p)'
  BY <1>1 DEF BeginReplace, HoldsRows, Creating, Replacing, Cancelling, Updating, Allocating
<1>3. \A q \in Importers \ {p} : next.locks \cap request[q].locks = {}
  BY DEF BeginReplace, Free
<1>. QED
  BY <1>2, <1>3, ImporterStep DEF BeginReplace

LEMMA LinesAreDeleted ==
  ASSUME CostsStand, NEW p \in Importers, DeleteLines(p)
  PROVE  CostsStand'
<1> DEFINE r == request[p]
           old == LinesOf(r.shipment)
           next == [r EXCEPT !.does = "insertLines",
                             !.locks = @ \cup LineRows(old) \cup ItemRows(r.content)]
<1>1. request'[p] = next
  BY DEF CostsStand, CostRowsStand, CostShape, DeleteLines, Continue
<1>2. /\ r = [does |-> r.does, locks |-> r.locks, shipment |-> r.shipment, content |-> r.content]
      /\ r.shipment \in Shipments /\ r.content \in Contents
      /\ ShipmentRow(r.shipment) \subseteq r.locks
      /\ shipment[r.shipment].status = "PLANNED"
  BY DEF DeleteLines, CostsStand, HoldsRows, Replacing
<1> HIDE DEF r, old
<1>3. next = [does |-> "insertLines", locks |-> r.locks \cup LineRows(old) \cup ItemRows(r.content),
              shipment |-> r.shipment, content |-> r.content]
  <2>1. PICK d, h, t, c : r = [does |-> d, locks |-> h, shipment |-> t, content |-> c]
    BY <1>2
  <2>2. [r EXCEPT !.does = "insertLines"]
          = [does |-> "insertLines", locks |-> h, shipment |-> t, content |-> c]
    BY <2>1
  <2>3. next = [[r EXCEPT !.does = "insertLines"]
                   EXCEPT !.locks = h \cup LineRows(old) \cup ItemRows(r.content)]
    BY <2>1
  <2>4. ASSUME NEW x
        PROVE  [[does |-> "insertLines", locks |-> h, shipment |-> t, content |-> c] EXCEPT !.locks = x]
                 = [does |-> "insertLines", locks |-> x, shipment |-> t, content |-> c]
    OBVIOUS
  <2> HIDE DEF next
  <2>. QED
    BY <2>1, <2>2, <2>3, <2>4
<1>4. /\ \A l \in old : ~Allocated(l)
      /\ FitsIn(line, shipment, r.content, {r.shipment})
  BY FitsIsFits DEF DeleteLines, r, old
<1> HIDE DEF next
<1>5. HoldsRows(p)'
  <2>1. \A l \in old : ~Allocated(l)'
    BY <1>4 DEF DeleteLines, Allocated
  <2>2. line' = line /\ shipment' = shipment
    BY DEF DeleteLines
  <2>3. /\ next.does = "insertLines" /\ next.shipment = r.shipment /\ next.content = r.content
        /\ next = [does |-> next.does, locks |-> next.locks, shipment |-> next.shipment,
                   content |-> next.content]
        /\ LineRows(old) \cup ItemRows(r.content) \subseteq next.locks
        /\ ShipmentRow(r.shipment) \subseteq next.locks
    BY <1>2, <1>3
  <2>4. old = {l \in DOMAIN line' : line'[l].shipment = next.shipment}
    BY <2>2, <2>3 DEF old, LinesOf
  <2>5. FitsIn(line', shipment', next.content, {next.shipment})
    BY <1>4, <2>2, <2>3
  <2>6. Replacing(p)'
    BY <1>1, <1>2, <2>1, <2>2, <2>3, <2>4, <2>5 DEF Replacing, LinesOf
  <2>. QED
    BY <1>1, <2>3, <2>6 DEF HoldsRows, Creating, Cancelling, Updating, Allocating
<1>6. \A q \in Importers \ {p} : next.locks \cap request[q].locks = {}
  BY <1>3 DEF DeleteLines, FreeFor, CostsStand, LocksExclude, r, old
<1>7. Continue(p, next) /\ UNCHANGED <<operation, shipment, line, expense, batches>>
  BY DEF DeleteLines, r, old, next
<1>. QED
  BY <1>5, <1>6, <1>7, ImporterStep

LEMMA CancellingBegins ==
  ASSUME CostsStand, NEW p \in Importers, NEW s \in Shipments, BeginCancelShipment(p, s)
  PROVE  CostsStand'
<1> DEFINE next == [does |-> "cancelShipment", locks |-> ShipmentRow(s), shipment |-> s]
<1>1. request'[p] = next
  BY DEF CostsStand, CostRowsStand, CostShape, BeginCancelShipment, Continue
<1>2. HoldsRows(p)'
  BY <1>1 DEF BeginCancelShipment, HoldsRows, Creating, Replacing, Cancelling, Updating, Allocating
<1>3. \A q \in Importers \ {p} : next.locks \cap request[q].locks = {}
  BY DEF BeginCancelShipment, Free
<1>. QED
  BY <1>2, <1>3, ImporterStep DEF BeginCancelShipment

LEMMA UpdatingBegins ==
  ASSUME CostsStand, NEW p \in Importers, NEW e \in Expenses, NEW c \in Currencies,
         NEW a \in ExpenseAmounts, BeginUpdateExpense(p, e, c, a)
  PROVE  CostsStand'
<1> DEFINE next == [does |-> "updateExpense", locks |-> {}, expense |-> e, currency |-> c, amount |-> a]
<1>1. request'[p] = next
  BY DEF CostsStand, CostRowsStand, CostShape, BeginUpdateExpense, Continue
<1>2. HoldsRows(p)'
  BY <1>1 DEF BeginUpdateExpense, Absent, HoldsRows, Creating, Replacing, Cancelling, Updating, Allocating
<1>3. \A q \in Importers \ {p} : next.locks \cap request[q].locks = {}
  OBVIOUS
<1>. QED
  BY <1>2, <1>3, ImporterStep DEF BeginUpdateExpense

LEMMA AllocatingBegins ==
  ASSUME CostsStand, NEW p \in Importers, NEW e \in Expenses, NEW m \in Methods, NEW a \in Portions,
         NEW k \in ExpenseKeys \cup {NoExpenseKey}, NEW ls \in (SUBSET DOMAIN line) \ {{}},
         BeginAllocate(p, e, k, a, m, ls)
  PROVE  CostsStand'
<1> DEFINE next == [does |-> "allocate", locks |-> ExpenseRow(e), expense |-> e,
                    key |-> k, amount |-> a, method |-> m, lines |-> ls]
<1>1. request'[p] = next
  BY DEF CostsStand, CostRowsStand, CostShape, BeginAllocate, Continue
<1>2. HoldsRows(p)'
  <2>1. /\ expense[e].status \in {"DRAFT", "FINALIZED"} /\ ls # {}
        /\ Assigned(e) + a <= expense[e].amount
        /\ expense' = expense /\ batches' = batches
    BY DEF BeginAllocate
  <2>4. KeyIsNew(batches[e], k)
    BY DEF BeginAllocate, KeyIsNew
  <2>2. /\ next.does = "allocate" /\ next.expense = e /\ next.key = k /\ next.amount = a
        /\ next.method = m /\ next.lines = ls /\ next.locks = ExpenseRow(e)
        /\ next = [does |-> next.does, locks |-> next.locks, expense |-> next.expense,
                   key |-> next.key, amount |-> next.amount, method |-> next.method,
                   lines |-> next.lines]
    OBVIOUS
  <2> HIDE DEF next
  <2>3. Allocating(p)'
    BY <1>1, <2>1, <2>2, <2>4 DEF Allocating, Assigned, AssignedOf
  <2>. QED
    BY <1>1, <2>2, <2>3 DEF HoldsRows, Creating, Replacing, Cancelling, Updating
<1>3. \A q \in Importers \ {p} : next.locks \cap request[q].locks = {}
  BY DEF BeginAllocate, Free
<1>. QED
  BY <1>2, <1>3, ImporterStep DEF BeginAllocate

LEMMA LinesAreLocked ==
  ASSUME CostsStand, NEW p \in Importers, LockLines(p)
  PROVE  CostsStand'
<1> DEFINE r == request[p]
           next == [r EXCEPT !.does = "insertBatch", !.locks = @ \cup LineRows(r.lines)]
<1>1. request'[p] = next
  BY DEF CostsStand, CostRowsStand, CostShape, LockLines, Continue
<1>2. /\ r = [does |-> r.does, locks |-> r.locks, expense |-> r.expense, key |-> r.key,
              amount |-> r.amount, method |-> r.method, lines |-> r.lines]
      /\ r.expense \in Expenses /\ r.key \in ExpenseKeys \cup {NoExpenseKey}
      /\ r.amount \in Portions /\ r.method \in Methods /\ r.lines # {}
      /\ ExpenseRow(r.expense) \subseteq r.locks
      /\ expense[r.expense].status \in {"DRAFT", "FINALIZED"}
      /\ AssignedOf(batches[r.expense]) + r.amount <= expense[r.expense].amount
      /\ KeyIsNew(batches[r.expense], r.key)
  BY DEF LockLines, CostsStand, HoldsRows, Allocating
<1> HIDE DEF r
<1>3. next = [does |-> "insertBatch", locks |-> r.locks \cup LineRows(r.lines), expense |-> r.expense,
              key |-> r.key, amount |-> r.amount, method |-> r.method, lines |-> r.lines]
  <2>1. PICK d, h, e, k, a, m, ls :
          r = [does |-> d, locks |-> h, expense |-> e, key |-> k, amount |-> a, method |-> m,
               lines |-> ls]
    BY <1>2
  <2>2. [r EXCEPT !.does = "insertBatch"]
          = [does |-> "insertBatch", locks |-> h, expense |-> e, key |-> k, amount |-> a,
             method |-> m, lines |-> ls]
    BY <2>1
  <2>3. next = [[r EXCEPT !.does = "insertBatch"] EXCEPT !.locks = h \cup LineRows(r.lines)]
    BY <2>1
  <2>4. ASSUME NEW x
        PROVE  [[does |-> "insertBatch", locks |-> h, expense |-> e, key |-> k, amount |-> a,
                 method |-> m, lines |-> ls] EXCEPT !.locks = x]
                 = [does |-> "insertBatch", locks |-> x, expense |-> e, key |-> k, amount |-> a,
                    method |-> m, lines |-> ls]
    OBVIOUS
  <2> HIDE DEF next
  <2>. QED
    BY <2>1, <2>2, <2>3, <2>4
<1>4. /\ r.lines \subseteq DOMAIN line
      /\ \A l \in r.lines : shipment[line[l].shipment].operation = expense[r.expense].operation
  BY DEF LockLines, Eligible, r
<1>5. Continue(p, next) /\ UNCHANGED <<operation, shipment, line, expense, batches>>
  BY DEF LockLines, r
<1>6. \A q \in Importers \ {p} : next.locks \cap request[q].locks = {}
  BY <1>3 DEF LockLines, FreeFor, CostsStand, LocksExclude, r
<1> HIDE DEF next
<1>7. HoldsRows(p)'
  <2>1. Allocating(p)'
    BY <1>1, <1>2, <1>3, <1>4, <1>5 DEF Allocating
  <2>. QED
    BY <1>1, <1>3, <2>1 DEF HoldsRows, Creating, Replacing, Cancelling, Updating
<1>. QED
  BY <1>5, <1>6, <1>7, ImporterStep

\* Importing: one row of an operation changes, which nobody has locked.
LEMMA OperationStands ==
  ASSUME CostsStand, NEW o \in Operations,
         CreateOperation(o) \/ CompleteOperation(o) \/ CancelOperation(o)
  PROVE  CostsStand'
<1>1. /\ operation \in [Operations -> {"NONE", "DRAFT", "IN_PROGRESS", "COMPLETED", "CANCELLED"}]
      /\ \A x \in Operations \ {o} : operation'[x] = operation[x]
      /\ \/ operation[o] = "NONE" /\ operation'[o] = "DRAFT"
         \/ /\ operation'[o] = "COMPLETED" /\ Free(OperationRow(o))
            /\ \A s \in ShipmentsOf(o) : shipment[s].status \notin {"PLANNED", "IN_TRANSIT"}
         \/ operation'[o] = "CANCELLED" /\ Free(OperationRow(o))
      /\ operation' \in [Operations -> {"NONE", "DRAFT", "IN_PROGRESS", "COMPLETED", "CANCELLED"}]
      /\ UNCHANGED <<shipment, line, expense, batches, request>>
  BY DEF CostsStand, CostRowsStand, CostShape, CreateOperation, CompleteOperation, CancelOperation
<1>2. CostShape'
  BY <1>1 DEF CostsStand, CostRowsStand, CostShape
<1>3. LinesHaveShipments' /\ KeepsToInvoices(line, shipment)' /\ BatchesStand'
  BY <1>1 DEF CostsStand, CostRowsStand, LinesHaveShipments, KeepsToInvoices, BatchesStand,
              Counted, ShippedBy, Plans
<1>4. CompletedIsOver'
  <2>1. \A x : ShipmentsOf(x)' = ShipmentsOf(x)
    BY <1>1 DEF ShipmentsOf
  <2>2. \A x : \A s \in ShipmentsOf(x) : shipment[s] \in ShipmentRecord
    BY DEF CostsStand, CostRowsStand, CostShape, ShipmentsOf, Absent
  <2>3. ASSUME NEW x \in Operations, operation'[x] = "COMPLETED", NEW s \in ShipmentsOf(x)
        PROVE  shipment[s].status \in {"ARRIVED", "CANCELLED"}
    <3>1. CASE x = o
      BY <1>1, <2>2, <2>3, <3>1 DEF ShipmentRecord
    <3>2. CASE x # o
      BY <1>1, <2>3, <3>2 DEF CostsStand, CostRowsStand, CompletedIsOver
    <3>. QED
      BY <3>1, <3>2
  <2>. QED
    BY <1>1, <2>1, <2>3 DEF CompletedIsOver
<1>5. CostRowsStand'
  BY <1>1, <1>2, <1>3, <1>4 DEF CostsStand, CostRowsStand
<1>6. ASSUME NEW q \in Importers PROVE Respects(request[q].locks)
  <2>1. \A x : \A i \in Items : ShippedBy(line', shipment', i, x) <= ShippedBy(line, shipment, i, x)
    BY <1>1, ShippedTyped DEF CostsStand, CostRowsStand, CostShape
  <2>2. \A x \in Operations : <<"operation", x>> \in request[q].locks /\ operation[x] # "NONE" =>
          operation'[x] = operation[x]
    BY <1>1 DEF Free, OperationRow
  <2>. QED
    BY <1>1, <2>1, <2>2 DEF Respects, LinesOf, Allocated
<1>. QED
  BY <1>1, <1>5, <1>6, AllStand

\* A shipment that is planned or under way departs, arrives or is cancelled.
Advances(s, status) ==
  /\ shipment[s].status \in {"PLANNED", "IN_TRANSIT"}
  /\ status \in {"IN_TRANSIT", "ARRIVED", "CANCELLED"}
  /\ shipment' = [shipment EXCEPT ![s].status = status]
  /\ UNCHANGED <<operation, line, expense, batches>>

LEMMA AdvancesStands ==
  ASSUME CostRowsStand, NEW s \in Shipments, NEW status, Advances(s, status),
         request' = [q \in Importers |-> request'[q]]
  PROVE  /\ CostRowsStand'
         /\ \A taken : <<"shipment", s>> \notin taken => Respects(taken)
<1>1. /\ shipment \in [Shipments -> ShipmentRecord \cup {Absent}]
      /\ shipment[s] \in ShipmentRecord
  BY DEF CostRowsStand, CostShape, Advances, Absent
<1>2. /\ shipment'[s] \in ShipmentRecord /\ shipment'[s].status = status
      /\ shipment'[s].operation = shipment[s].operation
      /\ shipment' \in [Shipments -> ShipmentRecord \cup {Absent}]
      /\ \A t \in Shipments \ {s} : shipment'[t] = shipment[t]
  BY <1>1 DEF Advances, ShipmentRecord
<1>3. /\ \A t \in Shipments : shipment'[t].operation = shipment[t].operation
      /\ \A t \in Shipments : shipment[t] # Absent => shipment'[t] # Absent
      /\ \A t \in Shipments : shipment[t].status = "CANCELLED" => shipment'[t].status = "CANCELLED"
      /\ \A t \in Shipments : shipment'[t].status # "NONE" => shipment[t].status # "NONE"
  BY <1>1, <1>2 DEF ShipmentRecord, Absent, Advances
<1>4. CostShape' /\ line \in LineTables /\ line' = line
  BY <1>2 DEF CostRowsStand, CostShape, Advances
<1>5. \A l \in DOMAIN line : line[l].shipment \in Shipments
  BY <1>4, TableTyped DEF LineRecord
<1>6. LinesHaveShipments'
  BY <1>3, <1>4, <1>5 DEF CostRowsStand, LinesHaveShipments
<1>7. \A x : \A i \in Items : ShippedBy(line', shipment', i, x) <= ShippedBy(line, shipment, i, x)
  <2>1. \A i, x : \A l \in Counted(line, shipment', i, x) : l \in Counted(line, shipment, i, x)
    BY <1>3, <1>5 DEF Counted
  <2>. QED
    BY <1>4, <2>1, FewerLinesShipLess
<1>8. KeepsToInvoices(line, shipment)'
  <2>1. \A x : \A i \in Items : /\ ShippedBy(line', shipment', i, x) \in Nat
                            /\ ShippedBy(line, shipment, i, x) \in Nat /\ Invoiced[i] \in Nat
    BY <1>4, ShippedTyped, ImportCostsAssumption
  <2>2. \A i \in Items : ShippedBy(line, shipment, i, {}) <= Invoiced[i]
    BY DEF CostRowsStand, KeepsToInvoices
  <2>. QED
    BY <1>7, <2>1, <2>2 DEF KeepsToInvoices
<1>9. CompletedIsOver'
  <2>1. SUFFICES ASSUME NEW o \in Operations, operation[o] = "COMPLETED", NEW t \in ShipmentsOf(o)'
                 PROVE  shipment'[t].status \in {"ARRIVED", "CANCELLED"}
    BY DEF CompletedIsOver, Advances
  <2>2. t \in ShipmentsOf(o)
    BY <1>3 DEF ShipmentsOf
  <2>3. shipment[t].status \in {"ARRIVED", "CANCELLED"}
    BY <2>1, <2>2 DEF CostRowsStand, CompletedIsOver
  <2>4. t # s /\ t \in Shipments
    BY <2>2, <2>3 DEF Advances, ShipmentsOf
  <2>. QED
    BY <1>2, <2>3, <2>4
<1>10. BatchesStand'
  <2>1. ASSUME NEW e \in Expenses, NEW k \in DOMAIN batches[e]
        PROVE  /\ expense[e].status # "CANCELLED"
               /\ Total(batches[e][k].shares) = batches[e][k].requested
               /\ \A l \in DOMAIN batches[e][k].shares :
                    l \in DOMAIN line /\ shipment'[line[l].shipment].operation = expense[e].operation
    BY <1>3, <1>5 DEF CostRowsStand, BatchesStand
  <2>2. UNCHANGED <<line, expense, batches>>
    BY DEF Advances
  <2>. QED
    BY <2>1, <2>2 DEF BatchesStand
<1>11. CostRowsStand'
  BY <1>4, <1>6, <1>8, <1>9, <1>10 DEF CostRowsStand, Advances
<1>12. ASSUME NEW taken, <<"shipment", s>> \notin taken PROVE Respects(taken)
  <2>1. \A t \in Shipments : <<"shipment", t>> \in taken => shipment'[t] = shipment[t]
    BY <1>2, <1>12
  <2>2. UNCHANGED <<operation, line, expense, batches>>
    BY DEF Advances
  <2>. QED
    BY <1>3, <1>7, <2>1, <2>2 DEF Respects, LinesOf, Allocated
<1>. QED
  BY <1>11, <1>12

LEMMA ShipmentStands ==
  ASSUME CostsStand, NEW s \in Shipments, Depart(s) \/ Arrive(s)
  PROVE  CostsStand'
<1>1. PICK status : Advances(s, status)
  BY DEF Depart, Arrive, Advances
<1>2. request' = request /\ Free(ShipmentRow(s))
  BY DEF Depart, Arrive
<1>3. CostRowsStand' /\ \A taken : <<"shipment", s>> \notin taken => Respects(taken)
  BY <1>1, <1>2, AdvancesStands DEF CostsStand, CostRowsStand, CostShape
<1>. QED
  BY <1>2, <1>3, AllStand DEF Free, ShipmentRow

LEMMA CancellationStands ==
  ASSUME CostsStand, NEW p \in Importers, CommitCancelShipment(p)
  PROVE  CostsStand'
<1> DEFINE s == request[p].shipment
<1>1. /\ s \in Shipments /\ <<"shipment", s>> \in request[p].locks
      /\ Advances(s, "CANCELLED")
  BY DEF CostsStand, HoldsRows, Cancelling, ShipmentRow, CommitCancelShipment, Advances
<1>2. Commit(p) /\ request' = [q \in Importers |-> request'[q]]
  BY DEF CostsStand, CostRowsStand, CostShape, CommitCancelShipment, Commit, Continue
<1> HIDE DEF s
<1>3. CostRowsStand' /\ \A taken : <<"shipment", s>> \notin taken => Respects(taken)
  BY <1>1, <1>2, AdvancesStands DEF CostsStand
<1>4. \A q \in Importers \ {p} : <<"shipment", s>> \notin request[q].locks
  BY <1>1 DEF CostsStand, LocksExclude
<1>. QED
  BY <1>2, <1>3, <1>4, CommitStands

\* The row of an expense changes, and is cancelled only without batches.
Rewrites(e) ==
  /\ expense'[e] \in ExpenseRecord
  /\ expense' = [expense EXCEPT ![e] = expense'[e]]
  /\ expense[e] = Absent \/ expense'[e].operation = expense[e].operation
  /\ expense'[e].status = "CANCELLED" => batches[e] = <<>> \/ expense[e].status = "CANCELLED"
  /\ UNCHANGED <<operation, shipment, line, batches>>

LEMMA RewritesStands ==
  ASSUME CostRowsStand, NEW e \in Expenses, Rewrites(e), request' = [q \in Importers |-> request'[q]]
  PROVE  /\ CostRowsStand'
         /\ \A taken : <<"expense", e>> \notin taken \/ expense[e] = Absent => Respects(taken)
<1>1. /\ expense \in [Expenses -> ExpenseRecord \cup {Absent}]
      /\ expense' \in [Expenses -> ExpenseRecord \cup {Absent}]
      /\ \A x \in Expenses \ {e} : expense'[x] = expense[x]
      /\ expense'[e] # Absent
      /\ UNCHANGED <<operation, shipment, line, batches>>
  BY DEF CostRowsStand, CostShape, Rewrites, ExpenseRecord, Absent
<1>2. CostShape'
  BY <1>1 DEF CostRowsStand, CostShape
<1>3. LinesHaveShipments' /\ KeepsToInvoices(line, shipment)' /\ CompletedIsOver'
  BY <1>1 DEF CostRowsStand, LinesHaveShipments, KeepsToInvoices, CompletedIsOver, ShipmentsOf,
              Counted, ShippedBy, Plans
<1>4. \A x \in Expenses : (expense'[x] = Absent => batches'[x] = <<>>) /\ KeysDiffer(batches'[x])
  BY <1>1 DEF CostRowsStand
<1>5. BatchesStand'
  <2>1. ASSUME NEW x \in Expenses, NEW k \in DOMAIN batches[x]
        PROVE  /\ expense'[x].status # "CANCELLED"
               /\ Total(batches[x][k].shares) = batches[x][k].requested
               /\ \A l \in DOMAIN batches[x][k].shares :
                    l \in DOMAIN line /\ shipment[line[l].shipment].operation = expense'[x].operation
    <3>1. batches[x] # <<>>
      OBVIOUS
    <3>2. /\ expense[x].status # "CANCELLED" /\ expense[x] # Absent
          /\ Total(batches[x][k].shares) = batches[x][k].requested
          /\ \A l \in DOMAIN batches[x][k].shares :
               l \in DOMAIN line /\ shipment[line[l].shipment].operation = expense[x].operation
      BY <3>1 DEF CostRowsStand, BatchesStand
    <3>3. expense'[x].status # "CANCELLED" /\ expense'[x].operation = expense[x].operation
      BY <1>1, <3>1, <3>2 DEF Rewrites
    <3>. QED
      BY <3>2, <3>3
  <2>. QED
    BY <1>1, <2>1 DEF BatchesStand
<1>6. CostRowsStand'
  BY <1>2, <1>3, <1>4, <1>5 DEF CostRowsStand
<1>7. ASSUME NEW taken, <<"expense", e>> \notin taken \/ expense[e] = Absent PROVE Respects(taken)
  <2>1. \A x : \A i \in Items : ShippedBy(line', shipment', i, x) <= ShippedBy(line, shipment, i, x)
    BY <1>1, ShippedTyped DEF CostRowsStand, CostShape
  <2>2. \A x \in Expenses : <<"expense", x>> \in taken /\ expense[x] # Absent =>
          expense'[x] = expense[x] /\ batches'[x] = batches[x]
    BY <1>1, <1>7
  <2>. QED
    BY <1>1, <2>1, <2>2 DEF Respects, LinesOf, Allocated
<1>. QED
  BY <1>6, <1>7

LEMMA ExpenseTyped ==
  ASSUME CostShape, NEW e \in Expenses, expense[e] # Absent
  PROVE  /\ expense[e] \in ExpenseRecord
         /\ \A c \in Currencies, a \in ExpenseAmounts :
              LET x == [[expense[e] EXCEPT !.currency = c] EXCEPT !.amount = a]
              IN  /\ x \in ExpenseRecord /\ x.operation = expense[e].operation
                  /\ x.status = expense[e].status
         /\ \A st \in {"DRAFT", "FINALIZED", "CANCELLED"}, z \in BOOLEAN :
              LET x == [[expense[e] EXCEPT !.status = st] EXCEPT !.finalized = z]
              IN  x \in ExpenseRecord /\ x.operation = expense[e].operation /\ x.status = st
         /\ \A st \in {"DRAFT", "FINALIZED", "CANCELLED"} :
              LET x == [expense[e] EXCEPT !.status = st]
              IN  x \in ExpenseRecord /\ x.operation = expense[e].operation /\ x.status = st
<1>1. expense[e] \in ExpenseRecord
  BY DEF CostShape
<1>2. ASSUME NEW c \in Currencies, NEW a \in ExpenseAmounts
      PROVE  LET x == [[expense[e] EXCEPT !.currency = c] EXCEPT !.amount = a]
             IN  /\ x \in ExpenseRecord /\ x.operation = expense[e].operation
                 /\ x.status = expense[e].status
  BY <1>1 DEF ExpenseRecord
<1>3. ASSUME NEW st \in {"DRAFT", "FINALIZED", "CANCELLED"}, NEW z \in BOOLEAN
      PROVE  LET x == [[expense[e] EXCEPT !.status = st] EXCEPT !.finalized = z]
             IN  x \in ExpenseRecord /\ x.operation = expense[e].operation /\ x.status = st
  BY <1>1 DEF ExpenseRecord
<1>4. ASSUME NEW st \in {"DRAFT", "FINALIZED", "CANCELLED"}
      PROVE  LET x == [expense[e] EXCEPT !.status = st]
             IN  x \in ExpenseRecord /\ x.operation = expense[e].operation /\ x.status = st
  BY <1>1 DEF ExpenseRecord
<1>. QED
  BY <1>1, <1>2, <1>3, <1>4

\* Two fields of a row are written at once.
LEMMA WrittenTwice ==
  ASSUME NEW S, NEW T, NEW table \in [S -> T], NEW e \in S, NEW x, NEW y
  PROVE  /\ [table EXCEPT ![e].status = x, ![e].finalized = y]
              = [table EXCEPT ![e] = [[table[e] EXCEPT !.status = x] EXCEPT !.finalized = y]]
         /\ [table EXCEPT ![e].currency = x, ![e].amount = y]
              = [table EXCEPT ![e] = [[table[e] EXCEPT !.currency = x] EXCEPT !.amount = y]]
OBVIOUS

LEMMA CreatedExpenseStands ==
  ASSUME CostsStand, NEW e \in Expenses, NEW o \in Operations, NEW c \in Currencies,
         NEW a \in ExpenseAmounts, CreateExpense(e, o, c, a)
  PROVE  CostsStand'
<1>1. Rewrites(e) /\ expense[e] = Absent /\ request' = request
  BY DEF CostsStand, CostRowsStand, CostShape, CreateExpense, Rewrites, ExpenseRecord
<1>2. CostRowsStand' /\ \A taken : Respects(taken)
  BY <1>1, RewritesStands DEF CostsStand, CostRowsStand, CostShape
<1>. QED
  BY <1>1, <1>2, AllStand

LEMMA ExpenseStands ==
  ASSUME CostsStand, NEW e \in Expenses, FinalizeExpense(e) \/ CancelExpense(e)
  PROVE  CostsStand'
<1>1. /\ expense[e] # Absent /\ CostShape /\ request' = request /\ Free(ExpenseRow(e))
      /\ UNCHANGED <<operation, shipment, line, batches>>
      /\ expense[e].status \in {"DRAFT", "FINALIZED"}
  BY DEF CostsStand, CostRowsStand, FinalizeExpense, CancelExpense, Absent
<1>2. ASSUME FinalizeExpense(e) PROVE Rewrites(e)
  <2>1. expense' = [expense EXCEPT ![e] = [[expense[e] EXCEPT !.status = "FINALIZED"]
                                             EXCEPT !.finalized = TRUE]]
    BY <1>2, WrittenTwice DEF FinalizeExpense, CostShape, CostsStand, CostRowsStand
  <2>2. expense'[e] \in ExpenseRecord /\ expense'[e].operation = expense[e].operation
        /\ expense'[e].status = "FINALIZED" /\ expense' = [expense EXCEPT ![e] = expense'[e]]
    <3>1. expense' = [z \in Expenses |-> expense'[z]] /\ e \in DOMAIN expense
      BY <1>1, <2>1 DEF CostShape
    <3>2. LET x == [[expense[e] EXCEPT !.status = "FINALIZED"] EXCEPT !.finalized = TRUE]
          IN  x \in ExpenseRecord /\ x.operation = expense[e].operation /\ x.status = "FINALIZED"
      BY <1>1, ExpenseTyped
    <3>. QED
      BY <2>1, <3>1, <3>2
  <2>. QED
    BY <1>1, <2>2 DEF Rewrites
<1>3. ASSUME CancelExpense(e) PROVE Rewrites(e)
  <2>1. expense' = [expense EXCEPT ![e] = [expense[e] EXCEPT !.status = "CANCELLED"]] /\ batches[e] = <<>>
    BY <1>3 DEF CancelExpense
  <2>2. LET x == [expense[e] EXCEPT !.status = "CANCELLED"]
        IN  x \in ExpenseRecord /\ x.operation = expense[e].operation
    BY <1>1, ExpenseTyped
  <2>3. e \in DOMAIN expense
    BY <1>1 DEF CostShape
  <2>. QED
    BY <1>1, <2>1, <2>2, <2>3 DEF Rewrites
<1>4. Rewrites(e)
  BY <1>2, <1>3
<1>5. CostRowsStand' /\ \A taken : <<"expense", e>> \notin taken => Respects(taken)
  BY <1>1, <1>4, RewritesStands DEF CostsStand, CostRowsStand, CostShape
<1>. QED
  BY <1>1, <1>5, AllStand DEF Free, ExpenseRow

LEMMA UpdateStands ==
  ASSUME CostsStand, NEW p \in Importers, UpdateExpense(p)
  PROVE  CostsStand'
<1> DEFINE r == request[p]
           e == r.expense
<1>1. /\ e \in Expenses /\ r.currency \in Currencies /\ r.amount \in ExpenseAmounts
      /\ expense[e] # Absent /\ CostShape
  BY DEF CostsStand, CostRowsStand, HoldsRows, Updating, UpdateExpense
<1>2. /\ Commit(p) /\ request' = [q \in Importers |-> request'[q]]
      /\ \A q \in Importers \ {p} : <<"expense", e>> \notin request[q].locks
  BY DEF CostsStand, CostRowsStand, CostShape, UpdateExpense, Commit, Continue, FreeFor, ExpenseRow
<1>3. UNCHANGED <<operation, shipment, line, batches>>
  BY DEF UpdateExpense
<1> DEFINE x == [[expense[e] EXCEPT !.currency = r.currency] EXCEPT !.amount = r.amount]
<1>4. expense' = [expense EXCEPT ![e] = x]
  <2>1. expense' = [expense EXCEPT ![e].currency = r.currency, ![e].amount = r.amount]
    BY DEF UpdateExpense
  <2>2. expense \in [Expenses -> ExpenseRecord \cup {Absent}]
    BY <1>1 DEF CostShape
  <2> HIDE DEF r, e
  <2>. QED
    BY <1>1, <2>1, <2>2, WrittenTwice
<1>5. x \in ExpenseRecord /\ x.operation = expense[e].operation /\ x.status = expense[e].status
  <2>1. /\ \A c \in Currencies, a \in ExpenseAmounts :
              LET z == [[expense[e] EXCEPT !.currency = c] EXCEPT !.amount = a]
              IN  /\ z \in ExpenseRecord /\ z.operation = expense[e].operation
                  /\ z.status = expense[e].status
    BY <1>1, ExpenseTyped
  <2> HIDE DEF r, e
  <2>. QED
    BY <1>1, <2>1
<1> HIDE DEF r, e, x
<1>6. Rewrites(e)
  BY <1>1, <1>3, <1>4, <1>5 DEF Rewrites, CostShape
<1>7. CostRowsStand' /\ \A taken : <<"expense", e>> \notin taken => Respects(taken)
  BY <1>1, <1>2, <1>6, RewritesStands DEF CostsStand
<1>. QED
  BY <1>2, <1>7, CommitStands

\* The shipment s, new or planned, has the lines of content in place of its own.
Relines(s, content, new) ==
  /\ Replaces(line', line, LinesOf(s), s, content, new)
  /\ \A l \in LinesOf(s) : ~Allocated(l)
  /\ FitsIn(line, shipment, content, {s})
  /\ shipment' \in [Shipments -> ShipmentRecord \cup {Absent}]
  /\ shipment'[s] # Absent /\ shipment'[s].status # "CANCELLED"
  /\ shipment[s] = Absent \/ shipment'[s].operation = shipment[s].operation
  /\ \A t \in Shipments \ {s} : shipment'[t] = shipment[t]
  /\ operation' \in [Operations -> {"NONE", "DRAFT", "IN_PROGRESS", "COMPLETED", "CANCELLED"}]
  /\ UNCHANGED <<expense, batches>>

LEMMA RelinesStands ==
  ASSUME CostRowsStand, NEW s \in Shipments, NEW content \in Contents, NEW new,
         Relines(s, content, new), CompletedIsOver', request' = [q \in Importers |-> request'[q]]
  PROVE  /\ CostRowsStand'
         /\ \A taken : /\ <<"shipment", s>> \notin taken \/ shipment[s] = Absent
                       /\ (LineRows(LinesOf(s)) \cup ItemRows(content)) \cap taken = {}
                       /\ \A o \in Operations : <<"operation", o>> \in taken => operation'[o] = operation[o]
                       => Respects(taken)
<1> DEFINE old == LinesOf(s)
<1>1. /\ line \in LineTables /\ line' \in LineTables
      /\ DOMAIN line' = (DOMAIN line \ old) \cup {new[k] : k \in DOMAIN content}
      /\ \A l \in DOMAIN line \ old : line'[l] = line[l]
      /\ \A k \in DOMAIN content : line'[new[k]].shipment = s /\ new[k] \notin DOMAIN line \ old
      /\ UNCHANGED <<expense, batches>>
  BY DEF CostRowsStand, CostShape, Relines, Replaces
<1>2. CostShape'
  BY <1>1 DEF CostRowsStand, CostShape, Relines
<1>3. /\ \A l \in DOMAIN line : line[l].shipment \in Shipments /\ shipment[line[l].shipment] # Absent
      /\ \A t \in Shipments : shipment[t] # Absent =>
           shipment'[t] # Absent /\ shipment'[t].operation = shipment[t].operation
      /\ \A l \in DOMAIN line \ old : line[l].shipment # s
  BY <1>1, TableTyped DEF CostRowsStand, LinesHaveShipments, LineRecord, Relines, LinesOf
<1>4. LinesHaveShipments'
  <2>1. ASSUME NEW l \in DOMAIN line' PROVE shipment'[line'[l].shipment] # Absent
    <3>1. CASE l \in DOMAIN line \ old
      BY <1>1, <1>3, <3>1
    <3>2. CASE l \in {new[k] : k \in DOMAIN content}
      BY <1>1, <3>2 DEF Relines
    <3>. QED
      BY <1>1, <3>1, <3>2
  <2>. QED
    BY <2>1 DEF LinesHaveShipments
<1>5. ASSUME NEW i, NEW x, s \notin x
      PROVE  ShippedBy(line', shipment', i, x)
               = ShippedBy(line, shipment, i, x \cup {s}) + RequestedOf(i, content)
  <2>1. old = {l \in DOMAIN line : line[l].shipment = s}
    BY DEF LinesOf
  <2>2. \A t \in Shipments \ {s} : shipment'[t].status = shipment[t].status
    BY DEF Relines
  <2>3. Replaces(line', line, old, s, content, new) /\ shipment'[s].status # "CANCELLED"
    BY DEF Relines
  <2> HIDE DEF old
  <2>. QED
    BY <1>1, <1>5, <2>1, <2>2, <2>3, ReplacedShips
<1>6. \A i, x : /\ ShippedBy(line, shipment, i, x \cup {s}) <= ShippedBy(line, shipment, i, x)
                /\ ShippedBy(line, shipment, i, x \cup {s}) \in Nat
                /\ ShippedBy(line, shipment, i, x) \in Nat
  <2>1. \A i, x : \A l \in Counted(line, shipment, i, x \cup {s}) : l \in Counted(line, shipment, i, x)
    BY DEF Counted
  <2>. QED
    BY <1>1, <2>1, FewerLinesShipLess, ShippedTyped
<1>7. KeepsToInvoices(line, shipment)'
  <2>1. SUFFICES ASSUME NEW i \in Items PROVE ShippedBy(line', shipment', i, {}) <= Invoiced[i]
    BY DEF KeepsToInvoices
  <2>2. {} \cup {s} = {s} /\ s \notin {}
    OBVIOUS
  <2>3. /\ ShippedBy(line', shipment', i, {})
             = ShippedBy(line, shipment, i, {s}) + RequestedOf(i, content)
        /\ ShippedBy(line, shipment, i, {s}) <= ShippedBy(line, shipment, i, {})
        /\ ShippedBy(line, shipment, i, {s}) \in Nat /\ ShippedBy(line, shipment, i, {}) \in Nat
        /\ RequestedOf(i, content) \in Nat /\ Invoiced[i] \in Nat
    BY <1>5, <1>6, <2>2, RequestedTyped, ImportCostsAssumption
  <2>4. ShippedBy(line, shipment, i, {}) <= Invoiced[i]
    BY DEF CostRowsStand, KeepsToInvoices
  <2>5. RequestedOf(i, content) > 0 =>
          ShippedBy(line, shipment, i, {s}) + RequestedOf(i, content) <= Invoiced[i]
    BY DEF Relines, FitsIn
  <2>. QED
    BY <2>3, <2>4, <2>5
<1>8. BatchesStand'
  <2>1. SUFFICES ASSUME NEW e \in Expenses, NEW k \in DOMAIN batches[e],
                        NEW l \in DOMAIN batches[e][k].shares
                 PROVE  /\ l \in DOMAIN line'
                        /\ shipment'[line'[l].shipment].operation = expense[e].operation
    BY <1>1 DEF CostRowsStand, BatchesStand
  <2>2. l \in DOMAIN line /\ shipment[line[l].shipment].operation = expense[e].operation
    BY DEF CostRowsStand, BatchesStand
  <2>3. l \notin old
    BY DEF Relines, Allocated
  <2>. QED
    BY <1>1, <1>3, <2>2, <2>3
<1>9. CostRowsStand'
  BY <1>1, <1>2, <1>4, <1>7, <1>8 DEF CostRowsStand
<1>10. ASSUME NEW taken, <<"shipment", s>> \notin taken \/ shipment[s] = Absent,
              (LineRows(old) \cup ItemRows(content)) \cap taken = {},
              \A o \in Operations : <<"operation", o>> \in taken => operation'[o] = operation[o]
       PROVE  Respects(taken)
  <2>1. ASSUME NEW t \in Shipments, <<"shipment", t>> \in taken, shipment[t] # Absent
        PROVE  t # s /\ shipment'[t] = shipment[t] /\ LinesOf(t)' = LinesOf(t)
    <3>1. t # s /\ shipment'[t] = shipment[t]
      BY <1>10, <2>1 DEF Relines
    <3>2. \A l \in old : l \in DOMAIN line /\ line[l].shipment = s
      BY DEF LinesOf
    <3> HIDE DEF old
    <3>3. {l \in DOMAIN line' : line'[l].shipment = t} = {l \in DOMAIN line : line[l].shipment = t}
      BY <1>1, <3>1, <3>2
    <3>. QED
      BY <3>1, <3>3 DEF LinesOf
  <2>2. ASSUME NEW l \in DOMAIN line, <<"line", l>> \in taken
        PROVE  l \in DOMAIN line' /\ line'[l].shipment = line[l].shipment /\ (Allocated(l)' => Allocated(l))
    <3>1. l \notin old
      BY <1>10, <2>2 DEF LineRows
    <3>. QED
      BY <1>1, <3>1 DEF Allocated
  <2>3. ASSUME NEW i \in Items, <<"item", i>> \in taken, NEW x, s \notin x
        PROVE  ShippedBy(line', shipment', i, x) <= ShippedBy(line, shipment, i, x)
    <3>1. RequestedOf(i, content) = 0
      BY <1>10, <2>3, NamedIsLocked
    <3>2. /\ ShippedBy(line', shipment', i, x)
               = ShippedBy(line, shipment, i, x \cup {s}) + RequestedOf(i, content)
          /\ ShippedBy(line, shipment, i, x \cup {s}) <= ShippedBy(line, shipment, i, x)
          /\ ShippedBy(line, shipment, i, x \cup {s}) \in Nat
      BY <1>5, <1>6, <2>3
    <3>. QED
      BY <3>1, <3>2
  <2>4. ASSUME NEW i \in Items, <<"item", i>> \in taken
        PROVE  /\ ShippedBy(line', shipment', i, {}) <= ShippedBy(line, shipment, i, {})
               /\ \A t \in Shipments : <<"shipment", t>> \in taken /\ shipment[t] # Absent =>
                    ShippedBy(line', shipment', i, {t}) <= ShippedBy(line, shipment, i, {t})
    <3>1. s \notin {}
      OBVIOUS
    <3>2. \A t : t # s => s \notin {t}
      OBVIOUS
    <3>3. ShippedBy(line', shipment', i, {}) <= ShippedBy(line, shipment, i, {})
      BY <2>3, <2>4, <3>1
    <3>. QED
      BY <2>1, <2>3, <2>4, <3>2, <3>3
  <2>. QED
    BY <1>1, <1>3, <1>10, <2>1, <2>2, <2>4 DEF Respects
<1>. QED
  BY <1>9, <1>10

LEMMA CreatedShipmentStands ==
  ASSUME CostsStand, NEW p \in Importers, NEW s \in Shipments, CreateShipment(p, s)
  PROVE  CostsStand'
<1> DEFINE r == request[p]
           o == r.operation
           content == r.content
<1>1. /\ o \in Operations /\ content \in Contents
      /\ OperationRow(o) \cup ItemRows(content) \subseteq r.locks
      /\ operation[o] \in {"DRAFT", "IN_PROGRESS"}
      /\ FitsIn(line, shipment, content, {})
  BY DEF CostsStand, HoldsRows, Creating, CreateShipment
<1>2. /\ shipment[s] = Absent /\ Cardinality(FreshLines({})) >= Len(content)
      /\ shipment' = [shipment EXCEPT ![s] = [status |-> "PLANNED", operation |-> o]]
      /\ line' = WithLines({}, s, content)
      /\ operation' = [operation EXCEPT ![o] = IF @ = "DRAFT" THEN "IN_PROGRESS" ELSE @]
      /\ Commit(p) /\ UNCHANGED <<expense, batches>>
  BY DEF CreateShipment
<1>3. \A q \in Importers \ {p} : request[q].locks \cap r.locks = {}
  BY DEF CostsStand, LocksExclude
<1> HIDE DEF r, o, content
<1>4. /\ CostShape /\ line \in LineTables
      /\ shipment \in [Shipments -> ShipmentRecord \cup {Absent}]
      /\ operation \in [Operations -> {"NONE", "DRAFT", "IN_PROGRESS", "COMPLETED", "CANCELLED"}]
      /\ request' = [q \in Importers |-> request'[q]]
  BY <1>2 DEF CostsStand, CostRowsStand, CostShape, Commit, Continue
<1>5. LinesOf(s) = {}
  BY <1>2 DEF CostsStand, CostRowsStand, LinesHaveShipments, LinesOf
<1>6. PICK new : Replaces(line', line, LinesOf(s), s, content, new)
  <2>1. \E new : Replaces(WithLines({}, s, content), line, {}, s, content, new)
    BY <1>1, <1>2, <1>4, WithLinesReplaces
  <2>. QED
    BY <1>2, <1>5, <2>1
<1>7. /\ shipment'[s] = [status |-> "PLANNED", operation |-> o]
      /\ shipment' \in [Shipments -> ShipmentRecord \cup {Absent}]
      /\ shipment'[s] # Absent /\ shipment'[s].status # "CANCELLED"
      /\ \A t \in Shipments \ {s} : shipment'[t] = shipment[t]
      /\ operation' \in [Operations -> {"NONE", "DRAFT", "IN_PROGRESS", "COMPLETED", "CANCELLED"}]
      /\ operation'[o] # "COMPLETED"
      /\ \A x \in Operations \ {o} : operation'[x] = operation[x]
  BY <1>1, <1>2, <1>4 DEF ShipmentRecord, Absent
<1>8. FitsIn(line, shipment, content, {s})
  <2>1. \A i : \A l \in Counted(line, shipment, i, {s}) : l \in Counted(line, shipment, i, {})
    BY DEF Counted
  <2>2. \A i : ShippedBy(line, shipment, i, {s}) <= ShippedBy(line, shipment, i, {})
    BY <1>4, <2>1, FewerLinesShipLess
  <2>3. \A i \in Items : /\ ShippedBy(line, shipment, i, {s}) \in Nat
                         /\ ShippedBy(line, shipment, i, {}) \in Nat
                         /\ RequestedOf(i, content) \in Nat /\ Invoiced[i] \in Nat
    BY <1>1, <1>4, ShippedTyped, RequestedTyped, ImportCostsAssumption
  <2>. QED
    BY <1>1, <2>2, <2>3 DEF FitsIn
<1>9. Relines(s, content, new)
  BY <1>2, <1>5, <1>6, <1>7, <1>8 DEF Relines
<1>10. CompletedIsOver'
  <2>1. SUFFICES ASSUME NEW x \in Operations, operation'[x] = "COMPLETED", NEW t \in ShipmentsOf(x)'
                 PROVE  shipment'[t].status \in {"ARRIVED", "CANCELLED"}
    BY DEF CompletedIsOver
  <2>2. x # o /\ operation[x] = "COMPLETED"
    BY <1>7, <2>1
  <2>3. t \in Shipments \ {s}
    BY <1>7, <2>2 DEF ShipmentsOf
  <2>4. t \in ShipmentsOf(x) /\ shipment'[t] = shipment[t]
    BY <1>7, <2>3 DEF ShipmentsOf
  <2>. QED
    BY <2>2, <2>4 DEF CostsStand, CostRowsStand, CompletedIsOver
<1>11. ASSUME NEW q \in Importers \ {p} PROVE Respects(request[q].locks)
  <2>1. (LineRows(LinesOf(s)) \cup ItemRows(content)) \cap request[q].locks = {}
    BY <1>1, <1>3, <1>5 DEF LineRows
  <2>2. \A x \in Operations : <<"operation", x>> \in request[q].locks => operation'[x] = operation[x]
    BY <1>1, <1>3, <1>7 DEF OperationRow
  <2>. QED
    BY <1>1, <1>2, <1>4, <1>9, <1>10, <2>1, <2>2, RelinesStands DEF CostsStand
<1>12. CostRowsStand'
  BY <1>1, <1>4, <1>9, <1>10, RelinesStands DEF CostsStand
<1>. QED
  BY <1>2, <1>11, <1>12, CommitStands

LEMMA InsertedLinesStand ==
  ASSUME CostsStand, NEW p \in Importers, InsertLines(p)
  PROVE  CostsStand'
<1> DEFINE r == request[p]
           s == r.shipment
           content == r.content
<1>1. /\ s \in Shipments /\ content \in Contents
      /\ ShipmentRow(s) \cup LineRows(LinesOf(s)) \cup ItemRows(content) \subseteq r.locks
      /\ shipment[s].status = "PLANNED"
      /\ \A l \in LinesOf(s) : ~Allocated(l)
      /\ FitsIn(line, shipment, content, {s})
  BY DEF CostsStand, HoldsRows, Replacing, InsertLines
<1>2. /\ Cardinality(FreshLines(LinesOf(s))) >= Len(content)
      /\ line' = WithLines(LinesOf(s), s, content)
      /\ Commit(p) /\ UNCHANGED <<operation, shipment, expense, batches>>
  BY DEF InsertLines
<1>3. \A q \in Importers \ {p} : request[q].locks \cap r.locks = {}
  BY DEF CostsStand, LocksExclude
<1> HIDE DEF r, s, content
<1>4. /\ CostShape /\ line \in LineTables
      /\ shipment \in [Shipments -> ShipmentRecord \cup {Absent}]
      /\ operation \in [Operations -> {"NONE", "DRAFT", "IN_PROGRESS", "COMPLETED", "CANCELLED"}]
      /\ request' = [q \in Importers |-> request'[q]]
  BY <1>2 DEF CostsStand, CostRowsStand, CostShape, Commit, Continue
<1>5. PICK new : Replaces(line', line, LinesOf(s), s, content, new)
  BY <1>1, <1>2, <1>4, WithLinesReplaces
<1>6. Relines(s, content, new)
  BY <1>1, <1>2, <1>4, <1>5 DEF Relines, Absent
<1>7. CompletedIsOver'
  BY <1>2 DEF CostsStand, CostRowsStand, CompletedIsOver, ShipmentsOf
<1>8. CostRowsStand'
  BY <1>1, <1>4, <1>6, <1>7, RelinesStands DEF CostsStand
<1>9. ASSUME NEW q \in Importers \ {p} PROVE Respects(request[q].locks)
  <2>1. /\ (LineRows(LinesOf(s)) \cup ItemRows(content)) \cap request[q].locks = {}
        /\ <<"shipment", s>> \notin request[q].locks
    BY <1>1, <1>3 DEF ShipmentRow
  <2>2. \A x \in Operations : operation'[x] = operation[x]
    BY <1>2
  <2>. QED
    BY <1>1, <1>4, <1>6, <1>7, <2>1, <2>2, RelinesStands DEF CostsStand
<1>. QED
  BY <1>2, <1>8, <1>9, CommitStands

\* The batch that is added, and what it was checked against.
Allots(e, b) ==
  /\ e \in Expenses /\ b \in Batch
  /\ expense[e].status \in {"DRAFT", "FINALIZED"}
  /\ AssignedOf(batches[e]) + b.requested <= expense[e].amount
  /\ KeyIsNew(batches[e], b.key)
  /\ Total(b.shares) = b.requested
  /\ \A l \in DOMAIN b.shares :
       l \in DOMAIN line /\ shipment[line[l].shipment].operation = expense[e].operation
  /\ batches' = [batches EXCEPT ![e] = Append(@, b)]
  /\ UNCHANGED <<operation, shipment, line, expense>>

LEMMA BatchIsAllotted ==
  ASSUME CostsStand, NEW p \in Importers, InsertBatch(p)
  PROVE  \E b : /\ Allots(request[p].expense, b)
                /\ <<"expense", request[p].expense>> \in request[p].locks
                /\ LineRows(DOMAIN b.shares) \subseteq request[p].locks
<1> DEFINE r == request[p]
<1>1. /\ r.expense \in Expenses /\ r.key \in ExpenseKeys \cup {NoExpenseKey}
      /\ r.amount \in Portions /\ r.method \in Methods /\ r.lines # {}
      /\ <<"expense", r.expense>> \in r.locks
      /\ expense[r.expense].status \in {"DRAFT", "FINALIZED"}
      /\ AssignedOf(batches[r.expense]) + r.amount <= expense[r.expense].amount
      /\ KeyIsNew(batches[r.expense], r.key)
      /\ LineRows(r.lines) \subseteq r.locks /\ r.lines \subseteq DOMAIN line
      /\ \A l \in r.lines : shipment[line[l].shipment].operation = expense[r.expense].operation
  BY DEF InsertBatch, CostsStand, HoldsRows, Allocating, ExpenseRow
<1>2. PICK shares \in AllocationShares(r.method, r.amount, r.lines) :
        /\ AmountsPositive(shares)
        /\ batches' = [batches EXCEPT ![r.expense] =
             Append(@, [key |-> r.key, requested |-> r.amount, shares |-> shares])]
  BY DEF InsertBatch
<1>3. line \in LineTables /\ UNCHANGED <<operation, shipment, line, expense>>
  BY DEF InsertBatch, CostsStand, CostRowsStand, CostShape
<1> DEFINE b == [key |-> r.key, requested |-> r.amount, shares |-> shares]
<1> HIDE DEF r
<1>4. shares \in [r.lines -> Nat] /\ Total(shares) = r.amount
  BY <1>1, <1>2, <1>3, SharesExact
<1>5. b \in Batch
  <2>1. r.lines \in SUBSET (1..MaxLines)
    BY <1>1, <1>3, TableTyped
  <2>. QED
    BY <1>1, <1>4, <2>1 DEF Batch
<1>6. DOMAIN b.shares = r.lines
  BY <1>4
<1>7. Allots(r.expense, b)
  BY <1>1, <1>2, <1>3, <1>4, <1>5, <1>6 DEF Allots
<1>. QED
  BY <1>1, <1>6, <1>7 DEF r

LEMMA AllottedStands ==
  ASSUME CostRowsStand, NEW e, NEW b, Allots(e, b), request' = [q \in Importers |-> request'[q]]
  PROVE  /\ CostRowsStand'
         /\ \A taken : <<"expense", e>> \notin taken /\ LineRows(DOMAIN b.shares) \cap taken = {} =>
                         Respects(taken)
<1>1. /\ e \in Expenses /\ b \in Batch /\ expense[e] # Absent
      /\ batches \in [Expenses -> Seq(Batch)] /\ batches[e] \in Seq(Batch)
      /\ batches'[e] = Append(batches[e], b)
      /\ \A x \in Expenses \ {e} : batches'[x] = batches[x]
      /\ UNCHANGED <<operation, shipment, line, expense>>
  BY DEF CostRowsStand, CostShape, Allots, Absent
<1>2. /\ batches'[e] \in Seq(Batch)
      /\ DOMAIN batches'[e] = DOMAIN batches[e] \cup {Len(batches[e]) + 1}
      /\ Len(batches[e]) + 1 \notin DOMAIN batches[e]
      /\ batches'[e][Len(batches[e]) + 1] = b
      /\ \A k \in DOMAIN batches[e] : batches'[e][k] = batches[e][k]
  BY <1>1, AppendedBatch
<1>3. batches' \in [Expenses -> Seq(Batch)]
  BY <1>1, <1>2 DEF Allots
<1>4. CostShape'
  BY <1>1, <1>3 DEF CostRowsStand, CostShape
<1>5. LinesHaveShipments' /\ KeepsToInvoices(line, shipment)' /\ CompletedIsOver'
  BY <1>1 DEF CostRowsStand, LinesHaveShipments, KeepsToInvoices, CompletedIsOver, ShipmentsOf,
              Counted, ShippedBy, Plans
<1>6. \A x \in Expenses : (expense'[x] = Absent => batches'[x] = <<>>) /\ KeysDiffer(batches'[x])
  <2>1. KeysDiffer(batches'[e])
    BY <1>1, <1>2 DEF CostRowsStand, Allots, KeysDiffer, KeyIsNew
  <2>. QED
    BY <1>1, <2>1 DEF CostRowsStand
<1>7. BatchesStand'
  <2>1. ASSUME NEW x \in Expenses, NEW k \in DOMAIN batches'[x]
        PROVE  /\ expense[x].status # "CANCELLED"
               /\ Total(batches'[x][k].shares) = batches'[x][k].requested
               /\ \A l \in DOMAIN batches'[x][k].shares :
                    l \in DOMAIN line /\ shipment[line[l].shipment].operation = expense[x].operation
    <3>1. CASE x = e /\ k = Len(batches[e]) + 1
      BY <1>2, <3>1 DEF Allots
    <3>2. CASE x # e \/ k # Len(batches[e]) + 1
      <4>1. k \in DOMAIN batches[x] /\ batches'[x][k] = batches[x][k]
        <5>1. CASE x = e
          BY <1>2, <2>1, <3>2, <5>1
        <5>2. CASE x # e
          BY <1>1, <2>1, <5>2
        <5>. QED
          BY <5>1, <5>2
      <4>. QED
        BY <4>1 DEF CostRowsStand, BatchesStand
    <3>. QED
      BY <3>1, <3>2
  <2>. QED
    BY <1>1, <2>1 DEF BatchesStand
<1>8. CostRowsStand'
  BY <1>4, <1>5, <1>6, <1>7 DEF CostRowsStand
<1>9. ASSUME NEW taken, <<"expense", e>> \notin taken, LineRows(DOMAIN b.shares) \cap taken = {}
      PROVE  Respects(taken)
  <2>1. \A x : \A i \in Items : ShippedBy(line', shipment', i, x) <= ShippedBy(line, shipment, i, x)
    BY <1>1, ShippedTyped DEF CostRowsStand, CostShape
  <2>2. ASSUME NEW l \in DOMAIN line, <<"line", l>> \in taken, Allocated(l)' PROVE Allocated(l)
    <3>1. PICK x \in Expenses : \E k \in DOMAIN batches'[x] : l \in DOMAIN batches'[x][k].shares
      BY <2>2 DEF Allocated
    <3>2. PICK k \in DOMAIN batches'[x] : l \in DOMAIN batches'[x][k].shares
      BY <3>1
    <3>3. l \notin DOMAIN b.shares
      BY <1>9, <2>2 DEF LineRows
    <3>4. k \in DOMAIN batches[x] /\ batches'[x][k] = batches[x][k]
      BY <1>1, <1>2, <3>2, <3>3
    <3>. QED
      BY <3>2, <3>4 DEF Allocated
  <2>3. \A x \in Expenses : <<"expense", x>> \in taken => batches'[x] = batches[x]
    BY <1>1, <1>9
  <2>. QED
    BY <1>1, <2>1, <2>2, <2>3 DEF Respects, LinesOf
<1>. QED
  BY <1>8, <1>9

LEMMA InsertedBatchStands ==
  ASSUME CostsStand, NEW p \in Importers, InsertBatch(p)
  PROVE  CostsStand'
<1> DEFINE e == request[p].expense
<1>1. PICK b : /\ Allots(e, b) /\ <<"expense", e>> \in request[p].locks
               /\ LineRows(DOMAIN b.shares) \subseteq request[p].locks
  BY BatchIsAllotted
<1>2. Commit(p) /\ request' = [q \in Importers |-> request'[q]]
  BY DEF CostsStand, CostRowsStand, CostShape, InsertBatch, Commit, Continue
<1> HIDE DEF e
<1>3. ASSUME NEW q \in Importers \ {p}
      PROVE  /\ <<"expense", e>> \notin request[q].locks
             /\ LineRows(DOMAIN b.shares) \cap request[q].locks = {}
  BY <1>1 DEF CostsStand, LocksExclude
<1>4. /\ CostRowsStand' /\ \A q \in Importers \ {p} : Respects(request[q].locks)
  BY <1>1, <1>2, <1>3, AllottedStands DEF CostsStand
<1>. QED
  BY <1>2, <1>4, CommitStands

-----------------------------------------------------------------------------
(* Costs: receipts are linked, which changes only the links of a line. *)

LEMMA LinkedStands ==
  ASSUME CostsStand, NEW l \in DOMAIN line, NEW linked \in Seq(Nat),
         line' = [line EXCEPT ![l].links = linked],
         UNCHANGED <<operation, shipment, expense, batches, request>>
  PROVE  CostsStand'
<1>1. /\ line \in LineTables /\ line[l] \in LineRecord
      /\ \A k \in DOMAIN line : line[k] \in LineRecord
      /\ DOMAIN line \subseteq 1..MaxLines
      /\ line = [k \in DOMAIN line |-> line[k]]
  BY TableTyped DEF CostsStand, CostRowsStand, CostShape, LineTables
<1>2. /\ DOMAIN line' = DOMAIN line
      /\ \A k \in DOMAIN line : /\ line'[k] \in LineRecord
                                /\ line'[k].shipment = line[k].shipment
                                /\ line'[k].planned = line[k].planned
                                /\ line'[k].item = line[k].item
      /\ line' = [k \in DOMAIN line |-> line'[k]]
  BY <1>1 DEF LineRecord
<1>3. line' \in LineTables
  <2>1. line' \in [DOMAIN line -> LineRecord]
    BY <1>2
  <2>. QED
    BY <1>1, <2>1 DEF LineTables
<1>4. CostShape'
  BY <1>3 DEF CostsStand, CostRowsStand, CostShape
<1>5. \A i, x : ShippedBy(line', shipment', i, x) = ShippedBy(line, shipment, i, x)
  <2>1. \A i, x : Counted(line', shipment', i, x) = Counted(line, shipment, i, x)
    BY <1>2 DEF Counted
  <2>2. \A i, x : Counted(line, shipment, i, x) \subseteq DOMAIN line
    BY DEF Counted
  <2>3. \A i, x : Plans(line', Counted(line, shipment, i, x)) = Plans(line, Counted(line, shipment, i, x))
    BY <1>2, <2>2 DEF Plans
  <2>. QED
    BY <2>1, <2>3 DEF ShippedBy
<1>6. LinesHaveShipments' /\ KeepsToInvoices(line, shipment)' /\ CompletedIsOver' /\ BatchesStand'
  <2>1. LinesHaveShipments'
    BY <1>2 DEF CostsStand, CostRowsStand, LinesHaveShipments
  <2>2. KeepsToInvoices(line, shipment)'
    BY <1>5 DEF CostsStand, CostRowsStand, KeepsToInvoices
  <2>3. CompletedIsOver'
    BY DEF CostsStand, CostRowsStand, CompletedIsOver, ShipmentsOf
  <2>4. BatchesStand'
    BY <1>2 DEF CostsStand, CostRowsStand, BatchesStand
  <2>. QED
    BY <2>1, <2>2, <2>3, <2>4
<1>7. CostRowsStand'
  BY <1>4, <1>6 DEF CostsStand, CostRowsStand
<1>8. ASSUME NEW taken PROVE Respects(taken)
  <2>1. \A x : \A i \in Items : ShippedBy(line, shipment, i, x) <= ShippedBy(line, shipment, i, x)
    BY <1>1, ShippedTyped
  <2>2. \A s : LinesOf(s)' = LinesOf(s)
    BY <1>2 DEF LinesOf
  <2>. QED
    BY <1>2, <1>5, <2>1, <2>2 DEF Respects, Allocated
<1>. QED
  BY <1>7, <1>8, AllStand

LEMMA LinkStands ==
  ASSUME CostsStand, NextLink
  PROVE  CostsStand'
<1>1. PICK l \in DOMAIN line : \/ \E quantity \in 1..line[l].planned : LinkReceipts(l, quantity)
                               \/ \E k \in DOMAIN line[l].links : UnlinkReceipts(l, k)
  BY DEF NextLink
<1>2. line[l].links \in Seq(Nat) /\ line[l].planned \in Nat
  BY TableTyped DEF CostsStand, CostRowsStand, CostShape, LineRecord
<1>3. ASSUME NEW quantity \in 1..line[l].planned, LinkReceipts(l, quantity) PROVE CostsStand'
  <2>1. Append(line[l].links, quantity) \in Seq(Nat)
    BY <1>2
  <2>. QED
    BY <1>3, <2>1, LinkedStands DEF LinkReceipts
<1>4. ASSUME NEW k \in DOMAIN line[l].links, UnlinkReceipts(l, k) PROVE CostsStand'
  <2> DEFINE linked == line[l].links
  <2>1. SubSeq(linked, 1, k - 1) \in Seq(Nat) /\ SubSeq(linked, k + 1, Len(linked)) \in Seq(Nat)
    <3>1. /\ \A i \in 1 .. Len(linked) : linked[i] \in Nat /\ Len(linked) \in Nat
          /\ k \in 1 .. Len(linked)
      BY <1>2
    <3> HIDE DEF linked
    <3>2. /\ \A i \in 1 .. k - 1 : linked[i] \in Nat
          /\ \A i \in k + 1 .. Len(linked) : linked[i] \in Nat
          /\ k - 1 \in Int /\ k + 1 \in Int /\ Len(linked) \in Int
      BY <3>1
    <3>. QED
      BY <3>2, SubSeqProperties
  <2>2. SubSeq(linked, 1, k - 1) \o SubSeq(linked, k + 1, Len(linked)) \in Seq(Nat)
    BY <2>1
  <2>. QED
    BY <1>4, <2>2, LinkedStands DEF UnlinkReceipts
<1>. QED
  BY <1>1, <1>3, <1>4

-----------------------------------------------------------------------------
(* Costs: the theorems. *)

LEMMA CostsBegin == CostsInit => CostsStand
<1>1. SUFFICES ASSUME CostsInit PROVE CostsStand
  OBVIOUS
<1>2. CostShape
  <2>1. <<>> \in LineTables
    <3>1. DOMAIN <<>> = {} /\ <<>> \in [{} -> LineRecord] /\ {} \in SUBSET (1..MaxLines)
      OBVIOUS
    <3>. QED
      BY <3>1 DEF LineTables
  <2>2. <<>> \in Seq(Batch)
    OBVIOUS
  <2>. QED
    BY <1>1, <2>1, <2>2 DEF CostsInit, CostShape
<1>3. DOMAIN line = {}
  BY <1>1 DEF CostsInit
<1>4. LinesHaveShipments /\ CompletedIsOver /\ BatchesStand
  BY <1>1, <1>3 DEF CostsInit, LinesHaveShipments, CompletedIsOver, BatchesStand
<1>5. KeepsToInvoices(line, shipment)
  <2>1. ASSUME NEW i \in Items PROVE ShippedBy(line, shipment, i, {}) <= Invoiced[i]
    <3>1. Counted(line, shipment, i, {}) = {}
      BY <1>3 DEF Counted
    <3>2. ShippedBy(line, shipment, i, {}) = 0
      BY <3>1, SumNothing DEF ShippedBy, Plans
    <3>. QED
      BY <3>2, ImportCostsAssumption
  <2>. QED
    BY <2>1 DEF KeepsToInvoices
<1>6. \A e \in Expenses : (expense[e] = Absent => batches[e] = <<>>) /\ KeysDiffer(batches[e])
  BY <1>1 DEF CostsInit, KeysDiffer
<1>7. LocksExclude /\ \A p \in Importers : HoldsRows(p)
  BY <1>1 DEF CostsInit, Idle, LocksExclude, HoldsRows, Creating, Replacing, Cancelling, Updating,
              Allocating
<1>. QED
  BY <1>2, <1>4, <1>5, <1>6, <1>7 DEF CostsStand, CostRowsStand

LEMMA NextShipmentStands ==
  ASSUME CostsStand, NextShipment
  PROVE  CostsStand'
<1>1. ASSUME NEW p \in Importers, NEW content \in Contents, NEW o \in Operations,
             BeginShipment(p, o, content)
      PROVE  CostsStand'
  BY <1>1, CreatingBegins
<1>2. ASSUME NEW p \in Importers, NEW content \in Contents, NEW s \in Shipments,
             BeginReplace(p, s, content)
      PROVE  CostsStand'
  BY <1>2, ReplacingBegins
<1>3. ASSUME NEW p \in Importers, NEW s \in Shipments, CreateShipment(p, s) \/ BeginCancelShipment(p, s)
      PROVE  CostsStand'
  BY <1>3, CreatedShipmentStands, CancellingBegins
<1>4. ASSUME NEW p \in Importers, DeleteLines(p) \/ InsertLines(p) \/ CommitCancelShipment(p)
      PROVE  CostsStand'
  BY <1>4, LinesAreDeleted, InsertedLinesStand, CancellationStands
<1>5. ASSUME NEW s \in Shipments, Depart(s) \/ Arrive(s) PROVE CostsStand'
  BY <1>5, ShipmentStands
<1>. QED
  BY <1>1, <1>2, <1>3, <1>4, <1>5 DEF NextShipment

LEMMA NextExpenseStands ==
  ASSUME CostsStand, NextExpense
  PROVE  CostsStand'
<1>1. ASSUME NEW e \in Expenses, NEW o \in Operations, NEW c \in Currencies, NEW a \in ExpenseAmounts,
             CreateExpense(e, o, c, a)
      PROVE  CostsStand'
  BY <1>1, CreatedExpenseStands
<1>2. ASSUME NEW p \in Importers, NEW e \in Expenses, NEW c \in Currencies, NEW a \in ExpenseAmounts,
             BeginUpdateExpense(p, e, c, a)
      PROVE  CostsStand'
  BY <1>2, UpdatingBegins
<1>3. ASSUME NEW p \in Importers, NEW e \in Expenses, NEW m \in Methods, NEW a \in Portions,
             NEW k \in ExpenseKeys \cup {NoExpenseKey}, NEW ls \in (SUBSET DOMAIN line) \ {{}},
             BeginAllocate(p, e, k, a, m, ls)
      PROVE  CostsStand'
  BY <1>3, AllocatingBegins
<1>4. ASSUME NEW e \in Expenses, FinalizeExpense(e) \/ CancelExpense(e) PROVE CostsStand'
  BY <1>4, ExpenseStands
<1>5. ASSUME NEW p \in Importers, UpdateExpense(p) \/ LockLines(p) \/ InsertBatch(p) PROVE CostsStand'
  BY <1>5, UpdateStands, LinesAreLocked, InsertedBatchStands
<1>. QED
  BY <1>1, <1>2, <1>3, <1>4, <1>5 DEF NextExpense

LEMMA CostsKeepStanding == CostsStand /\ [CostsNext]_costVars => CostsStand'
<1>1. SUFFICES ASSUME CostsStand, [CostsNext]_costVars PROVE CostsStand'
  OBVIOUS
<1>2. CASE NextOperation
  BY <1>1, <1>2, OperationStands DEF NextOperation
<1>3. CASE NextShipment
  BY <1>1, <1>3, NextShipmentStands
<1>4. CASE NextExpense
  BY <1>1, <1>4, NextExpenseStands
<1>5. CASE NextLink
  BY <1>1, <1>5, LinkStands
<1>6. ASSUME NEW p \in Importers, RollBackCosts(p) PROVE CostsStand'
  BY <1>1, <1>6, CostsRollBack
<1>7. CASE UNCHANGED costVars
  <2>1. CostRowsStand' /\ \A taken : Respects(taken)
    BY <1>1, <1>7, NothingStands, NothingRespects DEF CostsStand, CostRowsStand, CostShape, costVars
  <2>2. UNCHANGED request
    BY <1>7 DEF costVars
  <2>. QED
    BY <1>1, <2>1, <2>2, AllStand
<1>. QED
  BY <1>1, <1>2, <1>3, <1>4, <1>5, <1>6, <1>7 DEF CostsNext

LEMMA CostsAlwaysStand == CostsSpec => []CostsStand
BY CostsBegin, CostsKeepStanding, PTL DEF CostsSpec

(* Whatever shipments are created, edited and cancelled at once, those that    *)
(* are not cancelled never plan more of an invoice than was invoiced           *)
(* (resolveAndValidateLines): each request that adds lines has locked the      *)
(* items it sums, and whoever takes lines away has locked its shipment.        *)
THEOREM NeverShippedTwice == CostsSpec => []NeverOverShipped
<1>1. CostsStand => NeverOverShipped
  BY ShippedIsSum DEF CostsStand, CostRowsStand, KeepsToInvoices, NeverOverShipped
<1>. QED
  BY <1>1, CostsAlwaysStand, PTL

(* No shipment slips into an operation while it is being completed: the        *)
(* request that creates one holds the row of the operation (create, complete). *)
THEOREM CompletedStaysOver == CostsSpec => []CompletedIsOver
<1>1. CostsStand => CompletedIsOver
  BY DEF CostsStand, CostRowsStand
<1>. QED
  BY <1>1, CostsAlwaysStand, PTL

(* What was charged to lines stands: every batch is shared out to the cent     *)
(* among lines that exist and belong to the operation of its expense, and an   *)
(* expense with batches is not cancelled (allocate, cancel, and the            *)
(* replacement of lines, at once).                                             *)
THEOREM BatchesKeepStanding == CostsSpec => []BatchesStand
<1>1. CostsStand => BatchesStand
  BY DEF CostsStand, CostRowsStand
<1>. QED
  BY <1>1, CostsAlwaysStand, PTL

\* Every other step leaves the batches as they are.
LEMMA OnlyInsertBatchAdds ==
  ASSUME CostsNext, \A p \in Importers : ~InsertBatch(p)
  PROVE  UNCHANGED batches
<1>1. ASSUME NextOperation PROVE UNCHANGED batches
  BY <1>1 DEF NextOperation, CreateOperation, CompleteOperation, CancelOperation
<1>2. ASSUME NextShipment PROVE UNCHANGED batches
  BY <1>2 DEF NextShipment, BeginShipment, BeginReplace, CreateShipment, BeginCancelShipment, DeleteLines,
              InsertLines, CommitCancelShipment, Depart, Arrive
<1>3. ASSUME NextExpense PROVE UNCHANGED batches
  BY <1>3 DEF NextExpense, CreateExpense, BeginUpdateExpense, BeginAllocate, FinalizeExpense, CancelExpense,
              UpdateExpense, LockLines
<1>4. ASSUME NextLink PROVE UNCHANGED batches
  BY <1>4 DEF NextLink, LinkReceipts, UnlinkReceipts
<1>5. ASSUME NEW p \in Importers, RollBackCosts(p) PROVE UNCHANGED batches
  BY <1>5 DEF RollBackCosts
<1>. QED
  BY <1>1, <1>2, <1>3, <1>4, <1>5 DEF CostsNext

LEMMA AddedBatchesFit ==
  ASSUME CostsStand, [CostsNext]_costVars, NEW e \in Expenses, Len(batches'[e]) > Len(batches[e])
  PROVE  Assigned(e)' <= expense[e].amount /\ KeysDiffer(batches'[e])
<1>1. KeysDiffer(batches'[e])
  BY CostsKeepStanding DEF CostsStand, CostRowsStand
<1>2. batches \in [Expenses -> Seq(Batch)] /\ Len(batches[e]) \in Nat
  BY DEF CostsStand, CostRowsStand, CostShape
<1>3. batches' # batches
  BY <1>2
<1>4. PICK p \in Importers : InsertBatch(p)
  BY <1>3, OnlyInsertBatchAdds DEF costVars
<1>5. PICK b : Allots(request[p].expense, b)
  BY <1>4, BatchIsAllotted
<1>6. e = request[p].expense
  BY <1>2, <1>5 DEF Allots
<1>7. /\ b \in Batch /\ batches[e] \in Seq(Batch) /\ batches'[e] = Append(batches[e], b)
      /\ AssignedOf(batches[e]) + b.requested <= expense[e].amount
  BY <1>2, <1>5, <1>6 DEF Allots
<1>8. AssignedOf(batches'[e]) = AssignedOf(batches[e]) + b.requested
  BY <1>7, AppendedBatch
<1>. QED
  BY <1>1, <1>7, <1>8 DEF Assigned, AssignedOf

(* No batch is added beyond the amount that the expense has at that moment,    *)
(* nor a second one for the same key (allocate): the request has held the row  *)
(* of the expense since it added up the batches.                               *)
THEOREM AllocationsFit == CostsSpec => AllocationFits
<1> DEFINE Fitting ==
      \A e \in Expenses : Len(batches'[e]) > Len(batches[e]) =>
        /\ Assigned(e)' <= expense[e].amount
        /\ \A j, k \in DOMAIN batches'[e] :
             j # k /\ batches'[e][j].key # NoExpenseKey => batches'[e][j].key # batches'[e][k].key
<1>1. CostsStand /\ [CostsNext]_costVars => [Fitting]_costVars
  BY AddedBatchesFit DEF KeysDiffer
<1>. QED
  BY <1>1, CostsAlwaysStand, PTL DEF CostsSpec, AllocationFits

-----------------------------------------------------------------------------
(* Reports on imports: what shares are rounded to. *)

\* A rounded quotient is as near as half of the divisor.
LEMMA RoundedTyped ==
  ASSUME NEW n \in Nat, NEW d \in Nat \ {0}
  PROVE  /\ HalfUp(n, d) \in Nat
         /\ 2 * d * HalfUp(n, d) <= 2 * n + d
         /\ 2 * n - d < 2 * d * HalfUp(n, d)
<1> DEFINE m == 2 * n + d
           w == 2 * d
           q == m \div w
<1>1. m \in Nat /\ w \in Nat /\ w > 0
  OBVIOUS
<1>2. q \in Int /\ w * q <= m /\ m < w * q + w /\ HalfUp(n, d) = q
  <2>1. HalfUp(n, d) = q
    BY DEF HalfUp
  <2> HIDE DEF m, w
  <2>2. q \in Int /\ m = w * q + (m % w) /\ m % w \in 0..(w - 1)
    BY <1>1
  <2>. QED
    BY <1>1, <2>1, <2>2
<1>3. q >= 0
  <2> HIDE DEF m, w, q
  <2>1. q < 0 => w * q + w <= 0
    BY <1>1, <1>2
  <2>. QED
    BY <1>1, <1>2, <2>1
<1> HIDE DEF q
<1>. QED
  BY <1>2, <1>3

\* Of nothing nothing is attributed, and of an amount not more than all.
LEMMA RoundedWithin ==
  ASSUME NEW a \in Nat, NEW d \in Nat \ {0}, NEW r \in 0..d
  PROVE  /\ HalfUp(a * r, d) \in 0..a
         /\ r = 0 => HalfUp(a * r, d) = 0
<1> DEFINE h == HalfUp(a * r, d)
<1>1. a * r \in Nat /\ a * d \in Nat /\ a * r <= a * d
  OBVIOUS
<1>2. h \in Nat /\ 2 * d * h <= 2 * (a * r) + d
  BY <1>1, RoundedTyped
<1> HIDE DEF h
<1>3. h <= a
  <2>1. SUFFICES ASSUME h >= a + 1 PROVE FALSE
    BY <1>2
  <2>2. 2 * d * h >= 2 * d * (a + 1)
    BY <1>2, <2>1
  <2>3. 2 * d * (a + 1) = 2 * (a * d) + 2 * d
    OBVIOUS
  <2>. QED
    BY <1>1, <1>2, <2>2, <2>3
<1>4. r = 0 => h = 0
  <2>1. SUFFICES ASSUME r = 0, h >= 1 PROVE FALSE
    BY <1>2
  <2>2. 2 * d * h >= 2 * d
    BY <1>2, <2>1
  <2>3. a * r = 0
    BY <2>1
  <2>. QED
    BY <1>2, <2>2, <2>3
<1>. QED
  BY <1>2, <1>3, <1>4 DEF h

\* Roundings of n addends, added up, are as near to their sum as n halves.
LEMMA RoundingsAddUp ==
  ASSUME NEW D, IsFiniteSet(D), NEW f \in [D -> Nat], NEW d \in Nat \ {0},
         NEW g, g = [x \in D |-> HalfUp(f[x], d)]
  PROVE  /\ SumFunction(f) \in Nat /\ SumFunction(g) \in Nat
         /\ 2 * d * SumFunction(g) <= 2 * SumFunction(f) + d * Cardinality(D)
         /\ 2 * SumFunction(f) - d * Cardinality(D) <= 2 * d * SumFunction(g)
<1> DEFINE one == [x \in D |-> 1]
           slack == [x \in D |-> d * one[x]]
           twice == [x \in D |-> 2 * f[x]]
           scaled == [x \in D |-> (2 * d) * g[x]]
           most == [x \in D |-> twice[x] + slack[x]]
           least == [x \in D |-> scaled[x] + slack[x]]
<1>1. g \in [D -> Nat] /\ \A x \in D : 2 * d * g[x] <= 2 * f[x] + d /\ 2 * f[x] - d < 2 * d * g[x]
  BY RoundedTyped
<1>2. Cardinality(D) \in Nat /\ one \in [D -> Int] /\ SumFunction(one) = Cardinality(D)
  BY SumOfOnes, FS_CardinalityType
<1>3. 2 * d \in Int
  OBVIOUS
<1>3a. /\ slack \in [D -> Int] /\ twice \in [D -> Int] /\ scaled \in [D -> Int]
       /\ most \in [D -> Int] /\ least \in [D -> Int]
  BY <1>1
<1>4. /\ \A x \in D : twice[x] = 2 * f[x] /\ scaled[x] = (2 * d) * g[x] /\ slack[x] = d * one[x]
                      /\ most[x] = twice[x] + slack[x] /\ least[x] = scaled[x] + slack[x]
                      /\ slack[x] = d
  BY <1>1
<1>5. \A x \in D : scaled[x] <= most[x] /\ twice[x] <= least[x]
  <2>1. ASSUME NEW x \in D PROVE scaled[x] <= most[x] /\ twice[x] <= least[x]
    <3>1. /\ scaled[x] = 2 * d * g[x] /\ twice[x] = 2 * f[x] /\ slack[x] = d
          /\ scaled[x] \in Int /\ twice[x] \in Int
          /\ most[x] = twice[x] + slack[x] /\ least[x] = scaled[x] + slack[x]
      BY <1>1, <1>4
    <3>2. 2 * d * g[x] <= 2 * f[x] + d /\ 2 * f[x] - d < 2 * d * g[x]
      BY <1>1
    <3> HIDE DEF scaled, twice, slack, most, least
    <3>. QED
      BY <3>1, <3>2
  <2>. QED
    BY <2>1
<1>6. f \in [D -> Int] /\ g \in [D -> Int]
  BY <1>1
<1> HIDE DEF one, slack, twice, scaled, most, least
<1>7. /\ SumFunction(slack) = d * Cardinality(D)
      /\ SumFunction(twice) = 2 * SumFunction(f)
      /\ SumFunction(scaled) = (2 * d) * SumFunction(g)
  <2>1. (\A x \in D : slack[x] = d * one[x]) /\ d \in Int
    BY <1>4
  <2>2. (\A x \in D : twice[x] = 2 * f[x]) /\ 2 \in Int
    BY <1>4
  <2>3. \A x \in D : scaled[x] = (2 * d) * g[x]
    BY <1>4
  <2>4. SumFunction(slack) = d * Cardinality(D)
    BY <1>2, <1>3a, <2>1, SumScaled
  <2>5. SumFunction(twice) = 2 * SumFunction(f)
    BY <1>3a, <1>6, <2>2, SumScaled
  <2>6. SumFunction(scaled) = (2 * d) * SumFunction(g)
    BY <1>3, <1>3a, <1>6, <2>3, SumScaled
  <2>. QED
    BY <2>4, <2>5, <2>6
<1>8. /\ SumFunction(most) = SumFunction(twice) + SumFunction(slack)
      /\ SumFunction(least) = SumFunction(scaled) + SumFunction(slack)
  <2>1. \A x \in D : most[x] = twice[x] + slack[x]
    BY <1>4
  <2>2. \A x \in D : least[x] = scaled[x] + slack[x]
    BY <1>4
  <2>3. SumFunction(most) = SumFunction(twice) + SumFunction(slack)
    BY <1>3a, <2>1, SumPlus
  <2>4. SumFunction(least) = SumFunction(scaled) + SumFunction(slack)
    BY <1>3a, <2>2, SumPlus
  <2>. QED
    BY <2>3, <2>4
<1>9. SumFunction(scaled) <= SumFunction(most) /\ SumFunction(twice) <= SumFunction(least)
  BY <1>3a, <1>5, SumLeq
<1>10. SumFunction(f) \in Nat /\ SumFunction(g) \in Nat
  BY <1>1, SumNat
<1>11. d * Cardinality(D) \in Int /\ (2 * d) * SumFunction(g) \in Int
  BY <1>2, <1>10
<1>. QED
  BY <1>7, <1>8, <1>9, <1>10, <1>11

\* A split of an amount, by what each receipt has of what is planned.
LEMMA SplitAddsUp ==
  ASSUME NEW q \in Seq(Nat), NEW p \in Nat \ {0}, SumFunction(q) <= p, NEW a \in Nat,
         NEW rounded, rounded = [k \in 1..Len(q) |-> HalfUp(a * q[k], p)]
  PROVE  /\ SumFunction(Split(q, p, a).perKey) \in Int
         /\ SumFunction(Split(q, p, a).perKey) + Split(q, p, a).unattributed = a
         /\ SumFunction(q) < p => Split(q, p, a).perKey = rounded
         /\ SumFunction(q) = p /\ Len(q) = 1 => Split(q, p, a).perKey[1] = a
         /\ SumFunction(q) = p => SumFunction(Split(q, p, a).perKey) = a
<1> DEFINE n == Len(q)
           rest == p - SumFunction(q)
           targets == IF rest > 0 THEN Append(q, rest) ELSE q
           shares == IF targets = <<>> THEN <<>> ELSE Proportional(targets, a)
<1>1. /\ n \in Nat /\ DOMAIN q = 1..n /\ IsFiniteSet(1..n) /\ q \in [1..n -> Nat] /\ q \in [1..n -> Int]
  BY FS_Interval
<1>2. SumFunction(q) \in Nat
  BY <1>1, SumNat
<1>3. /\ Split(q, p, a).perKey = SubSeq(shares, 1, n)
      /\ Split(q, p, a).unattributed = IF rest > 0 THEN shares[Len(targets)] ELSE 0
  BY TotalIsSum DEF Split
<1> HIDE DEF n
<1>4. ASSUME rest > 0
      PROVE  /\ Split(q, p, a).perKey = rounded /\ SumFunction(rounded) \in Int
             /\ Split(q, p, a).unattributed = a - SumFunction(rounded)
  <2> DEFINE ls == 1..(n + 1)
  <2>1. targets = Append(q, rest) /\ rest \in Nat
    BY <1>2, <1>4
  <2>2. /\ targets \in Seq(Nat) /\ targets # <<>> /\ Len(targets) = n + 1
        /\ (\A k \in 1..n : targets[k] = q[k]) /\ targets[n + 1] = rest
        /\ targets \in [ls -> Nat]
    <3>1. /\ Append(q, rest) \in Seq(Nat) /\ Append(q, rest) # <<>> /\ Len(Append(q, rest)) = n + 1
          /\ (\A k \in 1..n : Append(q, rest)[k] = q[k]) /\ Append(q, rest)[n + 1] = rest
      BY <2>1, AppendProperties DEF n
    <3>2. Append(q, rest) \in [ls -> Nat]
      <4> DEFINE t == Append(q, rest)
      <4>1. t \in Seq(Nat) /\ Len(t) = n + 1
        BY <3>1
      <4> HIDE DEF t
      <4>2. t \in [1..Len(t) -> Nat]
        BY <4>1
      <4>. QED
        BY <4>1, <4>2 DEF t
    <3>. QED
      BY <2>1, <3>1, <3>2
  <2> HIDE DEF targets, rest
  <2>3. Total(targets) = p
    <3>1. IsFiniteSet(ls) /\ ls = 1..n \cup {n + 1} /\ n + 1 \notin 1..n
      <4>1. n + 1 \in Int /\ 1 \in Int
        BY <1>1
      <4>2. IsFiniteSet(1..(n + 1))
        BY <4>1, FS_Interval
      <4>. QED
        BY <1>1, <4>2
    <3>2. targets \in [ls -> Int]
      BY <2>2
    <3>3. HasOneMore(targets, ls, q, 1..n, n + 1)
      BY <1>1, <2>2, <3>1, <3>2 DEF HasOneMore, Addends
    <3>4. SumFunction(targets) = targets[n + 1] + SumFunction(q)
      BY <3>3, SumAdd
    <3>. QED
      BY <1>2, <2>2, <3>4, TotalIsSum DEF rest
  <2>4. LastOf(ls) = n + 1
    <3>1. n + 1 \in ls /\ \A j \in ls : j <= n + 1
      BY <1>1
    <3>2. \A k \in ls : (\A j \in ls : j <= k) => k = n + 1
      BY <1>1
    <3>. QED
      BY <3>1, <3>2 DEF LastOf
  <2>5. [k \in ls \ {n + 1} |-> HalfUp(a * targets[k], p)] = rounded
    <3>1. ls \ {n + 1} = 1..n
      BY <1>1
    <3>. QED
      BY <2>2, <3>1 DEF n
  <2>6. shares = [k \in ls |-> IF k = n + 1 THEN a - Total(rounded) ELSE rounded[k]]
    <3>1. DOMAIN targets = ls
      BY <2>2
    <3>. QED
      BY <2>2, <2>3, <2>4, <2>5, <3>1 DEF Proportional
  <2> HIDE DEF shares
  <2>7. rounded \in [1..n -> Int] /\ SumFunction(rounded) \in Int
    <3>1. \A k \in 1..n : a * q[k] \in Nat
      BY <1>1
    <3>2. \A x \in Nat : HalfUp(x, p) \in Int
      BY RoundedTyped
    <3>3. rounded \in [1..n -> Int]
      BY <3>1, <3>2 DEF n
    <3>. QED
      BY <1>1, <3>3, SumType
  <2>8. SubSeq(shares, 1, n) = rounded
    <3>1. \A k \in 1..n : shares[k] = rounded[k] /\ shares[k] \in Int
      BY <1>1, <2>6, <2>7
    <3>2. n \in Int /\ 1 \in Int
      BY <1>1
    <3>3. \A k \in 1..n : shares[k] \in Int
      BY <3>1
    <3> DEFINE t == SubSeq(shares, 1, n)
    <3>4. /\ t \in Seq(Int)
          /\ Len(t) = IF 1 <= n THEN n - 1 + 1 ELSE 0
          /\ \A i \in 1..n - 1 + 1 : t[i] = shares[1 + i - 1]
      BY <3>2, <3>3, SubSeqProperties
    <3> HIDE DEF t
    <3>5. n - 1 + 1 = n /\ \A i \in 1..n : 1 + i - 1 = i
      BY <1>1
    <3>6. \A i \in 1..n : t[i] = rounded[i]
      BY <3>1, <3>4, <3>5
    <3>7. Len(t) = n /\ t \in [1..Len(t) -> Int]
      BY <1>1, <3>4, <3>5
    <3>. QED
      BY <2>7, <3>6, <3>7 DEF t
  <2>9. shares[n + 1] = a - SumFunction(rounded)
    BY <1>1, <2>6, TotalIsSum
  <2>. QED
    BY <1>3, <1>4, <2>2, <2>7, <2>8, <2>9
<1>5. ASSUME ~(rest > 0)
      PROVE  /\ Split(q, p, a).perKey \in [1..n -> Int]
             /\ SumFunction(Split(q, p, a).perKey) = a /\ Split(q, p, a).unattributed = 0
  <2>1. targets = q /\ SumFunction(q) = p
    BY <1>2, <1>5
  <2>2. q # <<>> /\ 1..n # {}
    <3>1. q = <<>> \/ 1..n = {} => DOMAIN q = {}
      BY <1>1
    <3>. QED
      BY <2>1, <3>1, SumNothing
  <2>3. shares = Proportional(q, a)
    BY <2>1, <2>2
  <2>4. /\ Proportional(q, a) \in [1..n -> Int]
        /\ Total(Proportional(q, a)) = a
    <3>1. 1..n \in SUBSET Nat /\ Total(q) # 0
      BY <1>1, <2>1, TotalIsSum
    <3>. QED
      BY <1>1, <2>2, <3>1, ProportionalExact
  <2> HIDE DEF shares
  <2>5. shares \in Seq(Int) /\ Len(shares) = n
    BY <1>1, <2>3, <2>4
  <2>6. SubSeq(shares, 1, n) = shares
    BY <2>5, SubSeqFull
  <2>. QED
    BY <1>3, <1>5, <2>3, <2>4, <2>6, TotalIsSum
<1>6. n = 1 /\ ~(rest > 0) => Split(q, p, a).perKey[1] = a
  <2>1. 1..1 = {1}
    OBVIOUS
  <2> HIDE DEF rest
  <2>. QED
    BY <1>5, <2>1, SumOne
<1>7. (rest > 0) <=> SumFunction(q) < p
  BY <1>2
<1>. QED
  BY <1>2, <1>4, <1>5, <1>6, <1>7 DEF n

\* What a report attributes of one share.
LEMMA AttributedIs ==
  ASSUME NEW p \in Nat \ {0}, NEW r \in 0..p, NEW a \in Nat
  PROVE  /\ Attribute(a, p, r) = IF r = p THEN a ELSE HalfUp(a * r, p)
         /\ Attribute(a, p, r) \in 0..a
         /\ r = 0 => Attribute(a, p, r) = 0
<1> DEFINE q == <<r>>
           rounded == [k \in 1..Len(q) |-> HalfUp(a * q[k], p)]
<1>1. q \in Seq(Nat) /\ Len(q) = 1 /\ q[1] = r /\ 1 \in 1..1
  OBVIOUS
<1>2. SumFunction(q) = r
  <2>1. q \in [{1} -> Int]
    OBVIOUS
  <2> HIDE DEF q
  <2>. QED
    BY <1>1, <2>1, SumOne
<1>3. rounded[1] = HalfUp(a * r, p)
  OBVIOUS
<1>4. Attribute(a, p, r) = Split(q, p, a).perKey[1]
  BY DEF Attribute
<1>5. rounded = [k \in 1..Len(q) |-> HalfUp(a * q[k], p)]
  OBVIOUS
<1> HIDE DEF q, rounded
<1>6. Attribute(a, p, r) = IF r = p THEN a ELSE HalfUp(a * r, p)
  <2>1. r <= p /\ (r # p => r < p)
    OBVIOUS
  <2>2. q \in Seq(Nat) /\ SumFunction(q) <= p
    BY <1>1, <1>2, <2>1
  <2>3. SumFunction(q) = p => Split(q, p, a).perKey[1] = a
    BY <1>1, <1>5, <2>2, SplitAddsUp
  <2>4. SumFunction(q) < p => Split(q, p, a).perKey = rounded
    BY <1>5, <2>2, SplitAddsUp
  <2>. QED
    BY <1>2, <1>3, <1>4, <2>1, <2>3, <2>4
<1>. QED
  BY <1>6, RoundedWithin

\* The splits of a share by receipt differ from it by a cent for each at most.
LEMMA SplitIsNear ==
  ASSUME NEW q \in Seq(Nat), NEW p \in Nat \ {0}, SumFunction(q) <= p, NEW a \in Nat
  PROVE  SumFunction(Split(q, p, a).perKey) - Attribute(a, p, SumFunction(q)) \in -Len(q)..Len(q)
<1> DEFINE n == Len(q)
           s == SumFunction(q)
           f == [k \in 1..n |-> a * q[k]]
           rounded == [k \in 1..n |-> HalfUp(a * q[k], p)]
           h == HalfUp(a * s, p)
           g == SumFunction(rounded)
<1>1. n \in Nat /\ IsFiniteSet(1..n) /\ Cardinality(1..n) = n /\ q \in [1..n -> Nat] /\ q \in [1..n -> Int]
  <2>1. n \in Nat /\ q \in [1..n -> Nat] /\ q \in [1..n -> Int]
    OBVIOUS
  <2> HIDE DEF n
  <2>2. n \in Int /\ 1 \in Int /\ (1 > n => n = 0) /\ (1 <= n => n - 1 + 1 = n)
    BY <2>1
  <2>3. IsFiniteSet(1..n) /\ Cardinality(1..n) = IF 1 > n THEN 0 ELSE n - 1 + 1
    BY <2>2, FS_Interval
  <2>. QED
    BY <2>1, <2>2, <2>3
<1>2. s \in Nat /\ s \in 0..p
  BY <1>1, SumNat
<1>3. f \in [1..n -> Nat] /\ rounded = [k \in 1..n |-> HalfUp(f[k], p)]
  BY <1>1
<1>4. SumFunction(f) = a * s
  <2>1. f \in [1..n -> Int] /\ (\A k \in 1..n : f[k] = a * q[k]) /\ a \in Int
    BY <1>3
  <2>2. IsFiniteSet(1..n) /\ q \in [1..n -> Int]
    BY <1>1
  <2> DEFINE D == 1..n
  <2>3. /\ IsFiniteSet(D) /\ f \in [D -> Int] /\ q \in [D -> Int]
        /\ (\A k \in D : f[k] = a * q[k]) /\ a \in Int
    BY <2>1, <2>2
  <2> HIDE DEF f, n, D
  <2>4. SumFunction(f) = a * SumFunction(q)
    BY <2>3, SumScaled
  <2>. QED
    BY <2>4
<1> HIDE DEF f, n
<1>5. g \in Nat /\ 2 * p * g <= 2 * (a * s) + p * n /\ 2 * (a * s) - p * n <= 2 * p * g
  <2> HIDE DEF rounded, s
  <2> DEFINE D == 1..n
  <2>1. /\ IsFiniteSet(D) /\ Cardinality(D) = n
        /\ f \in [D -> Nat] /\ rounded = [k \in D |-> HalfUp(f[k], p)]
    BY <1>1, <1>3
  <2> HIDE DEF D
  <2>2. /\ SumFunction(rounded) \in Nat
        /\ 2 * p * SumFunction(rounded) <= 2 * SumFunction(f) + p * Cardinality(D)
        /\ 2 * SumFunction(f) - p * Cardinality(D) <= 2 * p * SumFunction(rounded)
    BY <2>1, RoundingsAddUp
  <2>. QED
    BY <1>4, <2>1, <2>2
<1>6. h \in Nat /\ 2 * p * h <= 2 * (a * s) + p /\ 2 * (a * s) - p < 2 * p * h
  <2>1. a * s \in Nat
    BY <1>2
  <2>. QED
    BY <2>1, RoundedTyped
<1>7. CASE s = p
  <2>1. SumFunction(Split(q, p, a).perKey) = a /\ Attribute(a, p, s) = a
    BY <1>2, <1>7, AttributedIs, SplitAddsUp
  <2>2. a - a = 0 /\ 0 \in -n..n
    BY <1>1
  <2>. QED
    BY <2>1, <2>2 DEF n
<1>8. CASE s # p
  <2>1. s < p
    BY <1>2, <1>8
  <2>2. Split(q, p, a).perKey = rounded /\ Attribute(a, p, s) = h
    <3> HIDE DEF h
    <3>1. Split(q, p, a).perKey = rounded
      BY <2>1, SplitAddsUp DEF n
    <3>. QED
      BY <1>2, <1>8, <3>1, AttributedIs DEF h
  <2> HIDE DEF g, h, s, rounded
  <2> DEFINE x == a * s
             y == p * n
             of(k) == 2 * p * k
  <2>3. /\ x \in Int /\ y \in Int /\ y >= 0
        /\ of(g) \in Int /\ of(h) \in Int
        /\ of(g) <= 2 * x + y /\ 2 * x - y <= of(g) /\ of(h) <= 2 * x + p /\ 2 * x - p < of(h)
    BY <1>1, <1>2, <1>5, <1>6
  <2>4. \A k \in Nat : of(k + n + 1) = of(k) + 2 * y + 2 * p
    BY <1>1
  <2>5. \A j, k \in Int : j >= k => of(j) >= of(k)
    OBVIOUS
  <2> HIDE DEF x, y, of
  <2>6. ~(g >= h + n + 1) /\ ~(h >= g + n + 1)
    <3>1. ASSUME g >= h + n + 1 PROVE FALSE
      <4>1. of(g) >= of(h) + 2 * y + 2 * p
        BY <1>1, <1>5, <1>6, <2>4, <2>5, <3>1
      <4>. QED
        BY <2>3, <4>1
    <3>2. ASSUME h >= g + n + 1 PROVE FALSE
      <4>1. of(h) >= of(g) + 2 * y + 2 * p
        BY <1>1, <1>5, <1>6, <2>4, <2>5, <3>2
      <4>. QED
        BY <2>3, <4>1
    <3>. QED
      BY <3>1, <3>2
  <2>7. g - h \in -n..n
    BY <1>1, <1>5, <1>6, <2>6
  <2>. QED
    BY <2>2, <2>7 DEF n, s, g
<1>. QED
  BY <1>7, <1>8

-----------------------------------------------------------------------------
(* Reports on imports: what is linked to a line. *)

\* Receipts are linked to lines that have arrived, and to no more than they plan.
LinksHold(table, ships) ==
  \A l \in DOMAIN table :
    /\ SumFunction(table[l].links) <= table[l].planned
    /\ SumFunction(table[l].links) # 0 => ships[table[l].shipment].status = "ARRIVED"

LEMMA LinkedTyped ==
  ASSUME NEW q \in Seq(Nat)
  PROVE  q \in [1..Len(q) -> Int] /\ IsFiniteSet(1..Len(q)) /\ Len(q) \in Nat /\ SumFunction(q) \in Nat
<1>1. Len(q) \in Nat /\ q \in [1..Len(q) -> Nat] /\ q \in [1..Len(q) -> Int]
  OBVIOUS
<1>2. IsFiniteSet(1..Len(q))
  BY <1>1, FS_Interval
<1>. QED
  BY <1>1, <1>2, SumNat

LEMMA LinkAdds ==
  ASSUME NEW q \in Seq(Nat), NEW quantity \in Nat
  PROVE  SumFunction(Append(q, quantity)) = quantity + SumFunction(q)
<1> DEFINE n == Len(q)
           t == Append(q, quantity)
<1>1. n \in Nat /\ q \in [1..n -> Int] /\ IsFiniteSet(1..n)
  BY LinkedTyped
<1>2. t \in Seq(Nat) /\ Len(t) = n + 1 /\ (\A k \in 1..n : t[k] = q[k]) /\ t[n + 1] = quantity
  BY AppendProperties
<1> HIDE DEF n, t
<1>3. t \in [1..(n + 1) -> Int] /\ IsFiniteSet(1..(n + 1))
  BY <1>2, LinkedTyped
<1>4. n + 1 \notin 1..n /\ 1..(n + 1) = 1..n \cup {n + 1}
  BY <1>1
<1>5. HasOneMore(t, 1..(n + 1), q, 1..n, n + 1)
  BY <1>1, <1>2, <1>3, <1>4 DEF HasOneMore, Addends
<1>6. SumFunction(t) = t[n + 1] + SumFunction(q)
  <2> DEFINE E == 1..(n + 1)
             D == 1..n
             z == n + 1
  <2>1. HasOneMore(t, E, q, D, z)
    BY <1>5
  <2> HIDE DEF E, D, z
  <2>2. SumFunction(t) = t[z] + SumFunction(q)
    BY <2>1, SumAdd
  <2>. QED
    BY <2>2 DEF z
<1>. QED
  BY <1>2, <1>6 DEF t

LEMMA UnlinkTakes ==
  ASSUME NEW q \in Seq(Nat), NEW k \in 1..Len(q),
         NEW rest, rest = SubSeq(q, 1, k - 1) \o SubSeq(q, k + 1, Len(q))
  PROVE  rest \in Seq(Nat) /\ SumFunction(rest) <= SumFunction(q)
<1> DEFINE n == Len(q)
           s == SubSeq(q, 1, k - 1)
           t == SubSeq(q, k + 1, n)
<1>1. n \in Nat /\ k \in 1..n /\ q \in [1..n -> Int] /\ IsFiniteSet(1..n) /\ SumFunction(q) \in Nat
      /\ \A i \in 1..n : q[i] \in Nat
  BY LinkedTyped
<1> HIDE DEF n
<1>2. s \in Seq(Nat) /\ Len(s) = k - 1 /\ \A i \in 1..(k - 1) : s[i] = q[i]
  <2>1. k - 1 \in Int /\ 1 \in Int /\ k \in Int /\ k >= 1
    BY <1>1
  <2>2. \A i \in 1..k - 1 : q[i] \in Nat
    BY <1>1
  <2>3. /\ s \in Seq(Nat)
        /\ Len(s) = IF 1 <= k - 1 THEN (k - 1) - 1 + 1 ELSE 0
        /\ \A i \in 1..(k - 1) - 1 + 1 : s[i] = q[1 + i - 1]
    BY <2>1, <2>2, SubSeqProperties
  <2> HIDE DEF s
  <2>4. (k - 1) - 1 + 1 = k - 1 /\ (\A i \in 1..(k - 1) : 1 + i - 1 = i) /\ (~(1 <= k - 1) => k - 1 = 0)
    BY <2>1
  <2>. QED
    BY <2>3, <2>4
<1>3. t \in Seq(Nat) /\ Len(t) = n - k /\ \A i \in 1..(n - k) : t[i] = q[i + k]
  <2>1. k + 1 \in Int /\ n \in Int /\ k \in Int /\ k <= n
    BY <1>1
  <2>2. \A i \in k + 1..n : q[i] \in Nat
    BY <1>1
  <2>3. /\ t \in Seq(Nat)
        /\ Len(t) = IF k + 1 <= n THEN n - (k + 1) + 1 ELSE 0
        /\ \A i \in 1..n - (k + 1) + 1 : t[i] = q[(k + 1) + i - 1]
    BY <2>1, <2>2, SubSeqProperties
  <2> HIDE DEF t
  <2>4. n - (k + 1) + 1 = n - k /\ (\A i \in 1..(n - k) : (k + 1) + i - 1 = i + k) /\ (~(k + 1 <= n) => n - k = 0)
    BY <2>1
  <2>. QED
    BY <2>3, <2>4
<1>4. rest = s \o t
  BY DEF n
<1> HIDE DEF s, t
<1>5. /\ rest \in Seq(Nat) /\ Len(rest) = n - 1
      /\ \A i \in 1..(n - 1) : rest[i] = IF i <= k - 1 THEN s[i] ELSE t[i - (k - 1)]
  <2>1. k - 1 + (n - k) = n - 1
    BY <1>1
  <2>2. /\ s \o t \in Seq(Nat) /\ Len(s \o t) = Len(s) + Len(t)
        /\ \A i \in 1..Len(s) + Len(t) : (s \o t)[i] = IF i <= Len(s) THEN s[i] ELSE t[i - Len(s)]
    BY <1>2, <1>3, ConcatProperties
  <2>. QED
    BY <1>2, <1>3, <1>4, <2>1, <2>2
<1>6. \A i \in 1..(n - 1) : rest[i] = IF i < k THEN q[i] ELSE q[i + 1]
  <2>1. ASSUME NEW i \in 1..(n - 1) PROVE rest[i] = IF i < k THEN q[i] ELSE q[i + 1]
    <3>1. CASE i < k
      <4>1. i <= k - 1 /\ i \in 1..(k - 1)
        BY <1>1, <3>1
      <4>. QED
        BY <1>2, <1>5, <3>1, <4>1
    <3>2. CASE ~(i < k)
      <4>1. ~(i <= k - 1) /\ i - (k - 1) \in 1..(n - k) /\ (i - (k - 1)) + k = i + 1
        BY <1>1, <3>2
      <4>. QED
        BY <1>3, <1>5, <3>2, <4>1
    <3>. QED
      BY <3>1, <3>2
  <2>. QED
    BY <2>1
<1>7. rest \in [1..(n - 1) -> Int] /\ IsFiniteSet(1..(n - 1))
  BY <1>5, LinkedTyped
<1> DEFINE D == 1..n \ {k}
           part == [i \in D |-> q[i]]
           name == [i \in D |-> IF i < k THEN i ELSE i - 1]
<1>8. part \in [D -> Int] /\ IsFiniteSet(D) /\ \A i \in D : part[i] = q[i]
  BY <1>1, FS_Subset
<1>9. Renames(rest, 1..(n - 1), part, D, name)
  <2>1. ASSUME NEW i \in D PROVE name[i] \in 1..(n - 1) /\ rest[name[i]] = part[i]
    <3>1. CASE i < k
      <4>1. name[i] = i /\ i \in 1..(n - 1) /\ part[i] = q[i]
        BY <1>1, <3>1
      <4>. QED
        BY <1>6, <3>1, <4>1
    <3>2. CASE ~(i < k)
      <4>1. i > k /\ name[i] = i - 1 /\ i - 1 \in 1..(n - 1) /\ ~(i - 1 < k) /\ (i - 1) + 1 = i
        BY <1>1, <3>2
      <4>. QED
        BY <1>6, <4>1
    <3>. QED
      BY <3>1, <3>2
  <2>2. ASSUME NEW i \in D, NEW j \in D, name[i] = name[j] PROVE i = j
    BY <1>1, <2>2
  <2>3. ASSUME NEW j \in 1..(n - 1) PROVE \E i \in D : name[i] = j
    <3>1. CASE j < k
      <4>1. j \in D /\ name[j] = j
        BY <1>1, <3>1
      <4>. QED
        BY <4>1
    <3>2. CASE ~(j < k)
      <4>1. j + 1 \in D /\ name[j + 1] = j
        BY <1>1, <3>2
      <4>. QED
        BY <4>1
    <3>. QED
      BY <3>1, <3>2
  <2> HIDE DEF D, part, name
  <2>. QED
    BY <1>7, <1>8, <2>1, <2>2, <2>3 DEF Renames, Addends
<1>10. SumFunction(rest) = SumFunction(part)
  BY <1>9, SumRenamed
<1>11. SumFunction(q) = q[k] + SumFunction(part)
  <2> DEFINE E == 1..n
  <2>1. E = D \cup {k} /\ k \notin D
    BY <1>1
  <2>2. HasOneMore(q, E, part, D, k)
    BY <1>1, <1>8, <2>1 DEF HasOneMore, Addends
  <2> HIDE DEF E, part, D
  <2>. QED
    BY <2>2, SumAdd
<1>12. SumFunction(rest) \in Nat /\ q[k] \in Nat
  BY <1>1, <1>5, LinkedTyped
<1>. QED
  BY <1>1, <1>5, <1>10, <1>11, <1>12

\* Lines that are written anew have no receipts yet.
LEMMA FreshLinesUnlinked ==
  ASSUME NEW old, NEW s, NEW content
  PROVE  \A l \in DOMAIN WithLines(old, s, content) :
           \/ WithLines(old, s, content)[l].links = <<>>
           \/ l \in DOMAIN line /\ WithLines(old, s, content)[l] = line[l]
<1> DEFINE new == CHOOSE f \in [1..Len(content) -> FreshLines(old)] :
                    \A j, k \in 1..Len(content) : j < k => f[j] < f[k]
           row(l) == LET c == content[CHOOSE k \in DOMAIN new : new[k] = l]
                     IN  [shipment |-> s, planned |-> c.planned, item |-> c.item,
                          WEIGHT |-> c.WEIGHT, VOLUME |-> c.VOLUME, links |-> <<>>]
<1>1. WithLines(old, s, content)
        = [l \in (DOMAIN line \ old) \cup Range(new) |-> IF l \in Range(new) THEN row(l) ELSE line[l]]
  BY DEF WithLines
<1>2. \A l : row(l).links = <<>>
  OBVIOUS
<1> HIDE DEF new, row
<1>. QED
  BY <1>1, <1>2

\* A step that writes no line holds them when no shipment leaves "ARRIVED".
LEMMA LinksHeldAsBefore ==
  ASSUME CostShape, LinksHold(line, shipment), line' = line,
         \A s \in Shipments : shipment[s].status = "ARRIVED" => shipment'[s].status = "ARRIVED"
  PROVE  LinksHold(line', shipment')
<1>1. \A l \in DOMAIN line : line[l].shipment \in Shipments
  BY TableTyped DEF CostShape, LineRecord
<1>. QED
  BY <1>1 DEF LinksHold

\* Nor one that replaces lines, for shipments that keep theirs.
LEMMA LinksHeldAnew ==
  ASSUME CostShape, CostShape', LinksHold(line, shipment), NEW old, NEW s, NEW content,
         line' = WithLines(old, s, content),
         \A l \in DOMAIN line : shipment'[line[l].shipment] = shipment[line[l].shipment]
  PROVE  LinksHold(line', shipment')
<1>1. SUFFICES ASSUME NEW l \in DOMAIN line'
               PROVE  /\ SumFunction(line'[l].links) <= line'[l].planned
                      /\ SumFunction(line'[l].links) # 0 => shipment'[line'[l].shipment].status = "ARRIVED"
  BY DEF LinksHold
<1>2. line'[l] \in LineRecord
  BY TableTyped DEF CostShape
<1>3. CASE line'[l].links = <<>>
  <2>1. SumFunction(line'[l].links) = 0
    <3>1. DOMAIN <<>> = {}
      OBVIOUS
    <3>. QED
      BY <1>3, <3>1, SumNothing
  <2>2. line'[l].planned \in Nat
    BY <1>2 DEF LineRecord
  <2>. QED
    BY <2>1, <2>2
<1>4. CASE l \in DOMAIN line /\ line'[l] = line[l]
  BY <1>4 DEF LinksHold
<1>. QED
  BY <1>3, <1>4, FreshLinesUnlinked

LEMMA LinkingHolds ==
  ASSUME CostShape, LinksHold(line, shipment), NextLink
  PROVE  LinksHold(line', shipment')
<1>1. PICK l \in DOMAIN line : \/ \E quantity \in 1..line[l].planned : LinkReceipts(l, quantity)
                               \/ \E k \in DOMAIN line[l].links : UnlinkReceipts(l, k)
  BY DEF NextLink
<1>2. /\ line \in LineTables /\ line[l] \in LineRecord /\ line = [k \in DOMAIN line |-> line[k]]
      /\ line[l].links \in Seq(Nat) /\ line[l].planned \in Nat
  BY TableTyped DEF CostShape, LineRecord, LineTables
<1>3. ASSUME NEW linked, line' = [line EXCEPT ![l].links = linked], shipment' = shipment,
             SumFunction(linked) <= line[l].planned,
             SumFunction(linked) # 0 => shipment[line[l].shipment].status = "ARRIVED"
      PROVE  LinksHold(line', shipment')
  <2>1. /\ DOMAIN line' = DOMAIN line /\ line'[l].links = linked /\ line'[l].planned = line[l].planned
        /\ line'[l].shipment = line[l].shipment /\ \A k \in DOMAIN line \ {l} : line'[k] = line[k]
    BY <1>2, <1>3 DEF LineRecord
  <2>. QED
    BY <1>3, <2>1 DEF LinksHold
<1>4. ASSUME NEW quantity \in 1..line[l].planned, LinkReceipts(l, quantity)
      PROVE  LinksHold(line', shipment')
  <2>1. quantity \in Nat /\ SumFunction(line[l].links) \in Nat
    BY <1>2, LinkedTyped
  <2>2. SumFunction(Append(line[l].links, quantity)) = quantity + SumFunction(line[l].links)
    BY <1>2, <2>1, LinkAdds
  <2>3. Total(line[l].links) = SumFunction(line[l].links)
    BY TotalIsSum
  <2>4. SumFunction(Append(line[l].links, quantity)) <= line[l].planned
    BY <1>4, <2>1, <2>2, <2>3 DEF LinkReceipts
  <2>. QED
    BY <1>3, <1>4, <2>4 DEF LinkReceipts
<1>5. ASSUME NEW k \in DOMAIN line[l].links, UnlinkReceipts(l, k)
      PROVE  LinksHold(line', shipment')
  <2> DEFINE q == line[l].links
             rest == SubSeq(q, 1, k - 1) \o SubSeq(q, k + 1, Len(q))
  <2>1. q \in Seq(Nat) /\ k \in 1..Len(q)
    BY <1>2
  <2>2. line' = [line EXCEPT ![l].links = rest] /\ shipment' = shipment
    BY <1>5 DEF UnlinkReceipts
  <2> HIDE DEF q
  <2>3. rest \in Seq(Nat) /\ SumFunction(rest) <= SumFunction(q)
    BY <2>1, UnlinkTakes
  <2> HIDE DEF rest
  <2>4. SumFunction(rest) \in Nat /\ SumFunction(q) \in Nat
    BY <2>1, <2>3, LinkedTyped
  <2>5. SumFunction(q) <= line[l].planned /\ (SumFunction(q) # 0 => shipment[line[l].shipment].status = "ARRIVED")
    BY DEF LinksHold, q
  <2>6. SumFunction(rest) <= line[l].planned /\ (SumFunction(rest) # 0 => SumFunction(q) # 0)
    BY <1>2, <2>3, <2>4, <2>5
  <2>. QED
    BY <1>3, <2>2, <2>5, <2>6
<1>. QED
  BY <1>1, <1>4, <1>5

LEMMA LinksKeepHeld ==
  ASSUME CostsStand, CostsStand', LinksHold(line, shipment), [CostsNext]_costVars
  PROVE  LinksHold(line', shipment')
<1>. CostShape /\ CostShape' /\ LinesHaveShipments /\ \A p \in Importers : HoldsRows(p)
  BY DEF CostsStand, CostRowsStand
<1>1. CASE NextOperation
  BY <1>1, LinksHeldAsBefore DEF NextOperation, CreateOperation, CompleteOperation, CancelOperation
<1>2. CASE NextShipment
  <2>1. ASSUME NEW p \in Importers, NEW content \in Contents,
               \/ \E o \in Operations : BeginShipment(p, o, content)
               \/ \E s \in Shipments : BeginReplace(p, s, content)
        PROVE  LinksHold(line', shipment')
    BY <2>1, LinksHeldAsBefore DEF BeginShipment, BeginReplace
  <2>2. ASSUME NEW p \in Importers, NEW s \in Shipments, CreateShipment(p, s)
        PROVE  LinksHold(line', shipment')
    <3>1. /\ line' = WithLines({}, s, request[p].content) /\ shipment[s] = Absent
          /\ \A x \in Shipments \ {s} : shipment'[x] = shipment[x]
      BY <2>2 DEF CreateShipment, CostShape
    <3>2. \A l \in DOMAIN line : line[l].shipment \in Shipments \ {s}
      BY <3>1, TableTyped DEF CostShape, LineRecord, LinesHaveShipments
    <3>. QED
      BY <3>1, <3>2, LinksHeldAnew
  <2>3. ASSUME NEW p \in Importers, NEW s \in Shipments, BeginCancelShipment(p, s)
        PROVE  LinksHold(line', shipment')
    BY <2>3, LinksHeldAsBefore DEF BeginCancelShipment
  <2>4. ASSUME NEW p \in Importers, DeleteLines(p) PROVE LinksHold(line', shipment')
    BY <2>4, LinksHeldAsBefore DEF DeleteLines
  <2>5. ASSUME NEW p \in Importers, InsertLines(p) PROVE LinksHold(line', shipment')
    <3>1. /\ line' = WithLines(LinesOf(request[p].shipment), request[p].shipment, request[p].content)
          /\ shipment' = shipment
      BY <2>5 DEF InsertLines
    <3>. QED
      BY <3>1, LinksHeldAnew
  <2>6. ASSUME NEW p \in Importers, CommitCancelShipment(p) PROVE LinksHold(line', shipment')
    <3>1. shipment[request[p].shipment].status \in {"PLANNED", "IN_TRANSIT"}
      BY <2>6 DEF HoldsRows, Cancelling, CommitCancelShipment
    <3>2. line' = line /\ \A s \in Shipments \ {request[p].shipment} : shipment'[s] = shipment[s]
      BY <2>6 DEF CommitCancelShipment, CostShape
    <3>. QED
      BY <3>1, <3>2, LinksHeldAsBefore
  <2>7. ASSUME NEW s \in Shipments, Depart(s) \/ Arrive(s) PROVE LinksHold(line', shipment')
    <3>1. line' = line /\ \A x \in Shipments \ {s} : shipment'[x] = shipment[x]
      BY <2>7 DEF Depart, Arrive, CostShape
    <3>2. shipment[s].status # "ARRIVED"
      BY <2>7 DEF Depart, Arrive
    <3>. QED
      BY <3>1, <3>2, LinksHeldAsBefore
  <2>. QED
    BY <1>2, <2>1, <2>2, <2>3, <2>4, <2>5, <2>6, <2>7 DEF NextShipment
<1>3. CASE NextExpense
  <2>1. line' = line /\ shipment' = shipment
    BY <1>3 DEF NextExpense, CreateExpense, BeginUpdateExpense, BeginAllocate, FinalizeExpense,
                CancelExpense, UpdateExpense, LockLines, InsertBatch
  <2>. QED
    BY <2>1, LinksHeldAsBefore
<1>4. CASE NextLink
  BY <1>4, LinkingHolds
<1>5. ASSUME NEW p \in Importers, RollBackCosts(p) PROVE LinksHold(line', shipment')
  BY <1>5, LinksHeldAsBefore DEF RollBackCosts
<1>6. CASE UNCHANGED costVars
  BY <1>6, LinksHeldAsBefore DEF costVars
<1>. QED
  BY <1>1, <1>2, <1>3, <1>4, <1>5, <1>6 DEF CostsNext

LEMMA LinksAlwaysHold == CostsSpec => []LinksHold(line, shipment)
<1>1. CostsInit => LinksHold(line, shipment)
  <2>1. DOMAIN <<>> = {}
    OBVIOUS
  <2>. QED
    BY <2>1 DEF CostsInit, LinksHold
<1>2. CostsStand /\ CostsStand' /\ LinksHold(line, shipment) /\ [CostsNext]_costVars
        => LinksHold(line, shipment)'
  BY LinksKeepHeld
<1>. QED
  BY <1>1, <1>2, CostsAlwaysStand, PTL DEF CostsSpec

-----------------------------------------------------------------------------
(* Reports on imports: what they read. *)

\* What the links of a line say of it.
LEMMA CargoTyped ==
  ASSUME CostsStand, LinksHold(line, shipment), NEW l \in DOMAIN line
  PROVE  /\ line[l].planned \in Nat \ {0} /\ line[l].links \in Seq(Nat)
         /\ ReceivedOf(l) = SumFunction(line[l].links)
         /\ ReceivedOf(l) \in 0..line[l].planned
         /\ ReceivedOf(l) # 0 => shipment[line[l].shipment].status = "ARRIVED"
         /\ line[l].shipment \in Shipments
         /\ shipment[line[l].shipment] \in ShipmentRecord
<1>1. line[l] \in LineRecord
  BY TableTyped DEF CostsStand, CostRowsStand, CostShape
<1>2. line[l].planned \in Nat \ {0} /\ line[l].links \in Seq(Nat) /\ line[l].shipment \in Shipments
  BY <1>1 DEF LineRecord
<1>3. ReceivedOf(l) = SumFunction(line[l].links)
  BY TotalIsSum DEF ReceivedOf
<1>4. SumFunction(line[l].links) \in Nat
  BY <1>2, LinkedTyped
<1>5. /\ SumFunction(line[l].links) <= line[l].planned
      /\ SumFunction(line[l].links) # 0 => shipment[line[l].shipment].status = "ARRIVED"
  BY DEF LinksHold
<1>6. shipment[line[l].shipment] \in ShipmentRecord
  BY <1>2 DEF CostsStand, CostRowsStand, CostShape, LinesHaveShipments
<1>. QED
  <2>1. ReceivedOf(l) \in 0..line[l].planned
    BY <1>2, <1>3, <1>4, <1>5
  <2>. QED
    BY <1>2, <1>3, <1>5, <1>6, <2>1

LEMMA ListTyped ==
  ASSUME NEW S, NEW list \in Seq(S)
  PROVE  DOMAIN list = 1..Len(list) /\ IsFiniteSet(DOMAIN list) /\ \A k \in DOMAIN list : list[k] \in S
<1>1. DOMAIN list = 1..Len(list) /\ Len(list) \in Int /\ \A k \in DOMAIN list : list[k] \in S
  OBVIOUS
<1>. QED
  BY <1>1, FS_Interval

LEMMA BatchTyped ==
  ASSUME NEW list \in Seq(Batch), NEW k \in DOMAIN list
  PROVE  /\ list[k] \in Batch
         /\ DOMAIN list[k].shares \subseteq 1..MaxLines /\ IsFiniteSet(DOMAIN list[k].shares)
         /\ list[k].shares \in [DOMAIN list[k].shares -> Nat]
         /\ \A l \in DOMAIN list[k].shares : list[k].shares[l] \in Nat
<1>1. list[k] \in Batch
  BY ListTyped
<1>2. PICK ls \in SUBSET (1..MaxLines) : list[k].shares \in [ls -> Nat]
  BY <1>1 DEF Batch
<1>3. IsFiniteSet(1..MaxLines)
  <2>1. MaxLines \in Int
    BY ImportCostsAssumption
  <2>. QED
    BY <2>1, FS_Interval
<1>4. IsFiniteSet(ls)
  BY <1>3, FS_Subset
<1>. QED
  BY <1>1, <1>2, <1>4

\* The allocations of an expense are finitely many, of lines of its operation.
LEMMA AllocationsTyped ==
  ASSUME CostsStand, NEW e \in Expenses
  PROVE  /\ IsFiniteSet(AllocationsOf(e))
         /\ \A a \in AllocationsOf(e) :
              /\ a[1] \in DOMAIN batches[e] /\ a[2] \in DOMAIN batches[e][a[1]].shares
              /\ a = <<a[1], a[2]>>
              /\ AmountOf(e, a) \in Nat
              /\ a[2] \in DOMAIN line
              /\ expense[e] \in ExpenseRecord /\ expense[e].status # "CANCELLED"
              /\ shipment[line[a[2]].shipment].operation = expense[e].operation
         /\ \A k \in DOMAIN batches[e] : \A l \in DOMAIN batches[e][k].shares : <<k, l>> \in AllocationsOf(e)
<1>1. batches[e] \in Seq(Batch) /\ expense[e] \in ExpenseRecord \cup {Absent}
  BY DEF CostsStand, CostRowsStand, CostShape
<1>2. \A k \in DOMAIN batches[e] : /\ batches[e][k] \in Batch
                                   /\ DOMAIN batches[e][k].shares \subseteq 1..MaxLines
                                   /\ \A l \in DOMAIN batches[e][k].shares : batches[e][k].shares[l] \in Nat
  BY <1>1, BatchTyped
<1>3. IsFiniteSet(DOMAIN batches[e]) /\ IsFiniteSet(1..MaxLines)
  <2>1. MaxLines \in Int
    BY ImportCostsAssumption
  <2>. QED
    BY <1>1, <2>1, ListTyped, FS_Interval
<1>4. AllocationsOf(e) \subseteq (DOMAIN batches[e]) \X (1..MaxLines)
  BY <1>2 DEF AllocationsOf
<1>5. IsFiniteSet(AllocationsOf(e))
  <2>1. IsFiniteSet((DOMAIN batches[e]) \X (1..MaxLines))
    BY <1>3, FS_Product
  <2>. QED
    BY <1>4, <2>1, FS_Subset
<1>6. ASSUME NEW a \in AllocationsOf(e)
      PROVE  /\ a[1] \in DOMAIN batches[e] /\ a[2] \in DOMAIN batches[e][a[1]].shares
             /\ a = <<a[1], a[2]>>
             /\ AmountOf(e, a) \in Nat
             /\ a[2] \in DOMAIN line
             /\ expense[e] \in ExpenseRecord /\ expense[e].status # "CANCELLED"
             /\ shipment[line[a[2]].shipment].operation = expense[e].operation
  <2>1. a[1] \in DOMAIN batches[e] /\ a[2] \in DOMAIN batches[e][a[1]].shares /\ a = <<a[1], a[2]>>
    BY DEF AllocationsOf
  <2>2. AmountOf(e, a) \in Nat
    BY <1>2, <2>1 DEF AmountOf
  <2>3. expense[e].status # "CANCELLED" /\ a[2] \in DOMAIN line
        /\ shipment[line[a[2]].shipment].operation = expense[e].operation
    BY <2>1 DEF CostsStand, CostRowsStand, BatchesStand
  <2>4. expense[e] # Absent
    <3>1. DOMAIN <<>> = {}
      OBVIOUS
    <3>. QED
      BY <2>1, <3>1 DEF CostsStand, CostRowsStand
  <2>. QED
    BY <1>1, <2>1, <2>2, <2>3, <2>4
<1>7. \A k \in DOMAIN batches[e] : \A l \in DOMAIN batches[e][k].shares : <<k, l>> \in AllocationsOf(e)
  BY DEF AllocationsOf
<1>. QED
  BY <1>5, <1>6, <1>7

\* What has been allocated of an expense is what its batches say.
LEMMA AllocatedIsAssigned ==
  ASSUME CostsStand, NEW e \in Expenses
  PROVE  AllocatedTo(e) = Assigned(e) /\ AllocatedTo(e) \in Nat
<1> DEFINE D == AllocationsOf(e)
           B == DOMAIN batches[e]
           f == [a \in D |-> AmountOf(e, a)]
           key == [a \in D |-> a[1]]
           wanted == [k \in B |-> batches[e][k].requested]
<1>1. f \in [D -> Nat] /\ f \in [D -> Int] /\ IsFiniteSet(D) /\ key \in [D -> B]
  BY AllocationsTyped
<1>2. batches[e] \in Seq(Batch) /\ IsFiniteSet(B)
  BY ListTyped DEF CostsStand, CostRowsStand, CostShape
<1>3. Keyed(f, D, key, B)
  BY <1>1, <1>2 DEF Keyed, Addends
<1>4. ASSUME NEW k \in B
      PROVE  SumFunction(Part(f, {a \in D : key[a] = k})) = wanted[k]
  <2> DEFINE g == batches[e][k].shares
             E == DOMAIN g
             C == {a \in D : key[a] = k}
             p == Part(f, C)
             name == [l \in E |-> <<k, l>>]
  <2>1. g \in [E -> Nat] /\ IsFiniteSet(E)
    BY <1>2, BatchTyped
  <2>2. g \in [E -> Int]
    BY <2>1
  <2>3. IsFiniteSet(E) /\ IsFiniteSet(C)
    BY <1>1, <2>1, FS_Subset
  <2>4. p \in [C -> Int] /\ \A a \in C : p[a] = AmountOf(e, a)
    BY <1>1 DEF Part
  <2>5. \A l \in E : name[l] = <<k, l>> /\ <<k, l>> \in C /\ AmountOf(e, <<k, l>>) = g[l]
    BY AllocationsTyped DEF AmountOf
  <2>6. \A a \in C : a[2] \in E /\ a = <<k, a[2]>>
    BY AllocationsTyped
  <2>7. \A l, m \in E : name[l] = name[m] => l = m
    <3>1. \A l, m : <<k, l>> = <<k, m>> => l = m
      OBVIOUS
    <3>. QED
      BY <2>5, <3>1
  <2> HIDE DEF g, E, C, p, name
  <2>8. Renames(p, C, g, E, name)
    <3>1. \A l \in E : name[l] \in C /\ p[name[l]] = g[l]
      BY <2>4, <2>5
    <3>2. \A a \in C : \E l \in E : name[l] = a
      BY <2>5, <2>6
    <3>. QED
      BY <2>2, <2>3, <2>4, <2>7, <3>1, <3>2 DEF Renames, Addends
  <2>9. SumFunction(p) = SumFunction(g)
    BY <2>8, SumRenamed
  <2>10. SumFunction(g) = batches[e][k].requested
    BY TotalIsSum DEF CostsStand, CostRowsStand, BatchesStand, g
  <2>. QED
    BY <2>9, <2>10 DEF p, C
<1> HIDE DEF f, D, B, key
<1>5. GroupSums(f, D, key, B) = wanted
  BY <1>4 DEF GroupSums
<1>6. SumFunction(wanted) = SumFunction(f)
  BY <1>3, <1>5, SumGrouped
<1>7. AllocatedTo(e) = SumFunction(f) /\ Assigned(e) = SumFunction(wanted)
  BY TotalIsSum DEF AllocatedTo, Assigned, f, D, B
<1>8. SumFunction(f) \in Nat
  BY <1>1, SumNat
<1>. QED
  BY <1>6, <1>7, <1>8

-----------------------------------------------------------------------------
(* Reports on imports: what they attribute. *)

LEMMA AttributedTyped ==
  ASSUME CostsStand, LinksHold(line, shipment), NEW e \in Expenses, NEW a \in AllocationsOf(e)
  PROVE  /\ AttributedByReports(e, a) \in 0..AmountOf(e, a)
         /\ ReceivedOf(a[2]) = 0 => AttributedByReports(e, a) = 0
         /\ ReceivedOf(a[2]) = line[a[2]].planned => AttributedByReports(e, a) = AmountOf(e, a)
<1> DEFINE p == line[a[2]].planned
           r == ReceivedOf(a[2])
           c == AmountOf(e, a)
<1>1. c \in Nat /\ a[2] \in DOMAIN line
  BY AllocationsTyped
<1>2. p \in Nat \ {0} /\ r \in 0..p
  BY <1>1, CargoTyped
<1>3. AttributedByReports(e, a) = Attribute(c, p, r)
  BY DEF AttributedByReports
<1> HIDE DEF p, r, c
<1>4. /\ Attribute(c, p, r) = IF r = p THEN c ELSE HalfUp(c * r, p)
      /\ Attribute(c, p, r) \in 0..c
      /\ r = 0 => Attribute(c, p, r) = 0
  BY <1>1, <1>2, AttributedIs
<1>. QED
  BY <1>3, <1>4 DEF p, r, c

\* The lines ls are enough to attribute what is allocated of an expense.
Loads(e, ls) == \A a \in AllocationsOf(e) : a[2] \in ls \/ ReceivedOf(a[2]) = 0

AttributedInAll(e) == SumFunction([a \in AllocationsOf(e) |-> AttributedByReports(e, a)])

\* Whatever lines a report has loaded, it attributes the same.
LEMMA AttributedAlike ==
  ASSUME CostsStand, LinksHold(line, shipment), NEW e \in Expenses
  PROVE  /\ \A ls : Loads(e, ls) => Attributed(e, ls) = AttributedInAll(e)
         /\ AttributedInAll(e) \in Nat /\ AttributedInAll(e) <= AllocatedTo(e)
<1> DEFINE D == AllocationsOf(e)
           f == [a \in D |-> AttributedByReports(e, a)]
           g == [a \in D |-> AmountOf(e, a)]
<1>1. IsFiniteSet(D) /\ g \in [D -> Nat]
  BY AllocationsTyped
<1>2. \A a \in D : f[a] \in Nat /\ f[a] <= g[a]
  <2>1. ASSUME NEW a \in D PROVE f[a] \in Nat /\ f[a] <= g[a]
    <3>1. AmountOf(e, a) \in Nat /\ AttributedByReports(e, a) \in 0..AmountOf(e, a)
      BY AllocationsTyped, AttributedTyped
    <3>. QED
      BY <3>1
  <2>. QED
    BY <2>1
<1>3. f \in [D -> Nat]
  BY <1>2
<1>4. AllocatedTo(e) = SumFunction(g) /\ AttributedInAll(e) = SumFunction(f)
  BY TotalIsSum DEF AllocatedTo, AttributedInAll
<1>5. ASSUME NEW ls, Loads(e, ls) PROVE Attributed(e, ls) = SumFunction(f)
  <2> DEFINE h == [a \in D |-> IF a[2] \in ls
                                THEN Attribute(AmountOf(e, a), line[a[2]].planned, ReceivedOf(a[2])) ELSE 0]
  <2>1. \A a \in D : h[a] = f[a]
    <3>1. ASSUME NEW a \in D PROVE h[a] = f[a]
      <4>1. CASE a[2] \in ls
        BY <4>1 DEF AttributedByReports
      <4>2. CASE a[2] \notin ls
        BY <1>5, <4>2, AttributedTyped DEF Loads
      <4>. QED
        BY <4>1, <4>2
    <3>. QED
      BY <3>1
  <2>2. h = f
    BY <2>1
  <2>3. Attributed(e, ls) = SumFunction(h)
    BY TotalIsSum DEF Attributed
  <2>. QED
    BY <2>2, <2>3
<1> HIDE DEF D, f, g
<1>6. SumFunction(f) \in Nat
  BY <1>1, <1>3, SumNat
<1>7. SumFunction(f) <= SumFunction(g)
  <2>1. f \in [D -> Int] /\ g \in [D -> Int] /\ \A a \in D : f[a] <= g[a]
    BY <1>1, <1>2, <1>3
  <2>. QED
    BY <1>1, <2>1, SumLeq
<1>. QED
  BY <1>4, <1>5, <1>6, <1>7

\* The goods of an operation are enough, although they leave cancelled shipments
\* out: nothing of those has been received.
LEMMA CargoLoads ==
  ASSUME CostsStand, LinksHold(line, shipment), NEW e \in Expenses
  PROVE  Loads(e, CargoOf(expense[e].operation))
<1> DEFINE o == expense[e].operation
<1>1. ASSUME NEW a \in AllocationsOf(e), ReceivedOf(a[2]) # 0 PROVE a[2] \in CargoOf(o)
  <2>1. a[2] \in DOMAIN line /\ shipment[line[a[2]].shipment].operation = o
    BY AllocationsTyped
  <2>2. shipment[line[a[2]].shipment].status = "ARRIVED"
    BY <1>1, <2>1, CargoTyped
  <2>. QED
    BY <2>1, <2>2 DEF CargoOf
<1>. QED
  BY <1>1 DEF Loads

\* So are the lines that an expense and others are allocated to.
LEMMA OwnLinesLoad ==
  ASSUME NEW R, NEW e \in R
  PROVE  Loads(e, LinesOfAllocations(R))
BY DEF Loads, LinesOfAllocations

\* What the filters of an export of expenses keep.
LEMMA ExpensesShownAre ==
  ASSUME CostsStand
  PROVE  /\ \A query : ExpensesShown(query) \subseteq Expenses /\ IsFiniteSet(ExpensesShown(query))
         /\ \A query : \A e \in ExpensesShown(query) : expense[e] \in ExpenseRecord
         /\ \A o, c : ExpensesOf(o, c) = ExpensesShown(Query({o}, {c}))
         /\ \A o, c : ExpensesOf(o, c)
              = {e \in ExpensesShown(Query({o}, {})) : expense[e].currency = c}
         /\ \A o, e : e \in ExpensesShown(Query({o}, {})) => expense[e].operation = o
<1>1. \A query : ExpensesShown(query) \subseteq Expenses
  BY DEF ExpensesShown
<1>2. \A query : IsFiniteSet(ExpensesShown(query))
  BY <1>1, FS_Subset, ImportReportsAssumption
<1>3. \A query : \A e \in ExpensesShown(query) : expense[e] \in ExpenseRecord
  BY DEF ExpensesShown, CostsStand, CostRowsStand, CostShape, Absent
<1>4. \A o, c : ExpensesOf(o, c) = ExpensesShown(Query({o}, {c}))
  BY DEF ExpensesOf, Query
<1>5. ASSUME NEW o, NEW c, NEW e
      PROVE  e \in ExpensesShown(Query({o}, c)) <=>
               /\ e \in Expenses /\ expense[e].status # "NONE"
               /\ expense[e].operation = o /\ c \in {{}, {expense[e].currency}}
  <2>1. e \in ExpensesShown(Query({o}, c)) <=>
          /\ e \in Expenses /\ expense[e].status # "NONE"
          /\ {o} \in {{}, {expense[e].operation}}
          /\ c \in {{}, {expense[e].currency}}
    BY DEF ExpensesShown, Query
  <2>2. \A x : ({o} \in {{}, {x}}) <=> x = o
    OBVIOUS
  <2>. QED
    BY <2>1, <2>2
<1>6. \A c, x : ({c} \in {{}, {x}}) <=> x = c
  OBVIOUS
<1>7. \A o, e : e \in ExpensesShown(Query({o}, {})) => expense[e].operation = o
  BY <1>5
<1>8. ASSUME NEW o, NEW c
      PROVE  ExpensesOf(o, c) = {e \in ExpensesShown(Query({o}, {})) : expense[e].currency = c}
  <2>1. \A e : e \in ExpensesOf(o, c) <=>
                 e \in ExpensesShown(Query({o}, {})) /\ expense[e].currency = c
    <3>1. ASSUME NEW e
          PROVE  e \in ExpensesOf(o, c) <=>
                   e \in ExpensesShown(Query({o}, {})) /\ expense[e].currency = c
      <4>1. e \in ExpensesOf(o, c) <=>
              /\ e \in Expenses /\ expense[e].status # "NONE"
              /\ expense[e].operation = o /\ {c} \in {{}, {expense[e].currency}}
        BY <1>4, <1>5
      <4>2. e \in ExpensesShown(Query({o}, {})) <=>
              /\ e \in Expenses /\ expense[e].status # "NONE" /\ expense[e].operation = o
        BY <1>5
      <4>. QED
        BY <1>6, <4>1, <4>2
    <3>. QED
      BY <3>1
  <2>. QED
    BY <2>1
<1>. QED
  BY <1>1, <1>2, <1>3, <1>4, <1>7, <1>8

-----------------------------------------------------------------------------
(* Reports on imports: the summary of an operation and its expenses. *)

LEMMA NotNegativeIs == \A a, b \in Int : b <= a => NotNegative(a - b) = a - b
BY DEF NotNegative

\* The sums of two columns of a report, and what is left between them.
LEMMA ColumnsAddUp ==
  ASSUME NEW R, IsFiniteSet(R), NEW f \in [R -> Nat], NEW g \in [R -> Nat],
         \A e \in R : g[e] <= f[e],
         NEW rest, rest = [e \in R |-> NotNegative(f[e] - g[e])]
  PROVE  /\ SumFunction(f) \in Nat /\ SumFunction(g) \in Nat
         /\ SumFunction(g) <= SumFunction(f)
         /\ NotNegative(SumFunction(f) - SumFunction(g)) = SumFunction(rest)
         /\ SumFunction(g) + NotNegative(SumFunction(f) - SumFunction(g)) = SumFunction(f)
<1>1. f \in [R -> Int] /\ g \in [R -> Int]
  OBVIOUS
<1>2. SumFunction(f) \in Nat /\ SumFunction(g) \in Nat
  BY SumNat
<1>3. SumFunction(g) <= SumFunction(f)
  BY <1>1, SumLeq
<1>4. \A e \in R : rest[e] \in Int /\ f[e] = g[e] + rest[e]
  <2>1. ASSUME NEW e \in R PROVE rest[e] \in Int /\ f[e] = g[e] + rest[e]
    <3>1. f[e] \in Int /\ g[e] \in Int /\ g[e] <= f[e] /\ rest[e] = NotNegative(f[e] - g[e])
      OBVIOUS
    <3>2. rest[e] = f[e] - g[e]
      BY <3>1, NotNegativeIs
    <3>. QED
      BY <3>1, <3>2
  <2>. QED
    BY <2>1
<1>5. rest \in [R -> Int]
  BY <1>4
<1>6. SumFunction(f) = SumFunction(g) + SumFunction(rest) /\ SumFunction(rest) \in Int
  <2>1. \A e \in R : f[e] = g[e] + rest[e]
    BY <1>4
  <2>2. SumFunction(f) = SumFunction(g) + SumFunction(rest)
    BY <1>1, <1>5, <2>1, SumPlus
  <2>. QED
    BY <1>5, <2>2, SumType
<1>7. NotNegative(SumFunction(f) - SumFunction(g)) = SumFunction(f) - SumFunction(g)
  BY <1>2, <1>3, NotNegativeIs
<1>. QED
  BY <1>2, <1>3, <1>6, <1>7

LEMMA SummaryAndExpenses ==
  ASSUME CostsStand, LinksHold(line, shipment), NEW o \in Operations, NEW c \in CurrenciesOf(o)
  PROVE  SummaryMatchesExpenses(o, c)
<1> DEFINE R == ExpensesOf(o, c)
           exported == ExpenseExport(Query({o}, {c}))
           live == {e \in R : expense[e].status # "CANCELLED"}
           amount == [e \in live |-> expense[e].amount]
           alloc == [e \in R |-> AllocatedTo(e)]
           attr == [e \in R |-> Attributed(e, CargoOf(o))]
           rest == [e \in R |-> NotNegative(alloc[e] - attr[e])]
           allocLive == [e \in live |-> AllocatedTo(e)]
           left == [e \in live |-> NotNegative(amount[e] - allocLive[e])]
           x == SummaryOf(o).expenses[c]
<1>1. /\ R \subseteq Expenses /\ IsFiniteSet(R) /\ R = ExpensesShown(Query({o}, {c}))
      /\ \A e \in R : expense[e] \in ExpenseRecord /\ expense[e].operation = o
  <2>1. R = ExpensesShown(Query({o}, {c})) /\ R = {e \in ExpensesShown(Query({o}, {})) : expense[e].currency = c}
    BY ExpensesShownAre
  <2> HIDE DEF R
  <2>2. \A e \in R : expense[e].operation = o
    BY <2>1, ExpensesShownAre
  <2>3. R \subseteq Expenses /\ IsFiniteSet(R) /\ \A e \in R : expense[e] \in ExpenseRecord
    BY <2>1, ExpensesShownAre
  <2>. QED
    BY <2>1, <2>2, <2>3
<1>2. ASSUME NEW e \in R
      PROVE  /\ Attributed(e, CargoOf(o)) = AttributedInAll(e)
             /\ Attributed(e, LinesOfAllocations(R)) = AttributedInAll(e)
             /\ AttributedInAll(e) \in Nat /\ AllocatedTo(e) \in Nat /\ AttributedInAll(e) <= AllocatedTo(e)
             /\ AllocatedTo(e) = Assigned(e)
  <2>1. e \in Expenses /\ expense[e].operation = o
    BY <1>1
  <2>2. Loads(e, CargoOf(o)) /\ Loads(e, LinesOfAllocations(R))
    BY <2>1, CargoLoads, OwnLinesLoad
  <2>. QED
    BY <2>1, <2>2, AttributedAlike, AllocatedIsAssigned
<1>3. /\ x = Shared(Total(amount), Total(alloc), Total(attr), FinancialStatus(c))
  BY DEF SummaryOf, ExpensesByCurrency
<1>4. /\ x.total = SumFunction(amount) /\ x.allocated = SumFunction(alloc) /\ x.attributed = SumFunction(attr)
      /\ x.unallocated = NotNegative(SumFunction(amount) - SumFunction(alloc))
      /\ x.unattributed = NotNegative(SumFunction(alloc) - SumFunction(attr))
  BY <1>3, TotalIsSum DEF Shared
<1>5. DOMAIN exported = R
  BY <1>1 DEF ExpenseExport
<1>6. ASSUME NEW e \in R
      PROVE  /\ exported[e].attributed = attr[e]
             /\ exported[e].unattributed = rest[e]
             /\ exported[e].unallocated = NotNegative(expense[e].amount - AllocatedTo(e))
  <2>1. exported[e] = ExpenseReconciliation(e, LinesOfAllocations(R))
    BY <1>1 DEF ExpenseExport
  <2>. QED
    BY <1>2, <2>1 DEF ExpenseReconciliation, Shared
<1>7. /\ [e \in DOMAIN exported |-> exported[e].attributed] = attr
      /\ [e \in DOMAIN exported |-> exported[e].unattributed] = rest
  BY <1>5, <1>6
<1>8. alloc \in [R -> Nat] /\ attr \in [R -> Nat] /\ \A e \in R : attr[e] <= alloc[e]
  BY <1>2
<1>9. {e \in DOMAIN exported : expense[e].status # "CANCELLED"} = live
  BY <1>5
<1>10. [e \in live |-> exported[e].unallocated] = left
  BY <1>6
<1>11. live \subseteq R /\ IsFiniteSet(live) /\ \A e \in R \ live : AllocatedTo(e) = 0
  <2>1. IsFiniteSet(live)
    BY <1>1, FS_Subset
  <2>2. ASSUME NEW e \in R \ live PROVE AllocatedTo(e) = 0
    <3>1. AllocationsOf(e) = {}
      BY <1>1, <2>2, AllocationsTyped
    <3>2. DOMAIN [a \in AllocationsOf(e) |-> AmountOf(e, a)] = {}
      BY <3>1
    <3>. QED
      BY <3>2, SumNothing, TotalIsSum DEF AllocatedTo
  <2>. QED
    BY <2>1, <2>2
<1>12. allocLive \in [live -> Nat] /\ amount \in [live -> Nat]
  <2>1. \A e \in live : AllocatedTo(e) \in Nat
    BY <1>2
  <2>2. \A e \in live : expense[e].amount \in Nat
    BY <1>1, ImportCostsAssumption DEF ExpenseRecord
  <2>. QED
    BY <2>1, <2>2
<1>13. ASSUME \A e \in DOMAIN exported : Assigned(e) <= expense[e].amount
       PROVE  \A e \in live : allocLive[e] <= amount[e]
  BY <1>2, <1>5, <1>13
<1>14. SumFunction(allocLive) = SumFunction(alloc)
  <2>1. /\ \A e \in R \ live : alloc[e] = 0
        /\ \A e \in live : allocLive[e] = alloc[e]
    BY <1>11
  <2> HIDE DEF R, live, alloc, allocLive
  <2>2. Supports(allocLive, live, alloc, R)
    <3>1. Addends(allocLive, live) /\ Addends(alloc, R)
      <4>1. /\ IsFiniteSet(R) /\ alloc \in [R -> Nat]
            /\ IsFiniteSet(live) /\ allocLive \in [live -> Nat]
        BY <1>1, <1>8, <1>11, <1>12
      <4>. QED
        BY <4>1 DEF Addends
    <3>. QED
      BY <1>11, <2>1, <3>1 DEF Supports
  <2>. QED
    BY <2>2, SumSupport
<1>15. rest = [e \in R |-> NotNegative(alloc[e] - attr[e])] /\ left = [e \in live |-> NotNegative(amount[e] - allocLive[e])]
  OBVIOUS
<1> HIDE DEF R, exported, live, amount, alloc, attr, rest, allocLive, left, x
<1>16. /\ NotNegative(SumFunction(alloc) - SumFunction(attr)) = SumFunction(rest)
       /\ SumFunction(attr) + NotNegative(SumFunction(alloc) - SumFunction(attr)) = SumFunction(alloc)
  <2>1. IsFiniteSet(R) /\ alloc \in [R -> Nat] /\ attr \in [R -> Nat] /\ \A e \in R : attr[e] <= alloc[e]
    BY <1>1, <1>8
  <2>. QED
    BY <1>15, <2>1, ColumnsAddUp
<1>17. ASSUME \A e \in live : allocLive[e] <= amount[e]
       PROVE  /\ NotNegative(SumFunction(amount) - SumFunction(allocLive)) = SumFunction(left)
              /\ SumFunction(allocLive) + NotNegative(SumFunction(amount) - SumFunction(allocLive)) = SumFunction(amount)
  BY <1>11, <1>12, <1>15, <1>17, ColumnsAddUp
<1>18. /\ x.attributed = Total([e \in DOMAIN exported |-> exported[e].attributed])
       /\ x.unattributed = Total([e \in DOMAIN exported |-> exported[e].unattributed])
       /\ x.attributed + x.unattributed = x.allocated
  BY <1>4, <1>7, <1>16, TotalIsSum
<1>19. (\A e \in DOMAIN exported : Assigned(e) <= expense[e].amount) =>
         /\ x.allocated + x.unallocated = x.total
         /\ x.unallocated = Total([e \in live |-> exported[e].unallocated])
  BY <1>4, <1>10, <1>13, <1>14, <1>17, TotalIsSum
<1>. QED
  BY <1>9, <1>18, <1>19 DEF SummaryMatchesExpenses, exported, x

\* The preview of an allocation, which splits it receipt by receipt.
LEMMA PreviewAndReports ==
  ASSUME CostsStand, LinksHold(line, shipment), NEW e \in Expenses, NEW a \in AllocationsOf(e)
  PROVE  PreviewMatchesReports(e, a)
<1> DEFINE q == line[a[2]].links
           p == line[a[2]].planned
           c == AmountOf(e, a)
<1>1. c \in Nat /\ a[2] \in DOMAIN line
  BY AllocationsTyped
<1>2. q \in Seq(Nat) /\ p \in Nat \ {0} /\ ReceivedOf(a[2]) = SumFunction(q) /\ SumFunction(q) <= p
  BY <1>1, CargoTyped
<1>3. /\ Preview(e, a) = Split(q, p, c)
      /\ AttributedByReports(e, a) = Attribute(c, p, SumFunction(q))
  BY <1>2 DEF Preview, AttributedByReports
<1>4. Total(Split(q, p, c).perKey) = SumFunction(Split(q, p, c).perKey)
  BY TotalIsSum
<1> HIDE DEF q, p, c
<1>5. SumFunction(Split(q, p, c).perKey) + Split(q, p, c).unattributed = c
  BY <1>1, <1>2, SplitAddsUp
<1>6. SumFunction(Split(q, p, c).perKey) - Attribute(c, p, SumFunction(q)) \in -Len(q)..Len(q)
  BY <1>1, <1>2, SplitIsNear
<1>. QED
  BY <1>3, <1>4, <1>5, <1>6 DEF PreviewMatchesReports, q, c

\* A completed operation without a gap in its quantities.
LEMMA ReceivedCarries ==
  ASSUME CostsStand, LinksHold(line, shipment), NEW o \in Operations
  PROVE  ReceivedCarriesAll(o)
<1>1. SUFFICES ASSUME operation[o] = "COMPLETED",
                      Reconciliation(o) \notin {"DATA_INCONSISTENCY", "PARTIAL_PENDING_OPERATIONAL_LINK"}
               PROVE  /\ SummaryOf(o).cargo.unlinked = 0
                      /\ SummaryOf(o).shipments["PLANNED"] + SummaryOf(o).shipments["IN_TRANSIT"] = 0
                      /\ {l \in WithDiscrepancies(CargoOf(o)) : line[l].item # NoItem} = {}
                      /\ \A e \in Expenses : \A a \in AllocationsOf(e) :
                           a[2] \in CargoOf(o) => AttributedByReports(e, a) = AmountOf(e, a)
  BY DEF ReceivedCarriesAll
<1>2. /\ Codes(CargoOf(o)) \cap {"QUANTITY_EXCEEDS_SHIPPED", "INCONSISTENT_PRODUCT_REFERENCE"} = {}
      /\ Codes(CargoOf(o)) \cap {"ARRIVED_WITH_UNLINKED_CARGO", "PARTIAL_RECEIPT_LINKAGE"} = {}
  BY <1>1 DEF Reconciliation, Classify
<1>3. \A s \in ShipmentsOf(o) : shipment[s].status \in {"ARRIVED", "CANCELLED"}
  BY <1>1 DEF CostsStand, CostRowsStand, CompletedIsOver
<1>4. ASSUME NEW l \in CargoOf(o)
      PROVE  /\ l \in DOMAIN line /\ ReceivedOf(l) = line[l].planned
             /\ line[l].planned \in Nat
             /\ Discrepancies(l) # {} => line[l].item = NoItem
  <2>1. /\ l \in DOMAIN line /\ shipment[line[l].shipment].operation = o
        /\ shipment[line[l].shipment].status # "CANCELLED"
    BY DEF CargoOf
  <2>2. /\ line[l].planned \in Nat /\ ReceivedOf(l) \in 0..line[l].planned
        /\ line[l].shipment \in Shipments /\ shipment[line[l].shipment] \in ShipmentRecord
    BY <2>1, CargoTyped
  <2>3. shipment[line[l].shipment].status = "ARRIVED"
    <3>1. line[l].shipment \in ShipmentsOf(o)
      BY <2>1, <2>2 DEF ShipmentsOf, ShipmentRecord
    <3>. QED
      BY <1>3, <2>1, <3>1
  <2>4. "ARRIVED_WITH_UNLINKED_CARGO" \notin Discrepancies(l) /\ "PARTIAL_RECEIPT_LINKAGE" \notin Discrepancies(l)
    BY <1>2 DEF Codes
  <2>5. ~(line[l].planned - ReceivedOf(l) > 0 /\ ReceivedOf(l) = 0)
    BY <2>3, <2>4 DEF Discrepancies
  <2>6. ~(line[l].planned - ReceivedOf(l) > 0 /\ ReceivedOf(l) > 0)
    BY <2>3, <2>4 DEF Discrepancies
  <2>7. ReceivedOf(l) = line[l].planned
    BY <2>2, <2>5, <2>6
  <2>8. line[l].planned - ReceivedOf(l) = 0
    BY <2>2, <2>7
  <2>9. Discrepancies(l) # {} => line[l].item = NoItem
    BY <2>8 DEF Discrepancies
  <2>. QED
    BY <2>1, <2>2, <2>7, <2>9
<1>5. SummaryOf(o).cargo.unlinked = 0
  <2> DEFINE planned == [l \in CargoOf(o) |-> line[l].planned]
             received == [l \in CargoOf(o) |-> ReceivedOf(l)]
  <2>1. planned = received
    BY <1>4
  <2>2. IsFiniteSet(CargoOf(o))
    <3>1. IsFiniteSet(DOMAIN line)
      BY TableTyped DEF CostsStand, CostRowsStand, CostShape
    <3>. QED
      BY <3>1, FS_Subset DEF CargoOf
  <2>3. planned \in [CargoOf(o) -> Int]
    BY <1>4
  <2>4. SummaryOf(o).cargo.unlinked = NotNegative(Total(planned) - Total(received))
    BY DEF SummaryOf, Cargo
  <2> HIDE DEF planned, received
  <2>5. Total(planned) \in Int
    BY <2>2, <2>3, SumType, TotalIsSum
  <2>6. Total(planned) - Total(received) = 0
    BY <2>1, <2>5
  <2>. QED
    BY <2>4, <2>6 DEF NotNegative
<1>6. SummaryOf(o).shipments["PLANNED"] + SummaryOf(o).shipments["IN_TRANSIT"] = 0
  <2>1. /\ {s \in ShipmentsOf(o) : shipment[s].status = "PLANNED"} = {}
        /\ {s \in ShipmentsOf(o) : shipment[s].status = "IN_TRANSIT"} = {}
    BY <1>3
  <2>2. /\ SummaryOf(o).shipments["PLANNED"] = Cardinality({s \in ShipmentsOf(o) : shipment[s].status = "PLANNED"})
        /\ SummaryOf(o).shipments["IN_TRANSIT"] = Cardinality({s \in ShipmentsOf(o) : shipment[s].status = "IN_TRANSIT"})
    BY DEF SummaryOf, CountByStatus
  <2>3. Cardinality({}) = 0
    BY FS_EmptySet
  <2>4. SummaryOf(o).shipments["PLANNED"] = 0 /\ SummaryOf(o).shipments["IN_TRANSIT"] = 0
    BY <2>1, <2>2, <2>3
  <2>. QED
    BY <2>4
<1>7. {l \in WithDiscrepancies(CargoOf(o)) : line[l].item # NoItem} = {}
  BY <1>4 DEF WithDiscrepancies
<1>8. \A e \in Expenses : \A a \in AllocationsOf(e) :
        a[2] \in CargoOf(o) => AttributedByReports(e, a) = AmountOf(e, a)
  BY <1>4, AttributedTyped
<1>. QED
  BY <1>5, <1>6, <1>7, <1>8

-----------------------------------------------------------------------------
(* Reports on imports: the exports of an operation. *)

\* What is exported of an operation by itself.
LEMMA OneOperation ==
  ASSUME NEW o \in OperationsShown(Query({}, {}))
  PROVE  /\ o \in Operations
         /\ SummaryExport(Query({o}, {})) = PerCurrency(o, SummaryOf(o).expenses)
         /\ {x.row : x \in ReconciliationExport(Query({o}, {}), {})} = PerCurrency(o, SummaryOf(o).expenses)
         /\ \A x \in ReconciliationExport(Query({o}, {}), {}) : x.codes = Codes(CargoOf(o))
         /\ LinesShown(Query({o}, {})) = CargoOf(o)
<1> DEFINE all == Query({o}, {})
<1>1. o \in Operations /\ operation[o] # "NONE"
  BY DEF OperationsShown
<1>2. all.operation = {o} /\ all.status = {}
  BY DEF Query
<1>3. \A x : ({o} \in {{}, {x}}) <=> x = o
  OBVIOUS
<1> HIDE DEF all
<1>4. OperationsShown(all) = {o}
  <2>1. ASSUME NEW x PROVE x \in OperationsShown(all) <=> x = o
    BY <1>1, <1>2, <1>3 DEF OperationsShown
  <2>. QED
    BY <2>1
<1>5. SummaryRows(all) = [x \in {o} |-> SummaryOf(x)]
  BY <1>4 DEF SummaryRows
<1>6. SummaryExport(all) = PerCurrency(o, SummaryOf(o).expenses)
  <2> DEFINE rs == SummaryRows(all)
  <2>1. DOMAIN rs = {o} /\ rs[o] = SummaryOf(o)
    BY <1>5
  <2>2. SummaryExport(all) = UNION {PerCurrency(x, rs[x].expenses) : x \in DOMAIN rs}
    BY DEF SummaryExport
  <2> HIDE DEF rs
  <2>3. {PerCurrency(x, rs[x].expenses) : x \in DOMAIN rs} = {PerCurrency(o, SummaryOf(o).expenses)}
    BY <2>1
  <2>. QED
    BY <2>2, <2>3
<1>7. ReconciliationRows(all, {}) = {o}
  BY <1>4 DEF ReconciliationRows
<1> DEFINE P == PerCurrency(o, SummaryOf(o).expenses)
           full(row) == [row |-> row, status |-> Reconciliation(o), codes |-> Codes(CargoOf(o))]
<1>8. ReconciliationExport(all, {}) = {full(row) : row \in P}
  <2>1. ReconciliationExport(all, {})
          = UNION {{[row |-> row, status |-> Reconciliation(x), codes |-> Codes(CargoOf(x))] :
                       row \in PerCurrency(x, SummaryOf(x).expenses)} : x \in {o}}
    BY <1>7 DEF ReconciliationExport
  <2>. QED
    BY <2>1
<1> HIDE DEF P
<1>9. \A row : full(row).row = row /\ full(row).codes = Codes(CargoOf(o))
  OBVIOUS
<1> HIDE DEF full
<1>10. /\ {x.row : x \in ReconciliationExport(all, {})} = P
       /\ \A x \in ReconciliationExport(all, {}) : x.codes = Codes(CargoOf(o))
  <2>1. \A x \in ReconciliationExport(all, {}) : \E row \in P : x = full(row)
    BY <1>8
  <2>2. \A row \in P : full(row) \in ReconciliationExport(all, {})
    BY <1>8
  <2>. QED
    BY <1>9, <2>1, <2>2
<1>11. LinesShown(all) = CargoOf(o)
  <2>1. ASSUME NEW l \in DOMAIN line
        PROVE  l \in LinesShown(all) <=>
                 /\ {o} \in {{}, {shipment[line[l].shipment].operation}}
                 /\ shipment[line[l].shipment].status # "CANCELLED"
    BY <1>2 DEF LinesShown
  <2>2. LinesShown(all) \subseteq DOMAIN line /\ CargoOf(o) \subseteq DOMAIN line
    BY DEF LinesShown, CargoOf
  <2>3. ASSUME NEW l \in DOMAIN line PROVE l \in LinesShown(all) <=> l \in CargoOf(o)
    BY <1>3, <2>1 DEF CargoOf
  <2>. QED
    BY <2>2, <2>3
<1>. QED
  BY <1>1, <1>6, <1>10, <1>11 DEF all, P

\* The expenses of an operation, by their currencies.
LEMMA CurrenciesTyped ==
  ASSUME CostsStand, NEW o
  PROVE  /\ IsFiniteSet(CurrenciesOf(o))
         /\ \A e \in ExpensesShown(Query({o}, {})) : expense[e].currency \in CurrenciesOf(o)
<1> DEFINE R == ExpensesShown(Query({o}, {}))
           B == CurrenciesOf(o)
           key == [e \in R |-> expense[e].currency]
<1>1. /\ IsFiniteSet(R) /\ \A e \in R : expense[e].currency \in Currencies
      /\ \A c : ExpensesOf(o, c) = {e \in R : expense[e].currency = c}
  BY ExpensesShownAre DEF ExpenseRecord
<1>2. \A e \in R : expense[e].currency \in B
  BY <1>1 DEF CurrenciesOf
<1>3. \A c \in B : \E e \in R : expense[e].currency = c
  BY <1>1 DEF CurrenciesOf
<1> HIDE DEF R, B
<1>4. key \in Surjection(R, B)
  BY <1>2, <1>3 DEF Surjection
<1>5. IsFiniteSet(B)
  BY <1>1, <1>4, FS_Surjection
<1>. QED
  BY <1>2, <1>5 DEF R, B


\* A column of the rows by currency adds up to that of the expenses, if each row
\* has the sum for its currency.
LEMMA CurrenciesAddUp ==
  ASSUME CostsStand, NEW o, NEW aggregates, DOMAIN aggregates = CurrenciesOf(o),
         NEW f \in [ExpensesShown(Query({o}, {})) -> Int],
         NEW g \in [PerCurrency(o, aggregates) -> Int],
         CurrenciesOf(o) = {} => \A x \in PerCurrency(o, aggregates) : g[x] = 0,
         CurrenciesOf(o) # {} => \A x \in PerCurrency(o, aggregates) :
                                   g[x] = SumFunction(Part(f, ExpensesOf(o, x.currency)))
  PROVE  SumFunction(g) = SumFunction(f)
<1> DEFINE R == ExpensesShown(Query({o}, {}))
           B == CurrenciesOf(o)
           P == PerCurrency(o, aggregates)
           row(c) == [operation |-> o, currency |-> c, total |-> aggregates[c].total,
                      allocated |-> aggregates[c].allocated, attributed |-> aggregates[c].attributed]
           key == [e \in R |-> expense[e].currency]
           name == [c \in B |-> row(c)]
           sums == GroupSums(f, R, key, B)
<1>1. IsFiniteSet(B) /\ key \in [R -> B]
  BY CurrenciesTyped
<1>2. IsFiniteSet(R) /\ \A c : ExpensesOf(o, c) = {e \in R : expense[e].currency = c}
  BY ExpensesShownAre
<1>3. CASE B = {}
  <2>1. R = {}
    BY <1>1, <1>3
  <2>2. SumFunction(f) = 0
    BY <2>1, SumNothing
  <2>3. \E x : P = {x}
    BY <1>3 DEF PerCurrency
  <2>4. IsFiniteSet(P)
    BY <2>3, FS_Singleton
  <2>5. SumFunction(g) = 0
    BY <1>3, <2>4, SumZero
  <2>. QED
    BY <2>2, <2>5
<1>4. CASE B # {}
  <2>1. P = {row(c) : c \in B}
    BY <1>4 DEF PerCurrency
  <2>2. \A c : row(c).currency = c
    OBVIOUS
  <2> HIDE DEF row
  <2>3. /\ \A c \in B : name[c] \in P /\ name[c].currency = c
        /\ \A x \in P : \E c \in B : name[c] = x
        /\ \A b, c \in B : name[b] = name[c] => b = c
    BY <2>1, <2>2
  <2>4. IsFiniteSet(P)
    <3> HIDE DEF B, P
    <3>1. name \in Surjection(B, P)
      BY <2>3 DEF Surjection
    <3>. QED
      BY <1>1, <3>1, FS_Surjection
  <2>5. Keyed(f, R, key, B)
    BY <1>1, <1>2 DEF Keyed, Addends
  <2>6. Addends(sums, B) /\ SumFunction(sums) = SumFunction(f)
    <3>1. Addends(GroupSums(f, R, key, B), B)
      BY <2>5, GroupSumsTyped
    <3>2. SumFunction(GroupSums(f, R, key, B)) = SumFunction(f)
      BY <2>5, SumGrouped
    <3>. QED
      BY <3>1, <3>2
  <2>7. \A c \in B : g[name[c]] = sums[c]
    <3>1. ASSUME NEW c \in B PROVE g[name[c]] = sums[c]
      <4>1. g[name[c]] = SumFunction(Part(f, ExpensesOf(o, c)))
        BY <1>4, <2>3
      <4>2. {e \in R : key[e] = c} = ExpensesOf(o, c)
        BY <1>2
      <4>3. sums[c] = SumFunction(Part(f, {e \in R : key[e] = c}))
        BY DEF GroupSums
      <4>. QED
        BY <4>1, <4>2, <4>3
    <3>. QED
      BY <3>1
  <2> HIDE DEF R, B, P, key, name, sums
  <2>8. Addends(g, P)
    BY <2>4 DEF Addends, P
  <2>9. Renames(g, P, sums, B, name)
    BY <2>3, <2>6, <2>7, <2>8 DEF Renames
  <2>. QED
    BY <2>6, <2>9, SumRenamed
<1>. QED
  BY <1>3, <1>4

LEMMA ExportsAgree ==
  ASSUME CostsStand, LinksHold(line, shipment), NEW o \in OperationsShown(Query({}, {}))
  PROVE  ExportsMatch(o)
<1> DEFINE all == Query({o}, {})
           R == ExpensesShown(all)
           exported == ExpenseExport(all)
           aggregates == SummaryOf(o).expenses
           P == PerCurrency(o, aggregates)
           alloc == [e \in R |-> AllocatedTo(e)]
           attr == [e \in R |-> AttributedInAll(e)]
<1>1. /\ o \in Operations
      /\ {SummaryExport(all), {x.row : x \in ReconciliationExport(all, {})}} = {P}
      /\ \A x \in ReconciliationExport(all, {}) : x.codes = Codes(CargoOf(o))
      /\ LinesShown(all) = CargoOf(o)
  BY OneOperation
<1>2. /\ R \subseteq Expenses /\ IsFiniteSet(R)
      /\ \A e \in R : expense[e].operation = o
      /\ \A c : ExpensesOf(o, c) = {e \in R : expense[e].currency = c}
  BY ExpensesShownAre
<1>3. ASSUME NEW e \in R
      PROVE  /\ Attributed(e, CargoOf(o)) = AttributedInAll(e)
             /\ Attributed(e, LinesOfAllocations(R)) = AttributedInAll(e)
             /\ AttributedInAll(e) \in Nat /\ AllocatedTo(e) \in Nat
  <2>1. e \in Expenses /\ expense[e].operation = o
    BY <1>2
  <2>2. Loads(e, CargoOf(o)) /\ Loads(e, LinesOfAllocations(R))
    BY <2>1, CargoLoads, OwnLinesLoad
  <2>. QED
    BY <2>1, <2>2, AttributedAlike, AllocatedIsAssigned
<1>4. /\ DOMAIN exported = R
      /\ [e \in DOMAIN exported |-> exported[e].allocated] = alloc
      /\ [e \in DOMAIN exported |-> exported[e].attributed] = attr
  <2>1. DOMAIN exported = R
    BY DEF ExpenseExport
  <2>2. ASSUME NEW e \in R PROVE exported[e].allocated = alloc[e] /\ exported[e].attributed = attr[e]
    <3>1. exported[e] = ExpenseReconciliation(e, LinesOfAllocations(R))
      BY DEF ExpenseExport
    <3>. QED
      BY <1>3, <3>1 DEF ExpenseReconciliation, Shared
  <2> HIDE DEF exported
  <2>. QED
    BY <2>1, <2>2
<1>5. alloc \in [R -> Int] /\ attr \in [R -> Int]
  BY <1>3
<1>6. ASSUME NEW c
      PROVE  /\ ExpensesByCurrency(o, c).allocated = SumFunction(Part(alloc, ExpensesOf(o, c)))
             /\ ExpensesByCurrency(o, c).attributed = SumFunction(Part(attr, ExpensesOf(o, c)))
             /\ SumFunction(Part(alloc, ExpensesOf(o, c))) \in Int
             /\ SumFunction(Part(attr, ExpensesOf(o, c))) \in Int
  <2> DEFINE S == ExpensesOf(o, c)
  <2>1. S \in SUBSET R
    BY <1>2
  <2>2. Part(alloc, S) = [e \in S |-> AllocatedTo(e)]
    BY <2>1 DEF Part
  <2>3. Part(attr, S) = [e \in S |-> Attributed(e, CargoOf(o))]
    BY <1>3, <2>1 DEF Part
  <2>4. /\ ExpensesByCurrency(o, c).allocated = Total([e \in S |-> AllocatedTo(e)])
        /\ ExpensesByCurrency(o, c).attributed = Total([e \in S |-> Attributed(e, CargoOf(o))])
    BY DEF ExpensesByCurrency, Shared
  <2> HIDE DEF S, alloc, attr, R
  <2>5. SumFunction(Part(alloc, S)) \in Int /\ SumFunction(Part(attr, S)) \in Int
    BY <1>2, <1>5, <2>1, PartSums
  <2>. QED
    BY <2>2, <2>3, <2>4, <2>5, TotalIsSum DEF S
<1>7. aggregates = [c \in CurrenciesOf(o) |-> ExpensesByCurrency(o, c)]
  BY DEF SummaryOf
<1>8. ASSUME NEW x \in P
      PROVE  /\ CurrenciesOf(o) = {} => x.allocated = 0 /\ x.attributed = 0
             /\ CurrenciesOf(o) # {} =>
                  /\ x.allocated = SumFunction(Part(alloc, ExpensesOf(o, x.currency)))
                  /\ x.attributed = SumFunction(Part(attr, ExpensesOf(o, x.currency)))
             /\ x.allocated \in Int /\ x.attributed \in Int
  <2>1. DOMAIN aggregates = CurrenciesOf(o)
        /\ \A c \in CurrenciesOf(o) : aggregates[c] = ExpensesByCurrency(o, c)
    BY <1>7
  <2> HIDE DEF aggregates, alloc, attr
  <2>2. CASE CurrenciesOf(o) = {}
    <3> DEFINE empty == [operation |-> o, currency |-> "", total |-> 0, allocated |-> 0, attributed |-> 0]
    <3>1. P = {empty}
      BY <2>1, <2>2 DEF PerCurrency
    <3>2. empty.allocated = 0 /\ empty.attributed = 0
      OBVIOUS
    <3> HIDE DEF empty, P
    <3>3. x.allocated = 0 /\ x.attributed = 0
      BY <3>1, <3>2
    <3>. QED
      BY <2>2, <3>3
  <2>3. CASE CurrenciesOf(o) # {}
    <3>1. PICK c \in CurrenciesOf(o) :
            x = [operation |-> o, currency |-> c, total |-> aggregates[c].total,
                 allocated |-> aggregates[c].allocated, attributed |-> aggregates[c].attributed]
      BY <2>1, <2>3 DEF PerCurrency
    <3>2. x.currency = c /\ x.allocated = ExpensesByCurrency(o, c).allocated
          /\ x.attributed = ExpensesByCurrency(o, c).attributed
      BY <2>1, <3>1
    <3>. QED
      BY <1>6, <2>3, <3>2
  <2>. QED
    BY <2>2, <2>3
<1>9. DOMAIN aggregates = CurrenciesOf(o)
  BY <1>7
<1> HIDE DEF aggregates, P, alloc, attr, exported
<1>10. SumFunction([x \in P |-> x.allocated]) = SumFunction(alloc)
  <2> DEFINE g == [x \in P |-> x.allocated]
  <2>1. g \in [PerCurrency(o, aggregates) -> Int]
    BY <1>8 DEF P
  <2>2. alloc \in [ExpensesShown(Query({o}, {})) -> Int]
    BY <1>5
  <2>3. CurrenciesOf(o) = {} => \A x \in PerCurrency(o, aggregates) : g[x] = 0
    BY <1>8 DEF P
  <2>4. CurrenciesOf(o) # {} => \A x \in PerCurrency(o, aggregates) :
                                   g[x] = SumFunction(Part(alloc, ExpensesOf(o, x.currency)))
    BY <1>8 DEF P
  <2> HIDE DEF g
  <2>5. SumFunction(g) = SumFunction(alloc)
    BY <1>9, <2>1, <2>2, <2>3, <2>4, CurrenciesAddUp
  <2>. QED
    BY <2>5 DEF g
<1>11. SumFunction([x \in P |-> x.attributed]) = SumFunction(attr)
  <2> DEFINE g == [x \in P |-> x.attributed]
  <2>1. g \in [PerCurrency(o, aggregates) -> Int]
    BY <1>8 DEF P
  <2>2. attr \in [ExpensesShown(Query({o}, {})) -> Int]
    BY <1>5
  <2>3. CurrenciesOf(o) = {} => \A x \in PerCurrency(o, aggregates) : g[x] = 0
    BY <1>8 DEF P
  <2>4. CurrenciesOf(o) # {} => \A x \in PerCurrency(o, aggregates) :
                                   g[x] = SumFunction(Part(attr, ExpensesOf(o, x.currency)))
    BY <1>8 DEF P
  <2> HIDE DEF g
  <2>5. SumFunction(g) = SumFunction(attr)
    BY <1>9, <2>1, <2>2, <2>3, <2>4, CurrenciesAddUp
  <2>. QED
    BY <2>5 DEF g
<1>12. \A table \in {SummaryExport(all), {x.row : x \in ReconciliationExport(all, {})}} :
         /\ Total([x \in table |-> x.allocated]) = Total([e \in DOMAIN exported |-> exported[e].allocated])
         /\ Total([x \in table |-> x.attributed]) = Total([e \in DOMAIN exported |-> exported[e].attributed])
  BY <1>1, <1>4, <1>10, <1>11, TotalIsSum
<1> DEFINE C == CargoOf(o)
           row(l) == [line |-> l, operation |-> shipment[line[l].shipment].operation,
                      planned |-> line[l].planned, linked |-> ReceivedOf(l), codes |-> Discrepancies(l)]
           goods == ShipmentExport(all, FALSE)
           received == [l \in C |-> ReceivedOf(l)]
           linked == [x \in goods |-> x.linked]
           name == [l \in C |-> row(l)]
<1>13. goods = {row(l) : l \in C}
  <2>1. {l \in LinesShown(all) : FALSE => Discrepancies(l) # {}} = C
    BY <1>1
  <2>. QED
    BY <2>1 DEF ShipmentExport
<1>14. \A l : row(l).line = l /\ row(l).linked = ReceivedOf(l) /\ row(l).codes = Discrepancies(l)
  OBVIOUS
<1>15. C \subseteq DOMAIN line /\ IsFiniteSet(C)
  <2>1. IsFiniteSet(DOMAIN line)
    BY TableTyped DEF CostsStand, CostRowsStand, CostShape
  <2>. QED
    BY <2>1, FS_Subset DEF CargoOf
<1>16. \A l \in C : ReceivedOf(l) \in Int
  BY <1>15, CargoTyped
<1> HIDE DEF row, goods, all
<1>17. /\ \A l \in C : name[l] \in goods /\ name[l].linked = ReceivedOf(l)
       /\ \A l, m \in C : name[l] = name[m] => l = m
       /\ \A x \in goods : \E l \in C : name[l] = x
  BY <1>13, <1>14
<1>18. IsFiniteSet(goods)
  <2> HIDE DEF C
  <2>1. name \in Surjection(C, goods)
    BY <1>17 DEF Surjection
  <2>. QED
    BY <1>15, <2>1, FS_Surjection
<1>19. SumFunction(linked) = SumFunction(received)
  <2>1. \A x \in goods : x.linked \in Int
    BY <1>16, <1>17
  <2>2. Addends(linked, goods) /\ Addends(received, C)
    BY <1>15, <1>16, <1>18, <2>1 DEF Addends
  <2>3. \A l \in C : name[l] \in goods /\ linked[name[l]] = received[l]
    BY <1>17
  <2> HIDE DEF C, linked, received, name
  <2>4. Renames(linked, goods, received, C, name)
    BY <1>17, <2>2, <2>3 DEF Renames
  <2>. QED
    BY <2>4, SumRenamed
<1>20. Total(linked) = SummaryOf(o).cargo.received
  <2>1. SummaryOf(o).cargo.received = Total(received)
    BY DEF SummaryOf, Cargo
  <2>. QED
    BY <1>19, <2>1, TotalIsSum
<1>21. UNION {y.codes : y \in goods} = Codes(C)
  <2>1. {y.codes : y \in goods} = {Discrepancies(l) : l \in C}
    BY <1>13, <1>14
  <2>. QED
    BY <2>1 DEF Codes
<1>22. \A x \in ReconciliationExport(all, {}) : x.codes = UNION {y.codes : y \in goods}
  BY <1>1, <1>21
<1>. QED
  BY <1>12, <1>20, <1>22 DEF ExportsMatch, all, goods, exported

-----------------------------------------------------------------------------
(* Reports on imports: the pages of a list. *)

\* One row on each of the first pages, and none on those behind them.
ShowsAll(R, n) ==
  /\ \A k \in 1..n : Rows(R, k, 1) = <<>> \/ \E x \in R : Rows(R, k, 1) = <<x>>
  /\ \A x \in R : \E k \in 1..n : Rows(R, k, 1) = <<x>>

\* A set is listed in some order.
LEMMA Enumerated ==
  ASSUME NEW R, IsFiniteSet(R)
  PROVE  /\ SetToSeq(R) \in [1..Cardinality(R) -> R] /\ Cardinality(R) \in Nat
         /\ \A x \in R : \E k \in 1..Cardinality(R) : SetToSeq(R)[k] = x
<1> DEFINE N == Cardinality(R)
           s == SetToSeq(R)
<1>1. N \in Nat /\ ExistsBijection(1..N, R)
  BY FS_CardinalityType
<1>2. PICK t \in [1..N -> R] : IsInjective(t)
  BY <1>1 DEF ExistsBijection, Bijection, Injection
<1>3. s \in [1..N -> R] /\ IsInjective(s)
  BY <1>2 DEF SetToSeq
<1> HIDE DEF N, s
<1>4. Cardinality(1..N) = N
  BY <1>1, FS_Interval
<1>5. s \in Surjection(1..N, R)
  <2>1. s \in Injection(1..N, R)
    BY <1>3 DEF Injection
  <2>. QED
    BY <1>4, <2>1, FS_Injection DEF N
<1>. QED
  BY <1>1, <1>3, <1>5 DEF N, s, Surjection

LEMMA PagesShowAll ==
  ASSUME NEW R, IsFiniteSet(R), NEW n \in Nat, Cardinality(R) <= n
  PROVE  ShowsAll(R, n)
<1> DEFINE N == Cardinality(R)
           s == SetToSeq(R)
<1>1. /\ s \in [1..N -> R] /\ N \in Nat
      /\ \A x \in R : \E k \in 1..N : s[k] = x
  BY Enumerated
<1>2. \A k : Rows(R, k, 1) = SubSeq(s, (k - 1) * 1 + 1, Min({k * 1, N}))
  BY DEF Rows
<1> HIDE DEF N, s
<1>3. ASSUME NEW k \in 1..N PROVE Rows(R, k, 1) = <<s[k]>> /\ s[k] \in R
  <2>1. (k - 1) * 1 + 1 = k /\ k * 1 = k /\ Min({k, N}) = k
    BY <1>1, LeastOfTwo
  <2>2. Rows(R, k, 1) = SubSeq(s, k, k)
    BY <1>2, <2>1
  <2> DEFINE t == SubSeq(s, k, k)
  <2>3. k \in Int /\ \A i \in k..k : s[i] \in R
    BY <1>1
  <2>4. /\ t \in Seq(R) /\ Len(t) = IF k <= k THEN k - k + 1 ELSE 0
        /\ \A i \in 1..k - k + 1 : t[i] = s[k + i - 1]
    BY <2>3, SubSeqProperties
  <2> HIDE DEF t
  <2>5. Len(t) = 1 /\ t[1] = s[k]
    <3>1. k - k + 1 = 1 /\ k <= k /\ k + 1 - 1 = k /\ 1 \in 1..1
      BY <2>3
    <3>. QED
      BY <2>4, <3>1
  <2>6. t = <<s[k]>>
    BY <2>4, <2>5
  <2>. QED
    BY <1>1, <2>2, <2>6 DEF t
<1>4. ASSUME NEW k \in 1..n, ~(k <= N) PROVE Rows(R, k, 1) = <<>>
  <2>1. (k - 1) * 1 + 1 = k /\ k * 1 = k /\ Min({k, N}) = N
    BY <1>1, <1>4, LeastOfTwo
  <2>2. Rows(R, k, 1) = SubSeq(s, k, N)
    BY <1>2, <2>1
  <2>3. SubSeq(s, k, N) = <<>>
    <3> DEFINE t == SubSeq(s, k, N)
    <3>1. k \in Int /\ N \in Int /\ k > N
      BY <1>1, <1>4
    <3>2. \A i \in k..N : s[i] \in R
      BY <3>1
    <3>3. t \in Seq(R) /\ Len(t) = IF k <= N THEN N - k + 1 ELSE 0
      BY <3>1, <3>2, SubSeqProperties
    <3> HIDE DEF t
    <3>4. t = <<>>
      BY <3>1, <3>3
    <3>. QED
      BY <3>4 DEF t
  <2>. QED
    BY <2>2, <2>3
<1>5. \A k \in 1..n : k <= N => k \in 1..N
  BY <1>1
<1>6. \A k \in 1..N : k \in 1..n
  BY <1>1 DEF N
<1>. QED
  BY <1>1, <1>3, <1>4, <1>5, <1>6 DEF ShowsAll

LEMMA RangeOfPage ==
  /\ Range(<<>>) = {}
  /\ \A x : Range(<<x>>) = {x}
<1>1. DOMAIN <<>> = {}
  OBVIOUS
<1>2. \A x : DOMAIN <<x>> = {1} /\ <<x>>[1] = x
  OBVIOUS
<1>. QED
  BY <1>1, <1>2 DEF Range

\* Who turns the pages of a list sees it all.
LEMMA PagesTurned ==
  ASSUME NEW R, NEW n, ShowsAll(R, n)
  PROVE  UNION {Range(Rows(R, k, 1)) : k \in 1..n} = R
<1>1. \A k \in 1..n : Range(Rows(R, k, 1)) \subseteq R
  BY RangeOfPage DEF ShowsAll
<1>2. \A x \in R : \E k \in 1..n : x \in Range(Rows(R, k, 1))
  BY RangeOfPage DEF ShowsAll
<1>. QED
  BY <1>1, <1>2

\* What a table says of each row, on the page of that row.
SaidOnPages(page, table, R, n) ==
  /\ ShowsAll(R, n) /\ DOMAIN table = R
  /\ \A k \in 1..n : page[k] = [j \in DOMAIN Rows(R, k, 1) |-> table[Rows(R, k, 1)[j]]]

LEMMA PagesSay ==
  ASSUME NEW R, NEW n, NEW table, NEW page, SaidOnPages(page, table, R, n)
  PROVE  UNION {Range(page[k]) : k \in 1..n} = Range(table)
<1>. /\ ShowsAll(R, n) /\ DOMAIN table = R
     /\ \A k \in 1..n : page[k] = [j \in DOMAIN Rows(R, k, 1) |-> table[Rows(R, k, 1)[j]]]
  BY DEF SaidOnPages
<1>1. ASSUME NEW k \in 1..n, Rows(R, k, 1) = <<>> PROVE Range(page[k]) = {}
  <2>1. DOMAIN page[k] = DOMAIN Rows(R, k, 1)
    OBVIOUS
  <2>2. DOMAIN <<>> = {}
    OBVIOUS
  <2>3. DOMAIN page[k] = {}
    BY <1>1, <2>1, <2>2
  <2>. QED
    BY <2>3 DEF Range
<1>2. ASSUME NEW k \in 1..n, NEW x, Rows(R, k, 1) = <<x>> PROVE Range(page[k]) = {table[x]}
  <2>1. page[k] = [j \in DOMAIN <<x>> |-> table[<<x>>[j]]] /\ DOMAIN <<x>> = {1} /\ <<x>>[1] = x
    BY <1>2
  <2>2. DOMAIN page[k] = {1} /\ page[k][1] = table[x]
    BY <2>1
  <2>. QED
    BY <2>2 DEF Range
<1>3. \A k \in 1..n : Range(page[k]) \subseteq Range(table)
  <2>1. ASSUME NEW k \in 1..n PROVE Range(page[k]) \subseteq Range(table)
    <3>1. CASE Rows(R, k, 1) = <<>>
      BY <1>1, <3>1
    <3>2. CASE \E x \in R : Rows(R, k, 1) = <<x>>
      BY <1>2, <3>2 DEF Range
    <3>. QED
      BY <3>1, <3>2 DEF ShowsAll
  <2>. QED
    BY <2>1
<1>4. \A x \in R : \E k \in 1..n : table[x] \in Range(page[k])
  BY <1>2 DEF ShowsAll
<1>5. Range(table) = {table[x] : x \in R}
  BY DEF Range
<1>. QED
  BY <1>3, <1>4, <1>5

\* An expense reads the same on its page and in the export.
LEMMA ReadsAlike ==
  ASSUME CostsStand, LinksHold(line, shipment), NEW e \in Expenses, NEW R, NEW S, e \in R, e \in S
  PROVE  ExpenseReconciliation(e, LinesOfAllocations(R)) = ExpenseReconciliation(e, LinesOfAllocations(S))
<1>1. Attributed(e, LinesOfAllocations(R)) = AttributedInAll(e)
  BY OwnLinesLoad, AttributedAlike
<1>2. Attributed(e, LinesOfAllocations(S)) = AttributedInAll(e)
  BY OwnLinesLoad, AttributedAlike
<1>. QED
  BY <1>1, <1>2 DEF ExpenseReconciliation

LEMMA OperationsShownAre ==
  \A query : /\ OperationsShown(query) \subseteq Operations
             /\ ShowsAll(OperationsShown(query), Cardinality(Operations))
<1>1. ASSUME NEW query
      PROVE  /\ OperationsShown(query) \subseteq Operations
             /\ ShowsAll(OperationsShown(query), Cardinality(Operations))
  <2> DEFINE R == OperationsShown(query)
  <2>1. R \in SUBSET Operations
    BY DEF OperationsShown
  <2>2. IsFiniteSet(Operations) /\ Cardinality(Operations) \in Nat
    BY ImportReportsAssumption, FS_CardinalityType
  <2>3. IsFiniteSet(R) /\ Cardinality(R) <= Cardinality(Operations)
    BY <2>1, <2>2, FS_Subset
  <2> HIDE DEF R
  <2>4. ShowsAll(R, Cardinality(Operations))
    BY <2>2, <2>3, PagesShowAll
  <2>. QED
    BY <2>1, <2>4 DEF R
<1>. QED
  BY <1>1

LEMMA SummaryPagesAgree ==
  ASSUME NEW query
  PROVE  UNION {Range(SummaryPage(query, k, 1)) : k \in 1..Cardinality(Operations)} = Range(SummaryRows(query))
<1> DEFINE R == OperationsShown(query)
           n == Cardinality(Operations)
           table == SummaryRows(query)
           page == [k \in 1..n |-> SummaryPage(query, k, 1)]
<1>1. ShowsAll(R, n)
  BY OperationsShownAre
<1>2. DOMAIN table = R /\ \A x \in R : table[x] = SummaryOf(x)
  BY DEF SummaryRows
<1>3. ASSUME NEW k \in 1..n
      PROVE  page[k] = [j \in DOMAIN Rows(R, k, 1) |-> table[Rows(R, k, 1)[j]]]
  <2> DEFINE t == Rows(R, k, 1)
  <2>1. page[k] = [j \in DOMAIN t |-> SummaryOf(t[j])]
    BY DEF SummaryPage
  <2>2. \A j \in DOMAIN t : t[j] \in R
    <3>1. t = <<>> \/ \E x \in R : t = <<x>>
      BY <1>1 DEF ShowsAll
    <3> HIDE DEF t
    <3>. QED
      BY <3>1
  <2> HIDE DEF t, table, page, R
  <2>. QED
    BY <1>2, <2>1, <2>2 DEF t
<1>4. {Range(SummaryPage(query, k, 1)) : k \in 1..n} = {Range(page[k]) : k \in 1..n}
  OBVIOUS
<1> HIDE DEF R, n, table, page
<1>5. SaidOnPages(page, table, R, n)
  BY <1>1, <1>2, <1>3 DEF SaidOnPages
<1>6. UNION {Range(page[k]) : k \in 1..n} = Range(table)
  BY <1>5, PagesSay
<1>. QED
  BY <1>4, <1>6 DEF n, table

LEMMA ExpensePagesAgree ==
  ASSUME CostsStand, LinksHold(line, shipment), NEW query
  PROVE  UNION {Range(ExpensePage(query, k, 1)) : k \in 1..Cardinality(Expenses)} = Range(ExpenseExport(query))
<1> DEFINE R == ExpensesShown(query)
           n == Cardinality(Expenses)
           table == ExpenseExport(query)
           page == [k \in 1..n |-> ExpensePage(query, k, 1)]
<1>1. R \in SUBSET Expenses /\ IsFiniteSet(R)
  BY ExpensesShownAre
<1>2. ShowsAll(R, n)
  <2>1. IsFiniteSet(Expenses) /\ n \in Nat
    BY ImportReportsAssumption, FS_CardinalityType
  <2>2. Cardinality(R) <= n
    BY <1>1, <2>1, FS_Subset
  <2> HIDE DEF R, n
  <2>. QED
    BY <1>1, <2>1, <2>2, PagesShowAll
<1>3. DOMAIN table = R /\ \A e \in R : table[e] = ExpenseReconciliation(e, LinesOfAllocations(R))
  BY DEF ExpenseExport
<1>4. ASSUME NEW k \in 1..n
      PROVE  page[k] = [j \in DOMAIN Rows(R, k, 1) |-> table[Rows(R, k, 1)[j]]]
  <2> DEFINE t == Rows(R, k, 1)
  <2>1. page[k] = [j \in DOMAIN t |-> ExpenseReconciliation(t[j], LinesOfAllocations(Range(t)))]
    BY DEF ExpensePage
  <2>2. \A j \in DOMAIN t : t[j] \in R /\ t[j] \in Range(t)
    <3>1. t = <<>> \/ \E x \in R : t = <<x>>
      BY <1>2 DEF ShowsAll
    <3> HIDE DEF t
    <3>2. \A j \in DOMAIN t : t[j] \in R
      BY <3>1
    <3>. QED
      BY <3>2 DEF Range
  <2> HIDE DEF t, table, page, R
  <2>3. \A j \in DOMAIN t : ExpenseReconciliation(t[j], LinesOfAllocations(Range(t))) = table[t[j]]
    <3>1. ASSUME NEW j \in DOMAIN t
          PROVE  ExpenseReconciliation(t[j], LinesOfAllocations(Range(t))) = table[t[j]]
      <4>1. t[j] \in Expenses /\ t[j] \in R /\ t[j] \in Range(t)
        BY <1>1, <2>2
      <4>. QED
        BY <1>3, <4>1, ReadsAlike
    <3>. QED
      BY <3>1
  <2>. QED
    BY <2>1, <2>3 DEF t
<1>5. {Range(ExpensePage(query, k, 1)) : k \in 1..n} = {Range(page[k]) : k \in 1..n}
  OBVIOUS
<1> HIDE DEF R, n, table, page
<1>6. SaidOnPages(page, table, R, n)
  BY <1>2, <1>3, <1>4 DEF SaidOnPages
<1>7. UNION {Range(page[k]) : k \in 1..n} = Range(table)
  BY <1>6, PagesSay
<1>. QED
  BY <1>5, <1>7 DEF n, table

LEMMA ShipmentPagesAgree ==
  ASSUME CostsStand, NEW query, NEW only \in BOOLEAN
  PROVE  UNION {Range(ShipmentPage(query, only, k, 1)) : k \in 1..MaxLines}
           = {x.line : x \in ShipmentExport(query, only)}
<1> DEFINE S == {l \in LinesShown(query) : only => Discrepancies(l) # {}}
           row(l) == [line |-> l, operation |-> shipment[line[l].shipment].operation,
                      planned |-> line[l].planned, linked |-> ReceivedOf(l), codes |-> Discrepancies(l)]
<1>1. \A k : ShipmentPage(query, only, k, 1) = Rows(S, k, 1)
  <2>1. S = IF only THEN WithDiscrepancies(LinesShown(query)) ELSE LinesShown(query)
    BY DEF WithDiscrepancies
  <2> HIDE DEF S
  <2>. QED
    BY <2>1 DEF ShipmentPage
<1>2. ShowsAll(S, MaxLines)
  <2>1. S \in SUBSET (1..MaxLines)
    <3>1. DOMAIN line \subseteq 1..MaxLines
      BY TableTyped DEF CostsStand, CostRowsStand, CostShape
    <3>. QED
      BY <3>1 DEF LinesShown
  <2>2. MaxLines \in Nat /\ IsFiniteSet(1..MaxLines) /\ Cardinality(1..MaxLines) = MaxLines
    <3>1. MaxLines \in Nat
      BY ImportCostsAssumption
    <3>2. /\ IsFiniteSet(1..MaxLines)
          /\ Cardinality(1..MaxLines) = IF 1 > MaxLines THEN 0 ELSE MaxLines - 1 + 1
      BY <3>1, FS_Interval
    <3>. QED
      BY <3>1, <3>2
  <2> HIDE DEF S
  <2>3. IsFiniteSet(S) /\ Cardinality(S) <= MaxLines
    BY <2>1, <2>2, FS_Subset
  <2>. QED
    BY <2>2, <2>3, PagesShowAll
<1>3. ShipmentExport(query, only) = {row(l) : l \in S}
  BY DEF ShipmentExport
<1>4. \A l : row(l).line = l
  OBVIOUS
<1> HIDE DEF S, row
<1>5. {x.line : x \in ShipmentExport(query, only)} = S
  BY <1>3, <1>4
<1>6. UNION {Range(Rows(S, k, 1)) : k \in 1..MaxLines} = S
  BY <1>2, PagesTurned
<1>. QED
  BY <1>1, <1>5, <1>6

LEMMA RowsPerCurrency ==
  ASSUME NEW o, NEW aggregates
  PROVE  PerCurrency(o, aggregates) # {} /\ \A x \in PerCurrency(o, aggregates) : x.operation = o
<1> DEFINE row(c) == [operation |-> o, currency |-> c, total |-> aggregates[c].total,
                      allocated |-> aggregates[c].allocated, attributed |-> aggregates[c].attributed]
<1>1. CASE DOMAIN aggregates = {}
  BY <1>1 DEF PerCurrency
<1>2. CASE DOMAIN aggregates # {}
  <2>1. PerCurrency(o, aggregates) = {row(c) : c \in DOMAIN aggregates}
    BY <1>2 DEF PerCurrency
  <2>2. \A c : row(c).operation = o
    OBVIOUS
  <2> HIDE DEF row
  <2>. QED
    BY <1>2, <2>1, <2>2
<1>. QED
  BY <1>1, <1>2

LEMMA ReconciliationPagesAgree ==
  ASSUME NEW query, NEW status
  PROVE  UNION {ReconciliationPage(query, status, k, 1) : k \in 1..Cardinality(Operations)}
           = {x.row.operation : x \in ReconciliationExport(query, status)}
<1> DEFINE R == OperationsShown(query)
           n == Cardinality(Operations)
           S == ReconciliationRows(query, status)
           P(o) == PerCurrency(o, SummaryOf(o).expenses)
           full(o, row) == [row |-> row, status |-> Reconciliation(o), codes |-> Codes(CargoOf(o))]
<1>1. UNION {Range(Rows(R, k, 1)) : k \in 1..n} = R
  BY OperationsShownAre, PagesTurned
<1>2. \A k : ReconciliationPage(query, status, k, 1)
               = {o \in Range(Rows(R, k, 1)) : status \in {{}, {Reconciliation(o)}}}
  BY DEF ReconciliationPage
<1>3. S = {o \in R : status \in {{}, {Reconciliation(o)}}}
  BY DEF ReconciliationRows
<1>4. ReconciliationExport(query, status) = UNION {{full(o, row) : row \in P(o)} : o \in S}
  BY DEF ReconciliationExport
<1>5. \A o, row : full(o, row).row = row
  OBVIOUS
<1>6. \A o : P(o) # {} /\ \A row \in P(o) : row.operation = o
  BY RowsPerCurrency
<1> HIDE DEF R, n, S, P, full
<1>7. UNION {ReconciliationPage(query, status, k, 1) : k \in 1..n} = S
  <2>1. ASSUME NEW o
        PROVE  o \in UNION {ReconciliationPage(query, status, k, 1) : k \in 1..n} <=> o \in S
    <3>1. o \in UNION {ReconciliationPage(query, status, k, 1) : k \in 1..n}
            <=> \E k \in 1..n : o \in Range(Rows(R, k, 1)) /\ status \in {{}, {Reconciliation(o)}}
      BY <1>2
    <3>2. o \in R <=> \E k \in 1..n : o \in Range(Rows(R, k, 1))
      BY <1>1
    <3>. QED
      BY <1>3, <3>1, <3>2
  <2>. QED
    BY <2>1
<1>8. {x.row.operation : x \in ReconciliationExport(query, status)} = S
  <2>1. ASSUME NEW x \in ReconciliationExport(query, status) PROVE x.row.operation \in S
    <3>1. PICK o \in S : x \in {full(o, row) : row \in P(o)}
      BY <1>4
    <3>2. PICK row \in P(o) : x = full(o, row)
      BY <3>1
    <3>. QED
      BY <1>5, <1>6, <3>2
  <2>2. ASSUME NEW o \in S PROVE \E x \in ReconciliationExport(query, status) : x.row.operation = o
    <3>1. PICK row : row \in P(o)
      BY <1>6
    <3>2. full(o, row) \in ReconciliationExport(query, status)
      BY <1>4, <3>1
    <3>. QED
      BY <1>5, <1>6, <3>1, <3>2
  <2>. QED
    BY <2>1, <2>2
<1>. QED
  BY <1>7, <1>8 DEF n

-----------------------------------------------------------------------------

\* The reports on imports agree with each other and with the allocations that
\* they are about, in every state.
THEOREM ReportsOnImportsAgree == CostsSpec => []ReportsAgree
<1>1. ASSUME CostsStand, LinksHold(line, shipment) PROVE ReportsAgree
  <2>1. \A o \in Operations : \A c \in CurrenciesOf(o) : SummaryMatchesExpenses(o, c)
    BY <1>1, SummaryAndExpenses
  <2>2. \A e \in Expenses : \A a \in AllocationsOf(e) : PreviewMatchesReports(e, a)
    BY <1>1, PreviewAndReports
  <2>3. \A o \in OperationsShown(Query({}, {})) : ReceivedCarriesAll(o) /\ ExportsMatch(o)
    BY <1>1, OperationsShownAre, ReceivedCarries, ExportsAgree
  <2>4. ListsMatchExports
    <3> DEFINE all == Query({}, {})
    <3>1. UNION {Range(SummaryPage(all, k, 1)) : k \in 1..Cardinality(Operations)} = Range(SummaryRows(all))
      BY SummaryPagesAgree
    <3>2. UNION {Range(ExpensePage(all, k, 1)) : k \in 1..Cardinality(Expenses)} = Range(ExpenseExport(all))
      BY <1>1, ExpensePagesAgree
    <3>3. \A only \in BOOLEAN :
            UNION {Range(ShipmentPage(all, only, k, 1)) : k \in 1..MaxLines}
              = {x.line : x \in ShipmentExport(all, only)}
      BY <1>1, ShipmentPagesAgree
    <3>4. \A status :
            UNION {ReconciliationPage(all, status, k, 1) : k \in 1..Cardinality(Operations)}
              = {x.row.operation : x \in ReconciliationExport(all, status)}
      BY ReconciliationPagesAgree
    <3> HIDE DEF all
    <3>. QED
      BY <3>1, <3>2, <3>3, <3>4 DEF ListsMatchExports, all
  <2>. QED
    BY <2>1, <2>2, <2>3, <2>4 DEF ReportsAgree
<1>2. CostsStand /\ LinksHold(line, shipment) => ReportsAgree
  BY <1>1
<1>. QED
  BY <1>2, CostsAlwaysStand, LinksAlwaysHold, PTL
=============================================================================
