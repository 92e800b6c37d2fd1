--------------------------- MODULE AccountsPayable ---------------------------
(***************************************************************************)
(* AccountsPayableService: the reports on what PurchaseLedger has written. *)
(* Each one reads all it needs in one REPEATABLE READ transaction, so that *)
(* it sees one state; it keeps nothing.                                    *)
(*                                                                         *)
(* A filter on suppliers and dates of issue shows some set of invoices; a  *)
(* filter that is not given is the empty set.                              *)
(***************************************************************************)
EXTENDS PurchaseLedger, SequencesExt

CONSTANT DaysOverdue  \* the days since an invoice was due, in a set that is
                      \* empty when it has no due date

ASSUME AccountsPayableAssumption ==
  /\ DaysOverdue \in [Invoices -> SUBSET Int]
  /\ \A i \in Invoices : Cardinality(DaysOverdue[i]) <= 1
  /\ IsFiniteSet(Accounts)                        \* the rows of a table

BucketOf(due) ==
  CASE due = {}                    -> "NO_DUE_DATE"
    [] \E d \in due : d <= 0       -> "NOT_OVERDUE"
    [] \E d \in due : d \in 1..30  -> "OVERDUE_1_30"
    [] \E d \in due : d \in 31..60 -> "OVERDUE_31_60"
    [] \E d \in due : d \in 61..90 -> "OVERDUE_61_90"
    [] OTHER                       -> "OVERDUE_90_PLUS"

PayableStatus(paid, total) ==
  CASE paid <= 0     -> "UNPAID"
    [] paid >= total -> "PAID"
    [] OTHER         -> "PARTIALLY_PAID"

Queries == [shown : SUBSET Invoices, status : {{}, {"UNPAID"}, {"PARTIALLY_PAID"}, {"PAID"}}]

Sum(f(_), R) == SumFunction([x \in R |-> f(x)])

\* Mutated form: those of cancelled payments as well.
PaidEver(i) ==
  Sum(LAMBDA p : payments[p].allocation[i],
    {p \in Payments : payments[p] # NoPayment /\ i \in DOMAIN payments[p].allocation})

\* computePaidAmounts: the allocations of active payments
PaidAmount(i) == Paid(i)

BalanceDue(i) == invoices[i].total - PaidAmount(i)

\* computeRows: a payable is an invoice that is confirmed; its status is computed.
Payables(query) ==
  {i \in query.shown :
     /\ invoices[i].status = "CONFIRMED"
     /\ query.status \in {{}, {PayableStatus(PaidAmount(i), invoices[i].total)}}}

\* By date of issue and identifier, which no two invoices share.
InOrder(R) ==
  CHOOSE s \in SetToSeqs(R) : \A j, k \in DOMAIN s : j < k => s[j] < s[k]

\* list(): filtered by bucket in memory, and cut after that.
Page(R, buckets, page, limit) ==
  LET shown == InOrder({i \in R : buckets \in {{}, {BucketOf(DaysOverdue[i])}}})
  IN  SubSeq(shown, (page - 1) * limit + 1, Min({page * limit, Len(shown)}))

\* getDetail(): the history has the payments that were cancelled too.
History(i) == {p \in Payments : payments[p] # NoPayment /\ i \in DOMAIN payments[p].allocation}

\* getSummary(); all the invoices are of one supplier.
Summary(R) ==
  [original |-> Sum(LAMBDA i : invoices[i].total, R), paid |-> Sum(PaidAmount, R)]

\* getAging(): the buckets with something in them, and the total.
InBucket(R, b) == {i \in R : BucketOf(DaysOverdue[i]) = b}

Aging(R) ==
  [buckets |-> [b \in {BucketOf(DaysOverdue[i]) : i \in R} |->
                  [count |-> Cardinality(InBucket(R, b)), amount |-> Sum(BalanceDue, InBucket(R, b))]],
   total |-> Sum(BalanceDue, R)]

-----------------------------------------------------------------------------
(* getReconciliation(): what the allocations say against what was posted. *)

Credited(i) == {l \in lines : l.source = i /\ l.event = "ORIGINAL" /\ l.credit > 0}

\* The entry of an invoice is compared with its total when it has one credit.
EntryDisagrees(i) ==
  \/ Cardinality(Credited(i)) # 1
  \/ \E l \in Credited(i) : l.credit # invoices[i].total

\* The account of its one credit, whatever ACCOUNTS_PAYABLE is now.
HistoricalAccounts(i) ==
  IF Cardinality(Credited(i)) = 1 THEN {l.account : l \in Credited(i)} ELSE {}

PaidOn(R, a) == Sum(PaidAmount, {i \in R : a \in HistoricalAccounts(i)})

\* Net debit of every payment to the account, whichever invoices it is of.
NetDebit(a) == Sum(LAMBDA l : -l.credit, {l \in lines : l.source \in Payments /\ l.account = a})

Differences(R) ==
  [a \in UNION {HistoricalAccounts(i) : i \in R} |-> PaidOn(R, a) - NetDebit(a)]

Consistent(R) ==
  LET difference == Differences(R)
  IN  (\A i \in R : ~EntryDisagrees(i)) /\ (\A a \in DOMAIN difference : difference[a] = 0)

-----------------------------------------------------------------------------
(* Properties *)

Everything == [shown |-> Invoices, status |-> {}]

\* The reports on the invoices R, of all that are confirmed.
ReportAgrees(R, all) ==
  LET difference == Differences(R)
      buckets    == Aging(R).buckets
  IN  /\ \A i \in R : ~EntryDisagrees(i)
      /\ \A a \in DOMAIN difference : difference[a] = -PaidOn(all \ R, a)
      /\ Summary(R).original - Summary(R).paid = Sum(LAMBDA b : buckets[b].amount, DOMAIN buckets)
      /\ Cardinality(R) = Sum(LAMBDA b : buckets[b].count, DOMAIN buckets)
      /\ \A i \in R :
           invoices[i].total - BalanceDue(i)
             = Sum(LAMBDA p : payments[p].allocation[i], {p \in History(i) : payments[p].status = "ACTIVE"})
      /\ Range(Page(R, {}, 1, Cardinality(R))) = R
      /\ \A n \in 1..Cardinality(R) : Page(R, {}, 1, n) \o Page(R, {}, 2, n) = Page(R, {}, 1, 2 * n)

\* The reports agree with the ledger and with each other: what is pending is
\* what the accounts owe, without a filter nothing is reported to disagree, with
\* one the only differences are what the invoices left out have been paid; the
\* buckets and the history of each invoice add up to what the summary says, and
\* the pages of the list show each invoice once.
PayablesAgree ==
  LET all == Payables(Everything)
  IN  /\ LedgerMatchesInvoices
      /\ Consistent(all)
      /\ Aging(all).total = Sum(Balance, Accounts)
      /\ \A R \in {Payables(query) : query \in Queries} : ReportAgrees(R, all)
=============================================================================
