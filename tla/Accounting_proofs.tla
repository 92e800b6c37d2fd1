-------------------------- MODULE Accounting_proofs --------------------------
(***************************************************************************)
(* Proofs about JournalPeriods, for every number of sources, months,       *)
(* requests, postings per transaction and closings; and about              *)
(* ChartOfAccounts, for every chart, set of keys and seed.                 *)
(***************************************************************************)
EXTENDS JournalPeriods, ChartOfAccounts, RecursionTheorems

-----------------------------------------------------------------------------
(* The inductive invariant. *)

Finite ==
  /\ IsFiniteSet(entries)
  /\ \A r \in Requests : IsFiniteSet(pending[r])

\* An open transaction holds the row of the period and of the source of each
\* entry it has inserted, and the period has not been closed.
Holding ==
  \A r \in Requests : \A e \in pending[r] :
    /\ periodLock[e.month] = r
    /\ sourceLock[e.source] = r
    /\ status[e.month] # "CLOSED"

\* What a request has done by the place where it stands; in particular, what it
\* has checked of its source stays true.
Placed ==
  \A r \in Requests :
    /\ pc[r] \notin Posting => pending[r] = {}
    /\ pc[r] \in Posting => reqSource[r] \in Sources /\ sourceLock[reqSource[r]] = r
    /\ pc[r] \in {"find", "insert", "number"} => EntryAllowed(r)
    /\ pc[r] \in {"closed", "reopened"} => periodLock[reqMonth[r]] = r

\* The entries that a transaction has inserted in a month have the numbers that
\* follow the committed counter.
Numbered ==
  \A r \in Requests, m \in Months :
    {e.number : e \in In(m, pending[r])}
      = (lastNumber[m] + 1) .. (lastNumber[m] + Cardinality(In(m, pending[r])))

\* Every reversal that a transaction has inserted has its original.
Grounded ==
  \A r \in Requests : \A e \in pending[r] :
    e.event = "REVERSAL" => Posted(e.source, "ORIGINAL", entries \cup pending[r])

IInv ==
  /\ TypeOK
  /\ Finite
  /\ Holding
  /\ Placed
  /\ Numbered
  /\ Grounded
  /\ GapFreeJournal
  /\ ReversedAtMostOnce

-----------------------------------------------------------------------------
(* Facts about numbers and sets *)

LEMMA FirstMonth == 1 \in Months
BY JournalAssumption DEF Months

LEMMA EmptyInterval == ASSUME NEW n \in Nat PROVE (n + 1) .. (n + 0) = {}
OBVIOUS

LEMMA LongerInterval ==
  ASSUME NEW m \in Nat, NEW n \in Nat
  PROVE  /\ ((m + 1) .. (m + n)) \cup {m + n + 1} = (m + 1) .. (m + (n + 1))
         /\ m + n + 1 \notin (m + 1) .. (m + n)
OBVIOUS

LEMMA JoinedInterval ==
  ASSUME NEW m \in Nat, NEW n \in Nat
  PROVE  /\ (1 .. m) \cup ((m + 1) .. (m + n)) = 1 .. (m + n)
         /\ (1 .. m) \cap ((m + 1) .. (m + n)) = {}
OBVIOUS

\* The entries of a month in a finite set of entries are finitely many.
LEMMA FiniteMonth ==
  ASSUME NEW S, IsFiniteSet(S), NEW m
  PROVE  IsFiniteSet(In(m, S)) /\ Cardinality(In(m, S)) \in Nat
<1>1. In(m, S) \subseteq S
  BY DEF In
<1>. QED
  BY <1>1, FS_Subset, FS_CardinalityType

\* The numbers of a union
LEMMA NumbersOfUnion ==
  ASSUME NEW S, NEW T
  PROVE  {e.number : e \in S \cup T} = {e.number : e \in S} \cup {e.number : e \in T}
OBVIOUS

\* Sets of entries with different numbers share no entry.
LEMMA ApartByNumber ==
  ASSUME NEW S, NEW T, {e.number : e \in S} \cap {e.number : e \in T} = {}
  PROVE  S \cap T = {}
<1> SUFFICES ASSUME NEW x, x \in S, x \in T PROVE FALSE
  OBVIOUS
<1>1. x.number \in {e.number : e \in S} /\ x.number \in {e.number : e \in T}
  OBVIOUS
<1>. QED
  BY <1>1

\* A union of entries, month by month
LEMMA MonthOfUnion ==
  ASSUME NEW S, NEW T, NEW m
  PROVE  In(m, S \cup T) = In(m, S) \cup In(m, T)
BY DEF In

\* Postings of a union
LEMMA PostedUnion ==
  ASSUME NEW S, NEW T, NEW s, NEW v
  PROVE  Posted(s, v, S \cup T) <=> Posted(s, v, S) \/ Posted(s, v, T)
BY DEF Posted

-----------------------------------------------------------------------------
(* Each part is preserved by every step. *)

\* Every step keeps every variable in its type.
LEMMA TypeStep ==
  ASSUME TypeOK, Finite, Placed
  PROVE  [Next]_vars => TypeOK'
<1> USE JournalAssumption
    DEF TypeOK, Finite, Placed, Places, Posting, PeriodStatus, Event, Goto,
        vars, periodVars, posting
<1>1. ASSUME NextMonth
      PROVE  TypeOK'
  BY <1>1 DEF NextMonth, Months
<1>2. ASSUME NEW r \in Requests, NEW s \in Sources, NEW event \in Event, NEW m \in Months, BeginPosting(r, s, event, m)
      PROVE  TypeOK'
  BY <1>2 DEF BeginPosting, LockSource
<1>3. ASSUME NEW r \in Requests, CheckEntry(r)
      PROVE  TypeOK'
  BY <1>3 DEF CheckEntry
<1>4. ASSUME NEW r \in Requests, FindPeriod(r)
      PROVE  TypeOK'
  BY <1>4 DEF FindPeriod
<1>5. ASSUME NEW r \in Requests, InsertPeriod(r)
      PROVE  TypeOK'
  BY <1>5 DEF InsertPeriod
<1>6. ASSUME NEW r \in Requests, TakeNumber(r)
      PROVE  TypeOK'
  <2>1. NextNumber(r) \in Nat \ {0}
    BY FiniteMonth DEF NextNumber
  <2>2. reqSource[r] \in Sources
    BY <1>6 DEF TakeNumber
  <2>. QED
    BY <1>6, <2>1, <2>2 DEF TakeNumber, InsertEntry, Entry
<1>7. ASSUME NEW r \in Requests, CommitPostings(r)
      PROVE  TypeOK'
  <2>1. \A m \in Months : lastNumber[m] + Cardinality(In(m, pending[r])) \in Nat
    BY FiniteMonth
  <2>. QED
    BY <1>7, <2>1, FirstMonth DEF CommitPostings, EndTransaction, ReleaseLocks
<1>8. ASSUME NEW r \in Requests, NEW m \in Months, BeginCreate(r, m)
      PROVE  TypeOK'
  BY <1>8 DEF BeginCreate
<1>9. ASSUME NEW r \in Requests, NEW m \in Months, BeginClose(r, m)
      PROVE  TypeOK'
  BY <1>9 DEF BeginClose, ReadStatus
<1>10. ASSUME NEW r \in Requests, NEW m \in Months, BeginReopen(r, m)
      PROVE  TypeOK'
  BY <1>10 DEF BeginReopen, ReadStatus
<1>11. ASSUME NEW r \in Requests, CommitCreate(r)
      PROVE  TypeOK'
  BY <1>11, FirstMonth DEF CommitCreate, EndTransaction, ReleaseLocks
<1>12. ASSUME NEW r \in Requests, UpdatePeriod(r, "closing", "closed")
      PROVE  TypeOK'
  BY <1>12 DEF UpdatePeriod
<1>13. ASSUME NEW r \in Requests, CommitClose(r)
      PROVE  TypeOK'
  BY <1>13, FirstMonth DEF CommitClose, EndTransaction, ReleaseLocks
<1>14. ASSUME NEW r \in Requests, UpdatePeriod(r, "reopening", "reopened")
      PROVE  TypeOK'
  BY <1>14 DEF UpdatePeriod
<1>15. ASSUME NEW r \in Requests, CommitReopen(r)
      PROVE  TypeOK'
  BY <1>15, FirstMonth DEF CommitReopen, EndTransaction, ReleaseLocks
<1>16. ASSUME NEW r \in Requests, RollBack(r)
      PROVE  TypeOK'
  BY <1>16, FirstMonth DEF RollBack, EndTransaction, ReleaseLocks
<1>17. CASE UNCHANGED vars
  BY <1>17
<1>. QED
  BY <1>1, <1>2, <1>3, <1>4, <1>5, <1>6, <1>7, <1>8, <1>9,
     <1>10, <1>11, <1>12, <1>13, <1>14, <1>15, <1>16, <1>17
     DEF Next

\* Entries stay finitely many.
LEMMA FiniteStep ==
  ASSUME TypeOK, Finite
  PROVE  [Next]_vars => Finite'
<1> USE JournalAssumption
    DEF TypeOK, Finite, Goto,
        vars, periodVars, posting
<1>1. ASSUME NextMonth
      PROVE  Finite'
  BY <1>1 DEF NextMonth
<1>2. ASSUME NEW r \in Requests, NEW s \in Sources, NEW event \in Event, NEW m \in Months, BeginPosting(r, s, event, m)
      PROVE  Finite'
  BY <1>2 DEF BeginPosting, LockSource
<1>3. ASSUME NEW r \in Requests, CheckEntry(r)
      PROVE  Finite'
  BY <1>3 DEF CheckEntry
<1>4. ASSUME NEW r \in Requests, FindPeriod(r)
      PROVE  Finite'
  BY <1>4 DEF FindPeriod
<1>5. ASSUME NEW r \in Requests, InsertPeriod(r)
      PROVE  Finite'
  BY <1>5 DEF InsertPeriod
<1>6. ASSUME NEW r \in Requests, TakeNumber(r)
      PROVE  Finite'
  BY <1>6, FS_AddElement DEF TakeNumber, InsertEntry
<1>7. ASSUME NEW r \in Requests, CommitPostings(r)
      PROVE  Finite'
  BY <1>7, FS_Union, FS_EmptySet DEF CommitPostings, EndTransaction, ReleaseLocks
<1>8. ASSUME NEW r \in Requests, NEW m \in Months, BeginCreate(r, m)
      PROVE  Finite'
  BY <1>8 DEF BeginCreate
<1>9. ASSUME NEW r \in Requests, NEW m \in Months, BeginClose(r, m)
      PROVE  Finite'
  BY <1>9 DEF BeginClose, ReadStatus
<1>10. ASSUME NEW r \in Requests, NEW m \in Months, BeginReopen(r, m)
      PROVE  Finite'
  BY <1>10 DEF BeginReopen, ReadStatus
<1>11. ASSUME NEW r \in Requests, CommitCreate(r)
      PROVE  Finite'
  BY <1>11, FS_EmptySet DEF CommitCreate, EndTransaction, ReleaseLocks
<1>12. ASSUME NEW r \in Requests, UpdatePeriod(r, "closing", "closed")
      PROVE  Finite'
  BY <1>12 DEF UpdatePeriod
<1>13. ASSUME NEW r \in Requests, CommitClose(r)
      PROVE  Finite'
  BY <1>13, FS_EmptySet DEF CommitClose, EndTransaction, ReleaseLocks
<1>14. ASSUME NEW r \in Requests, UpdatePeriod(r, "reopening", "reopened")
      PROVE  Finite'
  BY <1>14 DEF UpdatePeriod
<1>15. ASSUME NEW r \in Requests, CommitReopen(r)
      PROVE  Finite'
  BY <1>15, FS_EmptySet DEF CommitReopen, EndTransaction, ReleaseLocks
<1>16. ASSUME NEW r \in Requests, RollBack(r)
      PROVE  Finite'
  BY <1>16, FS_EmptySet DEF RollBack, EndTransaction, ReleaseLocks
<1>17. CASE UNCHANGED vars
  BY <1>17
<1>. QED
  BY <1>1, <1>2, <1>3, <1>4, <1>5, <1>6, <1>7, <1>8, <1>9,
     <1>10, <1>11, <1>12, <1>13, <1>14, <1>15, <1>16, <1>17
     DEF Next

\* No other request takes a row that a transaction holds, or closes its period.
LEMMA HoldingStep ==
  ASSUME TypeOK, Holding, Placed
  PROVE  [Next]_vars => Holding'
<1> USE JournalAssumption
    DEF TypeOK, Holding, Placed, Posting, Entry, Goto,
        vars, periodVars, posting
<1>1. ASSUME NextMonth
      PROVE  Holding'
  BY <1>1 DEF NextMonth
<1>2. ASSUME NEW r \in Requests, NEW s \in Sources, NEW event \in Event, NEW m \in Months, BeginPosting(r, s, event, m)
      PROVE  Holding'
  BY <1>2 DEF BeginPosting, LockSource
<1>3. ASSUME NEW r \in Requests, CheckEntry(r)
      PROVE  Holding'
  BY <1>3 DEF CheckEntry
<1>4. ASSUME NEW r \in Requests, FindPeriod(r)
      PROVE  Holding'
  BY <1>4 DEF FindPeriod
<1>5. ASSUME NEW r \in Requests, InsertPeriod(r)
      PROVE  Holding'
  BY <1>5 DEF InsertPeriod
<1>6. ASSUME NEW r \in Requests, TakeNumber(r)
      PROVE  Holding'
  <2>1. reqSource[r] \in Sources /\ sourceLock[reqSource[r]] = r /\ reqMonth[r] \in Months
    BY <1>6 DEF TakeNumber
  <2>2. periodLock'[reqMonth[r]] = r /\ status[reqMonth[r]] # "CLOSED"
    BY <1>6, <2>1 DEF TakeNumber
  <2>3. \A q \in Requests : \A e \in pending[q] :
          periodLock'[e.month] = q /\ sourceLock'[e.source] = q /\ status'[e.month] # "CLOSED"
    BY <1>6 DEF TakeNumber, InsertEntry, Entry
  <2>4. \A q \in Requests : \A e \in pending'[q] :
          e \in pending[q] \/ (q = r /\ e.month = reqMonth[r] /\ e.source = reqSource[r])
    BY <1>6 DEF TakeNumber, InsertEntry
  <2>. QED
    BY <1>6, <2>1, <2>2, <2>3, <2>4 DEF TakeNumber, InsertEntry
<1>7. ASSUME NEW r \in Requests, CommitPostings(r)
      PROVE  Holding'
  BY <1>7 DEF CommitPostings, EndTransaction, ReleaseLocks
<1>8. ASSUME NEW r \in Requests, NEW m \in Months, BeginCreate(r, m)
      PROVE  Holding'
  BY <1>8 DEF BeginCreate
<1>9. ASSUME NEW r \in Requests, NEW m \in Months, BeginClose(r, m)
      PROVE  Holding'
  BY <1>9 DEF BeginClose, ReadStatus
<1>10. ASSUME NEW r \in Requests, NEW m \in Months, BeginReopen(r, m)
      PROVE  Holding'
  BY <1>10 DEF BeginReopen, ReadStatus
<1>11. ASSUME NEW r \in Requests, CommitCreate(r)
      PROVE  Holding'
  BY <1>11 DEF CommitCreate, EndTransaction, ReleaseLocks
<1>12. ASSUME NEW r \in Requests, UpdatePeriod(r, "closing", "closed")
      PROVE  Holding'
  BY <1>12 DEF UpdatePeriod
<1>13. ASSUME NEW r \in Requests, CommitClose(r)
      PROVE  Holding'
  BY <1>13 DEF CommitClose, EndTransaction, ReleaseLocks
<1>14. ASSUME NEW r \in Requests, UpdatePeriod(r, "reopening", "reopened")
      PROVE  Holding'
  BY <1>14 DEF UpdatePeriod
<1>15. ASSUME NEW r \in Requests, CommitReopen(r)
      PROVE  Holding'
  BY <1>15 DEF CommitReopen, EndTransaction, ReleaseLocks
<1>16. ASSUME NEW r \in Requests, RollBack(r)
      PROVE  Holding'
  BY <1>16 DEF RollBack, EndTransaction, ReleaseLocks
<1>17. CASE UNCHANGED vars
  BY <1>17
<1>. QED
  BY <1>1, <1>2, <1>3, <1>4, <1>5, <1>6, <1>7, <1>8, <1>9,
     <1>10, <1>11, <1>12, <1>13, <1>14, <1>15, <1>16, <1>17
     DEF Next

\* What a request has checked behind its locks stays true.
LEMMA PlacedStep ==
  ASSUME TypeOK, Holding, Placed
  PROVE  [Next]_vars => Placed'
<1> USE JournalAssumption
    DEF TypeOK, Holding, Placed, Posting, Places, Goto,
        vars, periodVars, posting
<1>1. ASSUME NextMonth
      PROVE  Placed'
  <2>1. \A q \in Requests : pc'[q] \in {"find", "insert", "number"} /\ EntryAllowed(q) => EntryAllowed(q)'
    BY <1>1 DEF NextMonth, EntryAllowed
  <2>. QED
    BY <1>1, <2>1 DEF NextMonth
<1>2. ASSUME NEW r \in Requests, NEW s \in Sources, NEW event \in Event, NEW m \in Months, BeginPosting(r, s, event, m)
      PROVE  Placed'
  <2>1. \A q \in Requests : pc'[q] \in {"find", "insert", "number"} /\ EntryAllowed(q) => EntryAllowed(q)'
    BY <1>2 DEF BeginPosting, LockSource, EntryAllowed
  <2>. QED
    BY <1>2, <2>1 DEF BeginPosting, LockSource
<1>3. ASSUME NEW r \in Requests, CheckEntry(r)
      PROVE  Placed'
  <2>1. \A q \in Requests : EntryAllowed(q) => EntryAllowed(q)'
    BY <1>3 DEF CheckEntry, EntryAllowed
  <2>2. EntryAllowed(r)
    BY <1>3 DEF CheckEntry
  <2>. QED
    BY <1>3, <2>1, <2>2 DEF CheckEntry
<1>4. ASSUME NEW r \in Requests, FindPeriod(r)
      PROVE  Placed'
  <2>1. \A q \in Requests : pc'[q] \in {"find", "insert", "number"} /\ EntryAllowed(q) => EntryAllowed(q)'
    BY <1>4 DEF FindPeriod, EntryAllowed
  <2>. QED
    BY <1>4, <2>1 DEF FindPeriod
<1>5. ASSUME NEW r \in Requests, InsertPeriod(r)
      PROVE  Placed'
  <2>1. \A q \in Requests : pc'[q] \in {"find", "insert", "number"} /\ EntryAllowed(q) => EntryAllowed(q)'
    BY <1>5 DEF InsertPeriod, EntryAllowed
  <2>. QED
    BY <1>5, <2>1 DEF InsertPeriod
<1>6. ASSUME NEW r \in Requests, TakeNumber(r)
      PROVE  Placed'
  <2>1. \A q \in Requests : pc'[q] \in {"find", "insert", "number"} /\ EntryAllowed(q) => EntryAllowed(q)'
    BY <1>6 DEF TakeNumber, InsertEntry, EntryAllowed
  <2>. QED
    BY <1>6, <2>1 DEF TakeNumber, InsertEntry
<1>7. ASSUME NEW r \in Requests, CommitPostings(r)
      PROVE  Placed'
  <2>1. ASSUME NEW q \in Requests, q # r, pc[q] \in {"find", "insert", "number"}
        PROVE  EntryAllowed(q)'
    <3>1. reqSource[q] \in Sources /\ sourceLock[reqSource[q]] = q
      BY <2>1
    <3>2. \A e \in pending[r] : e.source # reqSource[q]
      BY <2>1, <3>1
    <3>3. EntryAllowed(q)
      BY <2>1
    <3>. QED
      BY <1>7, <2>1, <3>2, <3>3
      DEF CommitPostings, EndTransaction, ReleaseLocks, EntryAllowed, Posted
  <2>2. pc' = [pc EXCEPT ![r] = "idle"] /\ pending' = [pending EXCEPT ![r] = {}]
    BY <1>7 DEF CommitPostings, EndTransaction
  <2>3. \A q \in Requests : q # r =>
          reqSource'[q] = reqSource[q] /\ reqMonth'[q] = reqMonth[q]
    BY <1>7 DEF CommitPostings, EndTransaction
  <2>4. /\ \A s \in Sources, q \in Requests : q # r /\ sourceLock[s] = q => sourceLock'[s] = q
        /\ \A m \in Months, q \in Requests : q # r /\ periodLock[m] = q => periodLock'[m] = q
    BY <1>7 DEF CommitPostings, EndTransaction, ReleaseLocks
  <2>. QED
    BY <2>1, <2>2, <2>3, <2>4
<1>8. ASSUME NEW r \in Requests, NEW m \in Months, BeginCreate(r, m)
      PROVE  Placed'
  <2>1. \A q \in Requests : pc'[q] \in {"find", "insert", "number"} /\ EntryAllowed(q) => EntryAllowed(q)'
    BY <1>8 DEF BeginCreate, EntryAllowed
  <2>. QED
    BY <1>8, <2>1 DEF BeginCreate
<1>9. ASSUME NEW r \in Requests, NEW m \in Months, BeginClose(r, m)
      PROVE  Placed'
  <2>1. \A q \in Requests : pc'[q] \in {"find", "insert", "number"} /\ EntryAllowed(q) => EntryAllowed(q)'
    BY <1>9 DEF BeginClose, ReadStatus, EntryAllowed
  <2>. QED
    BY <1>9, <2>1 DEF BeginClose, ReadStatus
<1>10. ASSUME NEW r \in Requests, NEW m \in Months, BeginReopen(r, m)
      PROVE  Placed'
  <2>1. \A q \in Requests : pc'[q] \in {"find", "insert", "number"} /\ EntryAllowed(q) => EntryAllowed(q)'
    BY <1>10 DEF BeginReopen, ReadStatus, EntryAllowed
  <2>. QED
    BY <1>10, <2>1 DEF BeginReopen, ReadStatus
<1>11. ASSUME NEW r \in Requests, CommitCreate(r)
      PROVE  Placed'
  <2>1. \A q \in Requests : pc'[q] \in {"find", "insert", "number"} /\ EntryAllowed(q) => EntryAllowed(q)'
    BY <1>11 DEF CommitCreate, EndTransaction, ReleaseLocks, EntryAllowed
  <2>. QED
    BY <1>11, <2>1 DEF CommitCreate, EndTransaction, ReleaseLocks
<1>12. ASSUME NEW r \in Requests, UpdatePeriod(r, "closing", "closed")
      PROVE  Placed'
  <2>1. \A q \in Requests : pc'[q] \in {"find", "insert", "number"} /\ EntryAllowed(q) => EntryAllowed(q)'
    BY <1>12 DEF UpdatePeriod, EntryAllowed
  <2>. QED
    BY <1>12, <2>1 DEF UpdatePeriod
<1>13. ASSUME NEW r \in Requests, CommitClose(r)
      PROVE  Placed'
  <2>1. \A q \in Requests : pc'[q] \in {"find", "insert", "number"} /\ EntryAllowed(q) => EntryAllowed(q)'
    BY <1>13 DEF CommitClose, EndTransaction, ReleaseLocks, EntryAllowed
  <2>. QED
    BY <1>13, <2>1 DEF CommitClose, EndTransaction, ReleaseLocks
<1>14. ASSUME NEW r \in Requests, UpdatePeriod(r, "reopening", "reopened")
      PROVE  Placed'
  <2>1. \A q \in Requests : pc'[q] \in {"find", "insert", "number"} /\ EntryAllowed(q) => EntryAllowed(q)'
    BY <1>14 DEF UpdatePeriod, EntryAllowed
  <2>. QED
    BY <1>14, <2>1 DEF UpdatePeriod
<1>15. ASSUME NEW r \in Requests, CommitReopen(r)
      PROVE  Placed'
  <2>1. \A q \in Requests : pc'[q] \in {"find", "insert", "number"} /\ EntryAllowed(q) => EntryAllowed(q)'
    BY <1>15 DEF CommitReopen, EndTransaction, ReleaseLocks, EntryAllowed
  <2>. QED
    BY <1>15, <2>1 DEF CommitReopen, EndTransaction, ReleaseLocks
<1>16. ASSUME NEW r \in Requests, RollBack(r)
      PROVE  Placed'
  <2>1. \A q \in Requests : pc'[q] \in {"find", "insert", "number"} /\ EntryAllowed(q) => EntryAllowed(q)'
    BY <1>16 DEF RollBack, EndTransaction, ReleaseLocks, EntryAllowed
  <2>. QED
    BY <1>16, <2>1 DEF RollBack, EndTransaction, ReleaseLocks
<1>17. CASE UNCHANGED vars
  BY <1>17 DEF EntryAllowed
<1>. QED
  BY <1>1, <1>2, <1>3, <1>4, <1>5, <1>6, <1>7, <1>8, <1>9,
     <1>10, <1>11, <1>12, <1>13, <1>14, <1>15, <1>16, <1>17
     DEF Next

\* A transaction that ends has inserted nothing any more.
LEMMA NothingPending ==
  ASSUME TypeOK, Numbered, NEW r \in Requests,
         pending' = [pending EXCEPT ![r] = {}], lastNumber' = lastNumber
  PROVE  Numbered'
<1>1. ASSUME NEW m \in Months
      PROVE  {e.number : e \in In(m, {})}
               = (lastNumber[m] + 1) .. (lastNumber[m] + Cardinality(In(m, {})))
  <2>1. In(m, {}) = {}
    BY DEF In
  <2>2. Cardinality(In(m, {})) = 0
    BY <2>1, FS_EmptySet
  <2>3. lastNumber[m] \in Nat
    BY DEF TypeOK
  <2>. QED
    BY <2>1, <2>2, <2>3, EmptyInterval
<1>. QED
  BY <1>1 DEF TypeOK, Numbered

\* Two transactions never number entries of the same month.
LEMMA NumberedStep ==
  ASSUME TypeOK, Finite, Holding, Numbered
  PROVE  [Next]_vars => Numbered'
<1> USE JournalAssumption
    DEF TypeOK, Finite, Holding, Numbered, Goto,
        vars, periodVars, posting
<1>1. ASSUME NextMonth
      PROVE  Numbered'
  BY <1>1 DEF NextMonth
<1>2. ASSUME NEW r \in Requests, NEW s \in Sources, NEW event \in Event, NEW m \in Months, BeginPosting(r, s, event, m)
      PROVE  Numbered'
  BY <1>2 DEF BeginPosting, LockSource
<1>3. ASSUME NEW r \in Requests, CheckEntry(r)
      PROVE  Numbered'
  BY <1>3 DEF CheckEntry
<1>4. ASSUME NEW r \in Requests, FindPeriod(r)
      PROVE  Numbered'
  BY <1>4 DEF FindPeriod
<1>5. ASSUME NEW r \in Requests, InsertPeriod(r)
      PROVE  Numbered'
  BY <1>5 DEF InsertPeriod
<1>6. ASSUME NEW r \in Requests, TakeNumber(r)
      PROVE  Numbered'
  <2> DEFINE m == reqMonth[r]
             n == Cardinality(In(m, pending[r]))
             e == [source |-> reqSource[r], event |-> reqEvent[r], month |-> m,
                   number |-> NextNumber(r)]
  <2>1. /\ pending' = [pending EXCEPT ![r] = pending[r] \cup {e}]
        /\ lastNumber' = lastNumber
    BY <1>6 DEF TakeNumber, InsertEntry
  <2>2. /\ m \in Months /\ lastNumber[m] \in Nat
        /\ IsFiniteSet(In(m, pending[r])) /\ n \in Nat
    BY FiniteMonth
  <2>3. e.number = lastNumber[m] + n + 1 /\ e.month = m
    BY DEF NextNumber
  <2>4. {x.number : x \in In(m, pending[r])} = (lastNumber[m] + 1) .. (lastNumber[m] + n)
    OBVIOUS
  <2>5. e \notin In(m, pending[r])
    <3>1. e.number \notin {x.number : x \in In(m, pending[r])}
      BY <2>2, <2>3, <2>4, LongerInterval
    <3>. QED
      BY <3>1
  <2>6. In(m, pending[r] \cup {e}) = In(m, pending[r]) \cup {e}
    BY <2>3 DEF In
  <2>7. Cardinality(In(m, pending[r] \cup {e})) = n + 1
    BY <2>2, <2>5, <2>6, FS_AddElement
  <2>8. {x.number : x \in In(m, pending[r] \cup {e})}
          = (lastNumber[m] + 1) .. (lastNumber[m] + (n + 1))
    <3> HIDE DEF m, n, e
    <3>1. {x.number : x \in In(m, pending[r]) \cup {e}}
            = {x.number : x \in In(m, pending[r])} \cup {x.number : x \in {e}}
      BY NumbersOfUnion
    <3>2. {x.number : x \in {e}} = {lastNumber[m] + n + 1}
      BY <2>3
    <3>. QED
      BY <2>2, <2>4, <2>6, <3>1, <3>2, LongerInterval
  <2>9. \A k \in Months : k # m => In(k, pending[r] \cup {e}) = In(k, pending[r])
    BY <2>3 DEF In
  <2>. HIDE DEF m, n, e
  <2>10. \A k \in Months :
           {x.number : x \in In(k, pending'[r])}
             = (lastNumber'[k] + 1) .. (lastNumber'[k] + Cardinality(In(k, pending'[r])))
    <3>1. pending'[r] = pending[r] \cup {e}
      BY <2>1
    <3> SUFFICES ASSUME NEW k \in Months
                 PROVE  {x.number : x \in In(k, pending[r] \cup {e})}
                          = (lastNumber[k] + 1) ..
                            (lastNumber[k] + Cardinality(In(k, pending[r] \cup {e})))
      BY <2>1, <3>1
    <3>2. CASE k = m
      BY <3>2, <2>7, <2>8
    <3>3. CASE k # m
      BY <3>3, <2>9
    <3>. QED
      BY <3>2, <3>3
  <2>. QED
    BY <2>1, <2>10
<1>7. ASSUME NEW r \in Requests, CommitPostings(r)
      PROVE  Numbered'
  <2>1. \A q \in Requests : pending'[q] = IF q = r THEN {} ELSE pending[q]
    BY <1>7 DEF CommitPostings, EndTransaction
  <2>2. \A m \in Months : lastNumber'[m] = lastNumber[m] + Cardinality(In(m, pending[r]))
    BY <1>7 DEF CommitPostings
  <2>3. ASSUME NEW q \in Requests, NEW m \in Months
        PROVE  {e.number : e \in In(m, pending'[q])}
                 = (lastNumber'[m] + 1) .. (lastNumber'[m] + Cardinality(In(m, pending'[q])))
    <3>1. CASE In(m, pending'[q]) = {}
      <4>1. lastNumber'[m] \in Nat
        BY <2>2, FiniteMonth
      <4>2. {e.number : e \in In(m, pending'[q])} = {}
        BY <3>1
      <4>3. Cardinality(In(m, pending'[q])) = 0
        BY <3>1, FS_EmptySet
      <4>. QED
        BY <4>1, <4>2, <4>3, EmptyInterval
    <3>2. CASE In(m, pending'[q]) # {}
      <4>1. q # r /\ pending'[q] = pending[q]
        BY <3>2, <2>1 DEF In
      <4>2. periodLock[m] = q
        BY <3>2, <4>1 DEF In
      <4>3. In(m, pending[r]) = {}
        BY <4>1, <4>2 DEF In
      <4>4. lastNumber'[m] = lastNumber[m]
        <5>1. Cardinality(In(m, pending[r])) = 0
          BY <4>3, FS_EmptySet
        <5>2. lastNumber[m] \in Nat
          OBVIOUS
        <5>. QED
          BY <2>2, <5>1, <5>2
      <4>. QED
        BY <4>1, <4>4
    <3>. QED
      BY <3>1, <3>2
  <2>. QED
    BY <2>3
<1>8. ASSUME NEW r \in Requests, NEW m \in Months, BeginCreate(r, m)
      PROVE  Numbered'
  BY <1>8 DEF BeginCreate
<1>9. ASSUME NEW r \in Requests, NEW m \in Months, BeginClose(r, m)
      PROVE  Numbered'
  BY <1>9 DEF BeginClose, ReadStatus
<1>10. ASSUME NEW r \in Requests, NEW m \in Months, BeginReopen(r, m)
      PROVE  Numbered'
  BY <1>10 DEF BeginReopen, ReadStatus
<1>11. ASSUME NEW r \in Requests, CommitCreate(r)
      PROVE  Numbered'
  <2>1. pending' = [pending EXCEPT ![r] = {}] /\ lastNumber' = lastNumber
    BY <1>11 DEF CommitCreate, EndTransaction, periodVars
  <2>. QED
    BY <2>1, NothingPending
<1>12. ASSUME NEW r \in Requests, UpdatePeriod(r, "closing", "closed")
      PROVE  Numbered'
  BY <1>12 DEF UpdatePeriod
<1>13. ASSUME NEW r \in Requests, CommitClose(r)
      PROVE  Numbered'
  <2>1. pending' = [pending EXCEPT ![r] = {}] /\ lastNumber' = lastNumber
    BY <1>13 DEF CommitClose, EndTransaction, periodVars
  <2>. QED
    BY <2>1, NothingPending
<1>14. ASSUME NEW r \in Requests, UpdatePeriod(r, "reopening", "reopened")
      PROVE  Numbered'
  BY <1>14 DEF UpdatePeriod
<1>15. ASSUME NEW r \in Requests, CommitReopen(r)
      PROVE  Numbered'
  <2>1. pending' = [pending EXCEPT ![r] = {}] /\ lastNumber' = lastNumber
    BY <1>15 DEF CommitReopen, EndTransaction, periodVars
  <2>. QED
    BY <2>1, NothingPending
<1>16. ASSUME NEW r \in Requests, RollBack(r)
      PROVE  Numbered'
  <2>1. pending' = [pending EXCEPT ![r] = {}] /\ lastNumber' = lastNumber
    BY <1>16 DEF RollBack, EndTransaction, periodVars
  <2>. QED
    BY <2>1, NothingPending
<1>17. CASE UNCHANGED vars
  BY <1>17
<1>. QED
  BY <1>1, <1>2, <1>3, <1>4, <1>5, <1>6, <1>7, <1>8, <1>9,
     <1>10, <1>11, <1>12, <1>13, <1>14, <1>15, <1>16, <1>17
     DEF Next

\* Numbers become visible together with the counter.
LEMMA GapFreeStep ==
  ASSUME TypeOK, Finite, Numbered, GapFreeJournal
  PROVE  [Next]_vars => GapFreeJournal'
<1> USE JournalAssumption
    DEF TypeOK, Finite, Numbered, GapFreeJournal, Goto,
        vars, periodVars, posting
<1>1. ASSUME NextMonth
      PROVE  GapFreeJournal'
  BY <1>1 DEF NextMonth
<1>2. ASSUME NEW r \in Requests, NEW s \in Sources, NEW event \in Event, NEW m \in Months, BeginPosting(r, s, event, m)
      PROVE  GapFreeJournal'
  BY <1>2 DEF BeginPosting, LockSource
<1>3. ASSUME NEW r \in Requests, CheckEntry(r)
      PROVE  GapFreeJournal'
  BY <1>3 DEF CheckEntry
<1>4. ASSUME NEW r \in Requests, FindPeriod(r)
      PROVE  GapFreeJournal'
  BY <1>4 DEF FindPeriod
<1>5. ASSUME NEW r \in Requests, InsertPeriod(r)
      PROVE  GapFreeJournal'
  BY <1>5 DEF InsertPeriod
<1>6. ASSUME NEW r \in Requests, TakeNumber(r)
      PROVE  GapFreeJournal'
  BY <1>6 DEF TakeNumber, InsertEntry
<1>7. ASSUME NEW r \in Requests, CommitPostings(r)
      PROVE  GapFreeJournal'
  <2> SUFFICES ASSUME NEW m \in Months
               PROVE  /\ {e.number : e \in In(m, entries')} = 1 .. lastNumber'[m]
                      /\ Cardinality(In(m, entries')) = lastNumber'[m]
    OBVIOUS
  <2> DEFINE old == In(m, entries)
             new == In(m, pending[r])
  <2>1. lastNumber'[m] = lastNumber[m] + Cardinality(new)
    BY <1>7 DEF CommitPostings
  <2>2. In(m, entries') = old \cup new
    BY <1>7, MonthOfUnion DEF CommitPostings
  <2>3. /\ IsFiniteSet(old) /\ IsFiniteSet(new)
        /\ Cardinality(old) \in Nat /\ Cardinality(new) \in Nat
        /\ lastNumber[m] \in Nat
    BY FiniteMonth
  <2>4. /\ {e.number : e \in old} = 1 .. lastNumber[m]
        /\ {e.number : e \in new} = (lastNumber[m] + 1) .. (lastNumber[m] + Cardinality(new))
        /\ Cardinality(old) = lastNumber[m]
    OBVIOUS
  <2>. HIDE DEF old, new
  <2>5. old \cap new = {}
    <3>1. {e.number : e \in old} \cap {e.number : e \in new} = {}
      BY <2>3, <2>4, JoinedInterval
    <3>. QED
      BY <3>1, ApartByNumber
  <2>6. Cardinality(old \cup new) = lastNumber[m] + Cardinality(new)
    <3>1. Cardinality(old \cap new) = 0
      BY <2>5, FS_EmptySet
    <3>. QED
      <4>1. Cardinality(old \cup new) = Cardinality(old) + Cardinality(new) - Cardinality(old \cap new)
        BY <2>3, FS_Union
      <4>. QED
        BY <2>3, <2>4, <3>1, <4>1
  <2>7. {e.number : e \in old \cup new} = {e.number : e \in old} \cup {e.number : e \in new}
    BY NumbersOfUnion
  <2>. QED
    BY <2>1, <2>2, <2>3, <2>4, <2>6, <2>7, JoinedInterval
<1>8. ASSUME NEW r \in Requests, NEW m \in Months, BeginCreate(r, m)
      PROVE  GapFreeJournal'
  BY <1>8 DEF BeginCreate
<1>9. ASSUME NEW r \in Requests, NEW m \in Months, BeginClose(r, m)
      PROVE  GapFreeJournal'
  BY <1>9 DEF BeginClose, ReadStatus
<1>10. ASSUME NEW r \in Requests, NEW m \in Months, BeginReopen(r, m)
      PROVE  GapFreeJournal'
  BY <1>10 DEF BeginReopen, ReadStatus
<1>11. ASSUME NEW r \in Requests, CommitCreate(r)
      PROVE  GapFreeJournal'
  BY <1>11 DEF CommitCreate, EndTransaction, ReleaseLocks
<1>12. ASSUME NEW r \in Requests, UpdatePeriod(r, "closing", "closed")
      PROVE  GapFreeJournal'
  BY <1>12 DEF UpdatePeriod
<1>13. ASSUME NEW r \in Requests, CommitClose(r)
      PROVE  GapFreeJournal'
  BY <1>13 DEF CommitClose, EndTransaction, ReleaseLocks
<1>14. ASSUME NEW r \in Requests, UpdatePeriod(r, "reopening", "reopened")
      PROVE  GapFreeJournal'
  BY <1>14 DEF UpdatePeriod
<1>15. ASSUME NEW r \in Requests, CommitReopen(r)
      PROVE  GapFreeJournal'
  BY <1>15 DEF CommitReopen, EndTransaction, ReleaseLocks
<1>16. ASSUME NEW r \in Requests, RollBack(r)
      PROVE  GapFreeJournal'
  BY <1>16 DEF RollBack, EndTransaction, ReleaseLocks
<1>17. CASE UNCHANGED vars
  BY <1>17
<1>. QED
  BY <1>1, <1>2, <1>3, <1>4, <1>5, <1>6, <1>7, <1>8, <1>9,
     <1>10, <1>11, <1>12, <1>13, <1>14, <1>15, <1>16, <1>17
     DEF Next

\* A reversal is inserted after its original.
LEMMA GroundedStep ==
  ASSUME TypeOK, Placed, Grounded
  PROVE  [Next]_vars => Grounded'
<1> USE JournalAssumption
    DEF TypeOK, Placed, Grounded, Goto,
        vars, periodVars, posting
<1>1. ASSUME NextMonth
      PROVE  Grounded'
  BY <1>1 DEF NextMonth
<1>2. ASSUME NEW r \in Requests, NEW s \in Sources, NEW event \in Event, NEW m \in Months, BeginPosting(r, s, event, m)
      PROVE  Grounded'
  BY <1>2 DEF BeginPosting, LockSource
<1>3. ASSUME NEW r \in Requests, CheckEntry(r)
      PROVE  Grounded'
  BY <1>3 DEF CheckEntry
<1>4. ASSUME NEW r \in Requests, FindPeriod(r)
      PROVE  Grounded'
  BY <1>4 DEF FindPeriod
<1>5. ASSUME NEW r \in Requests, InsertPeriod(r)
      PROVE  Grounded'
  BY <1>5 DEF InsertPeriod
<1>6. ASSUME NEW r \in Requests, TakeNumber(r)
      PROVE  Grounded'
  <2>1. EntryAllowed(r)
    BY <1>6 DEF TakeNumber
  <2>2. /\ entries' = entries
        /\ \A q \in Requests : q # r => pending'[q] = pending[q]
        /\ pending[r] \subseteq pending'[r]
        /\ \A e \in pending'[r] \ pending[r] : e.source = reqSource[r] /\ e.event = reqEvent[r]
    BY <1>6 DEF TakeNumber, InsertEntry
  <2>. QED
    BY <2>1, <2>2 DEF EntryAllowed, Posted
<1>7. ASSUME NEW r \in Requests, CommitPostings(r)
      PROVE  Grounded'
  <2>1. /\ entries' = entries \cup pending[r]
        /\ \A q \in Requests : pending'[q] = IF q = r THEN {} ELSE pending[q]
    BY <1>7 DEF CommitPostings, EndTransaction
  <2>. QED
    BY <2>1 DEF Posted
<1>8. ASSUME NEW r \in Requests, NEW m \in Months, BeginCreate(r, m)
      PROVE  Grounded'
  BY <1>8 DEF BeginCreate
<1>9. ASSUME NEW r \in Requests, NEW m \in Months, BeginClose(r, m)
      PROVE  Grounded'
  BY <1>9 DEF BeginClose, ReadStatus
<1>10. ASSUME NEW r \in Requests, NEW m \in Months, BeginReopen(r, m)
      PROVE  Grounded'
  BY <1>10 DEF BeginReopen, ReadStatus
<1>11. ASSUME NEW r \in Requests, CommitCreate(r)
      PROVE  Grounded'
  BY <1>11 DEF CommitCreate, EndTransaction, ReleaseLocks
<1>12. ASSUME NEW r \in Requests, UpdatePeriod(r, "closing", "closed")
      PROVE  Grounded'
  BY <1>12 DEF UpdatePeriod
<1>13. ASSUME NEW r \in Requests, CommitClose(r)
      PROVE  Grounded'
  BY <1>13 DEF CommitClose, EndTransaction, ReleaseLocks
<1>14. ASSUME NEW r \in Requests, UpdatePeriod(r, "reopening", "reopened")
      PROVE  Grounded'
  BY <1>14 DEF UpdatePeriod
<1>15. ASSUME NEW r \in Requests, CommitReopen(r)
      PROVE  Grounded'
  BY <1>15 DEF CommitReopen, EndTransaction, ReleaseLocks
<1>16. ASSUME NEW r \in Requests, RollBack(r)
      PROVE  Grounded'
  BY <1>16 DEF RollBack, EndTransaction, ReleaseLocks
<1>17. CASE UNCHANGED vars
  BY <1>17
<1>. QED
  BY <1>1, <1>2, <1>3, <1>4, <1>5, <1>6, <1>7, <1>8, <1>9,
     <1>10, <1>11, <1>12, <1>13, <1>14, <1>15, <1>16, <1>17
     DEF Next

\* No two transactions post for the same source.
LEMMA ReversedStep ==
  ASSUME TypeOK, Holding, Placed, Grounded, ReversedAtMostOnce
  PROVE  [Next]_vars => ReversedAtMostOnce'
<1> USE JournalAssumption
    DEF TypeOK, Holding, Placed, Grounded, ReversedAtMostOnce, Goto,
        vars, periodVars, posting
<1>1. ASSUME NextMonth
      PROVE  ReversedAtMostOnce'
  BY <1>1 DEF NextMonth
<1>2. ASSUME NEW r \in Requests, NEW s \in Sources, NEW event \in Event, NEW m \in Months, BeginPosting(r, s, event, m)
      PROVE  ReversedAtMostOnce'
  BY <1>2 DEF BeginPosting, LockSource
<1>3. ASSUME NEW r \in Requests, CheckEntry(r)
      PROVE  ReversedAtMostOnce'
  BY <1>3 DEF CheckEntry
<1>4. ASSUME NEW r \in Requests, FindPeriod(r)
      PROVE  ReversedAtMostOnce'
  BY <1>4 DEF FindPeriod
<1>5. ASSUME NEW r \in Requests, InsertPeriod(r)
      PROVE  ReversedAtMostOnce'
  BY <1>5 DEF InsertPeriod
<1>6. ASSUME NEW r \in Requests, TakeNumber(r)
      PROVE  ReversedAtMostOnce'
  <2>1. EntryAllowed(r)
    BY <1>6 DEF TakeNumber
  <2>2. /\ entries' = entries
        /\ \A q \in Requests : q # r => pending'[q] = pending[q]
        /\ \A e \in pending'[r] \ pending[r] : e.source = reqSource[r] /\ e.event = reqEvent[r]
    BY <1>6 DEF TakeNumber, InsertEntry
  <2>. QED
    BY <2>1, <2>2 DEF EntryAllowed, Posted
<1>7. ASSUME NEW r \in Requests, CommitPostings(r)
      PROVE  ReversedAtMostOnce'
  <2>1. /\ entries' = entries \cup pending[r]
        /\ \A q \in Requests : pending'[q] = IF q = r THEN {} ELSE pending[q]
    BY <1>7 DEF CommitPostings, EndTransaction
  <2>2. ASSUME NEW q \in Requests, NEW e \in pending'[q]
        PROVE  ~Posted(e.source, e.event, entries')
    <3>1. q # r /\ e \in pending[q]
      BY <2>1, <2>2
    <3>2. \A f \in pending[r] : f.source # e.source
      BY <3>1
    <3>3. ~Posted(e.source, e.event, entries)
      BY <3>1
    <3>. QED
      BY <2>1, <3>2, <3>3 DEF Posted
  <2>3. ASSUME NEW e \in entries', e.event = "REVERSAL"
        PROVE  Posted(e.source, "ORIGINAL", entries')
    BY <2>1, <2>3 DEF Posted
  <2>. QED
    BY <2>2, <2>3
<1>8. ASSUME NEW r \in Requests, NEW m \in Months, BeginCreate(r, m)
      PROVE  ReversedAtMostOnce'
  BY <1>8 DEF BeginCreate
<1>9. ASSUME NEW r \in Requests, NEW m \in Months, BeginClose(r, m)
      PROVE  ReversedAtMostOnce'
  BY <1>9 DEF BeginClose, ReadStatus
<1>10. ASSUME NEW r \in Requests, NEW m \in Months, BeginReopen(r, m)
      PROVE  ReversedAtMostOnce'
  BY <1>10 DEF BeginReopen, ReadStatus
<1>11. ASSUME NEW r \in Requests, CommitCreate(r)
      PROVE  ReversedAtMostOnce'
  BY <1>11 DEF CommitCreate, EndTransaction, ReleaseLocks
<1>12. ASSUME NEW r \in Requests, UpdatePeriod(r, "closing", "closed")
      PROVE  ReversedAtMostOnce'
  BY <1>12 DEF UpdatePeriod
<1>13. ASSUME NEW r \in Requests, CommitClose(r)
      PROVE  ReversedAtMostOnce'
  BY <1>13 DEF CommitClose, EndTransaction, ReleaseLocks
<1>14. ASSUME NEW r \in Requests, UpdatePeriod(r, "reopening", "reopened")
      PROVE  ReversedAtMostOnce'
  BY <1>14 DEF UpdatePeriod
<1>15. ASSUME NEW r \in Requests, CommitReopen(r)
      PROVE  ReversedAtMostOnce'
  BY <1>15 DEF CommitReopen, EndTransaction, ReleaseLocks
<1>16. ASSUME NEW r \in Requests, RollBack(r)
      PROVE  ReversedAtMostOnce'
  BY <1>16 DEF RollBack, EndTransaction, ReleaseLocks
<1>17. CASE UNCHANGED vars
  BY <1>17
<1>. QED
  BY <1>1, <1>2, <1>3, <1>4, <1>5, <1>6, <1>7, <1>8, <1>9,
     <1>10, <1>11, <1>12, <1>13, <1>14, <1>15, <1>16, <1>17
     DEF Next

\* No step enters a closed period.
LEMMA FrozenStep ==
  ASSUME TypeOK, Finite, Holding
  PROVE  [Next]_vars => KeepsClosed
<1> USE JournalAssumption
    DEF TypeOK, Finite, Holding, KeepsClosed, Goto,
        vars, periodVars, posting
<1>1. ASSUME NextMonth
      PROVE  KeepsClosed
  BY <1>1 DEF NextMonth
<1>2. ASSUME NEW r \in Requests, NEW s \in Sources, NEW event \in Event, NEW m \in Months, BeginPosting(r, s, event, m)
      PROVE  KeepsClosed
  BY <1>2 DEF BeginPosting, LockSource
<1>3. ASSUME NEW r \in Requests, CheckEntry(r)
      PROVE  KeepsClosed
  BY <1>3 DEF CheckEntry
<1>4. ASSUME NEW r \in Requests, FindPeriod(r)
      PROVE  KeepsClosed
  BY <1>4 DEF FindPeriod
<1>5. ASSUME NEW r \in Requests, InsertPeriod(r)
      PROVE  KeepsClosed
  BY <1>5 DEF InsertPeriod
<1>6. ASSUME NEW r \in Requests, TakeNumber(r)
      PROVE  KeepsClosed
  BY <1>6 DEF TakeNumber, InsertEntry
<1>7. ASSUME NEW r \in Requests, CommitPostings(r)
      PROVE  KeepsClosed
  <2> SUFFICES ASSUME NEW m \in Months, status[m] = "CLOSED"
               PROVE  In(m, entries') = In(m, entries) /\ lastNumber'[m] = lastNumber[m]
    OBVIOUS
  <2>1. In(m, pending[r]) = {}
    BY DEF In
  <2>2. In(m, entries') = In(m, entries) \cup In(m, pending[r])
    BY <1>7, MonthOfUnion DEF CommitPostings
  <2>3. lastNumber'[m] = lastNumber[m] + Cardinality(In(m, pending[r]))
    BY <1>7 DEF CommitPostings
  <2>. QED
    BY <2>1, <2>2, <2>3, FS_EmptySet
<1>8. ASSUME NEW r \in Requests, NEW m \in Months, BeginCreate(r, m)
      PROVE  KeepsClosed
  BY <1>8 DEF BeginCreate
<1>9. ASSUME NEW r \in Requests, NEW m \in Months, BeginClose(r, m)
      PROVE  KeepsClosed
  BY <1>9 DEF BeginClose, ReadStatus
<1>10. ASSUME NEW r \in Requests, NEW m \in Months, BeginReopen(r, m)
      PROVE  KeepsClosed
  BY <1>10 DEF BeginReopen, ReadStatus
<1>11. ASSUME NEW r \in Requests, CommitCreate(r)
      PROVE  KeepsClosed
  BY <1>11 DEF CommitCreate, EndTransaction, ReleaseLocks
<1>12. ASSUME NEW r \in Requests, UpdatePeriod(r, "closing", "closed")
      PROVE  KeepsClosed
  BY <1>12 DEF UpdatePeriod
<1>13. ASSUME NEW r \in Requests, CommitClose(r)
      PROVE  KeepsClosed
  BY <1>13 DEF CommitClose, EndTransaction, ReleaseLocks
<1>14. ASSUME NEW r \in Requests, UpdatePeriod(r, "reopening", "reopened")
      PROVE  KeepsClosed
  BY <1>14 DEF UpdatePeriod
<1>15. ASSUME NEW r \in Requests, CommitReopen(r)
      PROVE  KeepsClosed
  BY <1>15 DEF CommitReopen, EndTransaction, ReleaseLocks
<1>16. ASSUME NEW r \in Requests, RollBack(r)
      PROVE  KeepsClosed
  BY <1>16 DEF RollBack, EndTransaction, ReleaseLocks
<1>17. CASE UNCHANGED vars
  BY <1>17
<1>. QED
  BY <1>1, <1>2, <1>3, <1>4, <1>5, <1>6, <1>7, <1>8, <1>9,
     <1>10, <1>11, <1>12, <1>13, <1>14, <1>15, <1>16, <1>17
     DEF Next

-----------------------------------------------------------------------------
(* The theorems. *)

LEMMA Initially == Init => IInv
<1> SUFFICES ASSUME Init PROVE IInv
  OBVIOUS
<1> USE JournalAssumption DEF Init
<1>1. TypeOK
  BY DEF TypeOK, Months, Event, PeriodStatus, Places, Posting
<1>2. Finite
  BY FS_EmptySet DEF Finite
<1>3. Holding /\ Placed /\ Grounded
  BY DEF Holding, Placed, Posting, Grounded
<1>4. \A m : In(m, {}) = {} /\ Cardinality(In(m, {})) = 0
  BY FS_EmptySet DEF In
<1>5. Numbered
  <2> SUFFICES ASSUME NEW r \in Requests, NEW m \in Months
               PROVE  {e.number : e \in In(m, {})} = (0 + 1) .. (0 + 0)
    BY <1>4 DEF Numbered
  <2>. QED
    BY <1>4
<1>6. GapFreeJournal
  <2> SUFFICES ASSUME NEW m \in Months
               PROVE  {e.number : e \in In(m, {})} = 1 .. 0 /\ Cardinality(In(m, {})) = 0
    BY DEF GapFreeJournal
  <2>. QED
    BY <1>4
<1>7. ReversedAtMostOnce
  BY DEF ReversedAtMostOnce
<1>. QED
  BY <1>1, <1>2, <1>3, <1>5, <1>6, <1>7 DEF IInv

LEMMA Inductive == Spec => []IInv
<1>1. IInv /\ [Next]_vars => IInv'
  BY TypeStep, FiniteStep, HoldingStep, PlacedStep, NumberedStep, GapFreeStep, GroundedStep,
     ReversedStep DEF IInv
<1>. QED
  BY Initially, <1>1, PTL DEF Spec

\* No interleaving of postings, closings and rollbacks takes a row or a request
\* out of the states the schema and the code allow.
THEOREM TypeCorrect == Spec => []TypeOK
<1>1. IInv => TypeOK
  BY DEF IInv
<1>. QED
  BY Inductive, <1>1, PTL

\* The numbers of the entries of every month run from 1 to its counter, without
\* a gap or a repetition.
THEOREM JournalIsGapFree == Spec => []GapFreeJournal
<1>1. IInv => GapFreeJournal
  BY DEF IInv
<1>. QED
  BY Inductive, <1>1, PTL

\* Every source has at most one original and one reversal, in that order.
THEOREM SourcesAreReversedOnce == Spec => []ReversedAtMostOnce
<1>1. IInv => ReversedAtMostOnce
  BY DEF IInv
<1>. QED
  BY Inductive, <1>1, PTL

\* No entry is added to a period while it is closed.
THEOREM ClosedPeriodsAreFrozen == Spec => ClosedPeriodIsFrozen
<1>1. IInv /\ [Next]_vars => [KeepsClosed]_vars
  BY FrozenStep DEF IInv
<1>. QED
  BY Inductive, <1>1, PTL DEF Spec, ClosedPeriodIsFrozen

-----------------------------------------------------------------------------
(* ChartOfAccounts.  What an administrator is about to write is judged by   *)
(* the rows that it will leave.                                             *)

There(rows) == {a \in Accounts : rows[a] # NoRow}

Fits(rows) ==
  /\ rows \in [Accounts -> Row \cup {NoRow}]
  /\ ClosedUp(There(rows), rows, NoAccount)
  /\ Forested(rows, NoAccount, Cardinality(Accounts), There(rows))
  /\ \A a \in There(rows) : rows[a].parent # NoAccount =>
       /\ ~rows[rows[a].parent].postable
       /\ rows[a].status = "ACTIVE" => rows[rows[a].parent].status = "ACTIVE"
  /\ \A a, b \in There(rows) :
       rows[a].key = rows[b].key => a = b \/ rows[a].key = NoKey
  /\ \A a \in There(rows) :
       rows[a].key # NoKey => rows[a].status = "ACTIVE" /\ rows[a].postable

\* What the accounting engine sees of some rows.
HoldersIn(rows, k) == {a \in There(rows) : rows[a].key = k}
OneOf(S) == IF S = {} THEN NoAccount ELSE CHOOSE a \in Accounts : a \in S
HolderIn(rows) == [k \in Keys |-> OneOf(HoldersIn(rows, k))]
UsableIn(rows) == {a \in There(rows) : rows[a].status = "ACTIVE" /\ rows[a].postable}

\* From some rows to others it sees a step of the mapping, or none.
SeenAsStep(rows, next) ==
  \/ HolderIn(next) = HolderIn(rows) /\ UsableIn(next) = UsableIn(rows)
  \/ \E a \in Accounts :
       \/ UsableIn(next) = UsableIn(rows) \cup {a} /\ HolderIn(next) = HolderIn(rows)
       \/ /\ \A k \in Keys : HolderIn(rows)[k] # a
          /\ UsableIn(next) = UsableIn(rows) \ {a}
          /\ HolderIn(next) = HolderIn(rows)
       \/ \E k \in Keys :
            /\ a \in UsableIn(rows)
            /\ \A j \in Keys : HolderIn(rows)[j] # a
            /\ HolderIn(next) = [HolderIn(rows) EXCEPT ![k] = a]
            /\ UsableIn(next) = UsableIn(rows)

After(rows, columns) ==
  [a \in Accounts |-> IF a \in DOMAIN columns THEN Written(rows[a], columns[a]) ELSE rows[a]]


-----------------------------------------------------------------------------
LEMMA AboveIsClimb ==
  ASSUME NEW a
  PROVE  Above(a) = Climb(accounts, NoAccount, Cardinality(Accounts), a)
BY DEF Above, Climb, Climbs

LEMMA NoRowIsNone == NoRow \notin Row /\ \A r \in Row : r.status # NoRow.status
BY DEF NoRow, Row

\* A row that is created or changed fits where its parent and its children do.
LEMMA OneRowFits ==
  ASSUME NEW rows, Fits(rows), NEW next, NEW a \in Accounts,
         next \in [Accounts -> Row \cup {NoRow}], next[a] \in Row,
         \A b \in Accounts \ {a} : next[b] = rows[b],
         next[a].parent # NoAccount =>
           /\ next[a].parent \in There(rows)
           /\ a \notin Climb(rows, NoAccount, Cardinality(Accounts), next[a].parent)
           /\ ~rows[next[a].parent].postable
           /\ next[a].status = "ACTIVE" => rows[next[a].parent].status = "ACTIVE",
         \A b \in There(rows) \ {a} : rows[b].parent = a =>
           /\ ~next[a].postable
           /\ rows[b].status = "ACTIVE" => next[a].status = "ACTIVE",
         IF a \in There(rows) THEN next[a].key = rows[a].key ELSE next[a].key = NoKey,
         next[a].key # NoKey => next[a].status = "ACTIVE" /\ next[a].postable
  PROVE  Fits(next) /\ SeenAsStep(rows, next)
<1>1. There(next) = There(rows) \cup {a}
  BY NoRowIsNone DEF There
<1>2. There(rows) \subseteq Accounts /\ There(next) \subseteq Accounts
  BY DEF There
<1>3. \A b \in There(rows) \ {a} : next[b] = rows[b]
  BY <1>2
<1>4. /\ ClosedUp(There(next), next, NoAccount)
      /\ Forested(next, NoAccount, Cardinality(Accounts), There(next))
  BY <1>1, <1>2, <1>3, ChartAssumption, MovesKeepForest DEF Fits
<1>5. ASSUME NEW b \in There(next), next[b].parent # NoAccount
      PROVE  /\ ~next[next[b].parent].postable
             /\ next[b].status = "ACTIVE" => next[next[b].parent].status = "ACTIVE"
  <2>1. CASE b = a
    <3> DEFINE p == next[a].parent
    <3>1. p \in There(rows) /\ a \notin Climb(rows, NoAccount, Cardinality(Accounts), p)
      BY <2>1, <1>5
    <3>2. p # a
      BY <3>1, <1>2, ChartAssumption, ClimbLeast DEF Fits
    <3>. QED
      BY <2>1, <1>5, <3>1, <3>2, <1>3
  <2>2. CASE b # a
    <3> DEFINE q == rows[b].parent
    <3>1. b \in There(rows) \ {a} /\ next[b] = rows[b]
      BY <2>2, <1>1, <1>3
    <3>2. q \in There(rows)
      BY <3>1, <1>5 DEF Fits, ClosedUp
    <3>3. /\ ~rows[q].postable
          /\ rows[b].status = "ACTIVE" => rows[q].status = "ACTIVE"
      BY <3>1, <1>5 DEF Fits
    <3>4. CASE q = a
      BY <3>1, <3>4
    <3>5. CASE q # a
      BY <3>1, <3>2, <3>3, <3>5, <1>3
    <3>. QED
      BY <3>4, <3>5
  <2>. QED
    BY <2>1, <2>2
<1>6. ASSUME NEW b \in There(next), NEW c \in There(next), next[b].key = next[c].key
      PROVE  b = c \/ next[b].key = NoKey
  BY <1>6, <1>1, <1>3 DEF Fits
<1>7. ASSUME NEW b \in There(next), next[b].key # NoKey
      PROVE  next[b].status = "ACTIVE" /\ next[b].postable
  BY <1>7, <1>1, <1>3 DEF Fits
<1>8. Fits(next)
  BY <1>4, <1>5, <1>6, <1>7 DEF Fits
<1>9. ASSUME NEW k \in Keys PROVE HoldersIn(next, k) = HoldersIn(rows, k)
  <2>1. k # NoKey
    BY ChartAssumption
  <2>. QED
    BY <2>1, <1>1, <1>3 DEF HoldersIn
<1>10. HolderIn(next) = HolderIn(rows)
  <2>. HIDE DEF HoldersIn
  <2>1. \A k \in Keys : HolderIn(next)[k] = HolderIn(rows)[k]
    BY <1>9 DEF HolderIn
  <2>2. /\ HolderIn(next) = [k \in Keys |-> HolderIn(next)[k]]
        /\ HolderIn(rows) = [k \in Keys |-> HolderIn(rows)[k]]
    BY DEF HolderIn
  <2>. QED
    BY <2>1, <2>2, Zenon
<1>11. CASE a \in UsableIn(next)
  <2>1. UsableIn(next) = UsableIn(rows) \cup {a}
    BY <1>11, <1>1, <1>3 DEF UsableIn
  <2>. QED
    BY <2>1, <1>8, <1>10 DEF SeenAsStep
<1>12. CASE a \notin UsableIn(next)
  <2>1. UsableIn(next) = UsableIn(rows) \ {a}
    BY <1>12, <1>1, <1>3 DEF UsableIn
  <2>2. a \in There(rows) => rows[a].key = NoKey
    BY <1>12, <1>1 DEF UsableIn
  <2>3. ASSUME NEW k \in Keys PROVE HolderIn(rows)[k] # a
    <3>1. a \notin HoldersIn(rows, k)
      BY <2>2, ChartAssumption DEF HoldersIn
    <3>2. OneOf(HoldersIn(rows, k)) \in HoldersIn(rows, k) \cup {NoAccount}
      BY <1>2 DEF HoldersIn, OneOf
    <3>. QED
      BY <3>1, <3>2, ChartAssumption DEF HolderIn
  <2>. QED
    BY <2>1, <2>3, <1>8, <1>10 DEF SeenAsStep
<1>. QED
  BY <1>11, <1>12

\* Giving a key to another account changes nothing but keys.
LEMMA NewHolderFits ==
  ASSUME NEW rows, Fits(rows), NEW next, NEW a \in There(rows), NEW k \in Keys,
         a \in UsableIn(rows), rows[a].key = NoKey,
         next \in [Accounts -> Row \cup {NoRow}],
         \A b \in There(rows) : /\ next[b] \in Row
                                /\ next[b].parent = rows[b].parent
                                /\ next[b].status = rows[b].status
                                /\ next[b].postable = rows[b].postable
                                /\ next[b].key = IF b = a THEN k
                                                 ELSE IF rows[b].key = k THEN NoKey
                                                 ELSE rows[b].key,
         \A b \in Accounts \ There(rows) : next[b] = NoRow
  PROVE  Fits(next) /\ SeenAsStep(rows, next)
<1>1. There(next) = There(rows)
  BY NoRowIsNone DEF There
<1>2. There(rows) \subseteq Accounts /\ k # NoKey /\ a \in Accounts
  BY ChartAssumption DEF There
<1>3. rows[a].parent # NoAccount =>
        /\ rows[a].parent \in There(rows)
        /\ a \notin Climb(rows, NoAccount, Cardinality(Accounts), rows[a].parent)
  BY DEF Fits, ClosedUp, Forested
<1>4. /\ ClosedUp(There(next), next, NoAccount)
      /\ Forested(next, NoAccount, Cardinality(Accounts), There(next))
  <2>1. There(next) = There(rows) \cup {a}
    BY <1>1
  <2>2. next[a].parent = rows[a].parent /\ \A x \in There(rows) \ {a} : next[x].parent = rows[x].parent
    OBVIOUS
  <2>. QED
    BY <2>1, <2>2, <1>2, <1>3, ChartAssumption, MovesKeepForest DEF Fits
<1>5. ASSUME NEW b \in There(next), next[b].parent # NoAccount
      PROVE  /\ ~next[next[b].parent].postable
             /\ next[b].status = "ACTIVE" => next[next[b].parent].status = "ACTIVE"
  <2>1. rows[b].parent \in There(rows) /\ next[b].parent = rows[b].parent
    BY <1>5, <1>1 DEF Fits, ClosedUp
  <2>. QED
    BY <2>1, <1>5, <1>1 DEF Fits
<1>6. ASSUME NEW b \in There(next), NEW c \in There(next), next[b].key = next[c].key
      PROVE  b = c \/ next[b].key = NoKey
  BY <1>6, <1>1, <1>2 DEF Fits
<1>7. ASSUME NEW b \in There(next), next[b].key # NoKey
      PROVE  next[b].status = "ACTIVE" /\ next[b].postable
  BY <1>7, <1>1 DEF Fits, UsableIn
<1>8. Fits(next)
  BY <1>4, <1>5, <1>6, <1>7 DEF Fits
<1>9. UsableIn(next) = UsableIn(rows)
  BY <1>1 DEF UsableIn
<1>10. HoldersIn(next, k) = {a}
  BY <1>1, <1>2 DEF HoldersIn
<1>11. ASSUME NEW j \in Keys, j # k PROVE HoldersIn(next, j) = HoldersIn(rows, j)
  <2>1. j # NoKey
    BY ChartAssumption
  <2>. QED
    BY <2>1, <1>11, <1>1 DEF HoldersIn
<1>12. HolderIn(next) = [HolderIn(rows) EXCEPT ![k] = a]
  <2>1. OneOf({a}) = a
    BY <1>2 DEF OneOf
  <2>2. HolderIn(next)[k] = a
    BY <2>1, <1>10 DEF HolderIn
  <2>3. \A j \in Keys : j # k => HolderIn(next)[j] = HolderIn(rows)[j]
    BY <1>11 DEF HolderIn
  <2>4. /\ HolderIn(next) = [j \in Keys |-> HolderIn(next)[j]]
        /\ HolderIn(rows) = [j \in Keys |-> HolderIn(rows)[j]]
    BY DEF HolderIn
  <2>. QED
    BY <2>2, <2>3, <2>4
<1>13. ASSUME NEW j \in Keys PROVE HolderIn(rows)[j] # a
  <2>1. a \notin HoldersIn(rows, j)
    BY ChartAssumption DEF HoldersIn
  <2>2. OneOf(HoldersIn(rows, j)) \in HoldersIn(rows, j) \cup {NoAccount}
    BY <1>2 DEF HoldersIn, OneOf
  <2>. QED
    BY <2>1, <2>2, <1>2, ChartAssumption DEF HolderIn
<1>. QED
  BY <1>2, <1>8, <1>9, <1>12, <1>13 DEF SeenAsStep

-----------------------------------------------------------------------------
(* Each operation decides on columns that leave rows that fit. *)

Decidable(rows, columns) ==
  /\ DOMAIN columns \subseteq Accounts
  /\ \A a \in DOMAIN columns : DOMAIN columns[a] \subseteq Columns
  /\ Fits(After(rows, columns))
  /\ SeenAsStep(rows, After(rows, columns))

LEMMA RowsAreRecords ==
  ASSUME Fits(accounts), NEW a \in There(accounts)
  PROVE  /\ a \in Accounts /\ accounts[a] \in Row
         /\ accounts[a].parent # NoAccount => accounts[a].parent \in There(accounts)
BY DEF Fits, There, ClosedUp

LEMMA ActiveIsThere ==
  ASSUME NEW a \in Accounts, accounts[a].status \in {"ACTIVE", "INACTIVE"}
  PROVE  a \in There(accounts)
BY DEF There, NoRow

\* Writing some columns of one row.
LEMMA OneRowAfter ==
  ASSUME Fits(accounts), NEW a \in Accounts, NEW columns
  PROVE  /\ After(accounts, Only(a, columns)) = [accounts EXCEPT ![a] = Written(accounts[a], columns)]
         /\ DOMAIN Only(a, columns) = {a}
         /\ Only(a, columns)[a] = columns
BY DEF Only, After, Fits

LEMMA RootIsRow ==
  ASSUME NEW type \in Types, NEW postable \in BOOLEAN, NEW key \in Keys \cup {NoKey}
  PROVE  /\ RootRow(type, postable, key) \in Row
         /\ RootRow(type, postable, key).parent = NoAccount
         /\ RootRow(type, postable, key).postable = postable
         /\ RootRow(type, postable, key).status = "ACTIVE"
         /\ RootRow(type, postable, key).key = key
BY DEF RootRow, Row, Level

LEMMA PlacedRow ==
  ASSUME NEW r \in Row, NEW p \in Accounts \cup {NoAccount}, NEW l \in Level
  PROVE  /\ [r EXCEPT !.parent = p, !.level = l] \in Row
         /\ [r EXCEPT !.parent = p, !.level = l].parent = p
         /\ [r EXCEPT !.parent = p, !.level = l].key = r.key
         /\ [r EXCEPT !.parent = p, !.level = l].status = r.status
         /\ DOMAIN [r EXCEPT !.parent = p, !.level = l] = Columns
BY DEF Row, Columns

LEMMA CreationFits ==
  ASSUME Fits(accounts), NEW u \in Admins, NEW a \in Accounts, NEW type \in Types,
         NEW p \in Groups \cup {NoAccount}, NEW postable \in BOOLEAN,
         CreateAccount(u, a, type, p, postable)
  PROVE  \E columns : Decidable(accounts, columns) /\ edit' = [edit EXCEPT ![u] = columns]
<1> DEFINE row == [RootRow(type, postable, NoKey) EXCEPT !.parent = p, !.level = LevelUnder(p)]
           next == After(accounts, Only(a, row))
<1>1. a \notin There(accounts) /\ p \in Accounts \cup {NoAccount}
  BY ChartAssumption DEF CreateAccount, Exists, There
<1>2. p # NoAccount => p \in There(accounts) /\ accounts[p].status = "ACTIVE" /\ ~accounts[p].postable
  BY <1>1, ActiveIsThere DEF CreateAccount, UsableAsParent, Active
<1>3. LevelUnder(p) \in Level
  BY <1>2, RowsAreRecords DEF LevelUnder, Level, Row
<1>4. /\ row \in Row /\ row.parent = p /\ row.key = NoKey /\ row.status = "ACTIVE"
      /\ DOMAIN row = Columns
  <2> DEFINE root == RootRow(type, postable, NoKey)
             l == LevelUnder(p)
  <2>1. root \in Row /\ root.key = NoKey /\ root.status = "ACTIVE"
    BY RootIsRow
  <2>2. p \in Accounts \cup {NoAccount} /\ l \in Level
    BY <1>1, <1>3
  <2>. HIDE DEF root, l
  <2>3. /\ [root EXCEPT !.parent = p, !.level = l] \in Row
        /\ [root EXCEPT !.parent = p, !.level = l].parent = p
        /\ [root EXCEPT !.parent = p, !.level = l].key = root.key
        /\ [root EXCEPT !.parent = p, !.level = l].status = root.status
        /\ DOMAIN [root EXCEPT !.parent = p, !.level = l] = Columns
    BY <2>1, <2>2, PlacedRow
  <2>. QED
    BY <2>1, <2>3 DEF root, l
<1>. HIDE DEF row
<1>7. Written(accounts[a], row) = row
  BY <1>4 DEF Written, Row
<1>8. /\ next \in [Accounts -> Row \cup {NoRow}] /\ next[a] = row
      /\ \A b \in Accounts \ {a} : next[b] = accounts[b]
      /\ DOMAIN Only(a, row) = {a} /\ Only(a, row)[a] = row
  <2>1. next = [accounts EXCEPT ![a] = row]
    BY <1>7, OneRowAfter
  <2>. HIDE DEF next
  <2>. QED
    BY <1>4, <2>1, OneRowAfter DEF Fits
<1>. HIDE DEF next
<1>9. \A b \in There(accounts) : accounts[b].parent # a
  BY <1>1, RowsAreRecords, ChartAssumption
<1>10. p # NoAccount => a \notin Climb(accounts, NoAccount, Cardinality(Accounts), p)
  <2>1. There(accounts) \in SUBSET Accounts
    BY DEF There
  <2>. QED
    BY <2>1, <1>1, <1>2, ChartAssumption, ClimbLeast DEF Fits
<1>12. Fits(next) /\ SeenAsStep(accounts, next)
  BY <1>1, <1>2, <1>4, <1>8, <1>9, <1>10, OneRowFits
<1>13. Decidable(accounts, Only(a, row))
  BY <1>4, <1>8, <1>12 DEF Decidable, next
<1>14. edit' = [edit EXCEPT ![u] = Only(a, row)]
  BY DEF CreateAccount, Decide, row
<1>. QED
  BY <1>13, <1>14

LEMMA StatusFits ==
  ASSUME Fits(accounts), NEW u \in Admins, NEW a \in Accounts,
         ActivateAccount(u, a) \/ DeactivateAccount(u, a)
  PROVE  \E columns : Decidable(accounts, columns) /\ edit' = [edit EXCEPT ![u] = columns]
<1>1. PICK s \in {"ACTIVE", "INACTIVE"} :
        /\ accounts[a].status \in {"ACTIVE", "INACTIVE"}
        /\ edit' = [edit EXCEPT ![u] = Only(a, [status |-> s])]
        /\ IF s = "ACTIVE"
           THEN accounts[a].parent # NoAccount => accounts[accounts[a].parent].status = "ACTIVE"
           ELSE MayDeactivate(a)
        /\ s = "INACTIVE" => accounts[a].status = "ACTIVE"
        /\ s = "ACTIVE" => accounts[a].status = "INACTIVE"
  BY DEF ActivateAccount, DeactivateAccount, Active, Decide
<1>2. a \in There(accounts) /\ accounts[a] \in Row
  BY <1>1, ActiveIsThere, RowsAreRecords
<1> DEFINE columns == [status |-> s]
           row == [accounts[a] EXCEPT !.status = s]
           next == After(accounts, Only(a, columns))
<1>3. row \in Row
  BY <1>2 DEF Row
<1>4. Written(accounts[a], columns) = row
  BY <1>2 DEF Written, Row, Columns
<1>5. /\ row.parent = accounts[a].parent /\ row.postable = accounts[a].postable
      /\ row.key = accounts[a].key /\ row.status = s
  BY <1>2 DEF Row
<1>6. DOMAIN columns \subseteq Columns
  BY DEF Columns
<1>. HIDE DEF row, columns
<1>7. /\ next \in [Accounts -> Row \cup {NoRow}] /\ next[a] = row
      /\ \A b \in Accounts \ {a} : next[b] = accounts[b]
      /\ DOMAIN Only(a, columns) = {a} /\ Only(a, columns)[a] = columns
  <2>1. next = [accounts EXCEPT ![a] = row]
    BY <1>4, OneRowAfter
  <2>. HIDE DEF next
  <2>. QED
    BY <1>3, <2>1, OneRowAfter DEF Fits
<1>. HIDE DEF next
<1>8. row.parent # NoAccount =>
        /\ row.parent \in There(accounts)
        /\ a \notin Climb(accounts, NoAccount, Cardinality(Accounts), row.parent)
        /\ ~accounts[row.parent].postable
        /\ row.status = "ACTIVE" => accounts[row.parent].status = "ACTIVE"
  BY <1>1, <1>2, <1>5 DEF Fits, ClosedUp, Forested
<1>9. ASSUME NEW b \in There(accounts) \ {a}, accounts[b].parent = a
      PROVE  ~row.postable /\ (accounts[b].status = "ACTIVE" => row.status = "ACTIVE")
  <2>1. ~accounts[a].postable /\ (accounts[b].status = "ACTIVE" => accounts[a].status = "ACTIVE")
    BY <1>9, ChartAssumption DEF Fits
  <2>2. s = "INACTIVE" => accounts[b].status # "ACTIVE"
    BY <1>1, <1>9, RowsAreRecords DEF MayDeactivate, Children, Active, Exists, There
  <2>. QED
    BY <2>1, <2>2, <1>1, <1>5
<1>10. row.key # NoKey => row.status = "ACTIVE" /\ row.postable
  BY <1>1, <1>2, <1>5 DEF Fits, MayDeactivate
<1>11. Fits(next) /\ SeenAsStep(accounts, next)
  BY <1>2, <1>3, <1>5, <1>7, <1>8, <1>9, <1>10, OneRowFits
<1>12. Decidable(accounts, Only(a, columns))
  BY <1>6, <1>7, <1>11 DEF Decidable, next
<1>13. edit' = [edit EXCEPT ![u] = Only(a, columns)]
  BY <1>1 DEF columns
<1>. QED
  BY <1>12, <1>13

LEMMA PatchColumns ==
  ASSUME NEW patch \in Patches
  PROVE  /\ DOMAIN patch \subseteq {"type", "parent", "postable"}
         /\ "type" \in DOMAIN patch => patch["type"] \in Types
         /\ "parent" \in DOMAIN patch => patch["parent"] \in Accounts \cup {NoAccount}
         /\ "postable" \in DOMAIN patch => patch["postable"] \in BOOLEAN
<1>1. PICK cs \in (SUBSET {"type", "parent", "postable"}) \ {{}},
           row \in Values :
        patch = Restrict(row, cs)
  BY DEF Patches
<1>. QED
  BY <1>1, ChartAssumption DEF Values, Restrict

LEMMA RowOfColumns ==
  ASSUME NEW r, r = [c \in Columns |-> r[c]],
         r["type"] \in Types, r["parent"] \in Accounts \cup {NoAccount}, r["level"] \in Level,
         r["postable"] \in BOOLEAN, r["status"] \in {"ACTIVE", "INACTIVE"},
         r["key"] \in Keys \cup {NoKey}
  PROVE  r \in Row
BY DEF Row, Columns

\* Mind that a column which does not differ keeps its value, which has passed
\* its own check before.
LEMMA UpdateFits ==
  ASSUME Fits(accounts), NEW u \in Admins, NEW a \in Accounts, NEW patch \in Patches,
         UpdateAccount(u, a, patch)
  PROVE  \E columns : Decidable(accounts, columns) /\ edit' = [edit EXCEPT ![u] = columns]
<1> DEFINE differing == {c \in DOMAIN patch : patch[c] # accounts[a][c]}
           written == differing \cup (IF "parent" \in differing THEN {"level"} ELSE {})
           columns == [c \in written |-> IF c = "level" THEN LevelUnder(patch.parent) ELSE patch[c]]
           row == Written(accounts[a], columns)
           next == After(accounts, Only(a, columns))
<1>1. /\ a \in There(accounts)
      /\ "parent" \in differing => MayMove(a, patch.parent)
      /\ "postable" \in differing => MayBecome(a, patch.postable)
      /\ edit' = [edit EXCEPT ![u] = Only(a, columns)]
  BY DEF UpdateAccount, Exists, There, Decide
<1>2. accounts[a] \in Row
  BY <1>1, RowsAreRecords
<1>3. /\ accounts[a]["type"] \in Types /\ accounts[a]["parent"] \in Accounts \cup {NoAccount}
      /\ accounts[a]["level"] \in Level /\ accounts[a]["postable"] \in BOOLEAN
      /\ accounts[a]["status"] \in {"ACTIVE", "INACTIVE"}
      /\ accounts[a]["key"] \in Keys \cup {NoKey}
  BY <1>2 DEF Row
<1>4. /\ differing \subseteq {"type", "parent", "postable"}
      /\ written \subseteq {"type", "parent", "postable", "level"}
      /\ "level" \in written <=> "parent" \in differing
      /\ "type" \in differing => patch["type"] \in Types
      /\ "parent" \in differing => patch["parent"] \in Accounts \cup {NoAccount}
      /\ "postable" \in differing => patch["postable"] \in BOOLEAN
  BY PatchColumns
<1>5. "parent" \in differing /\ patch.parent # NoAccount =>
        /\ patch.parent \in There(accounts)
        /\ accounts[patch.parent].status = "ACTIVE" /\ ~accounts[patch.parent].postable
        /\ a \notin Climb(accounts, NoAccount, Cardinality(Accounts), patch.parent)
  BY <1>1, <1>4, ActiveIsThere, AboveIsClimb DEF MayMove, UsableAsParent, Active
<1>6. "parent" \in differing => LevelUnder(patch.parent) \in Level
  BY <1>5, RowsAreRecords DEF LevelUnder, Level, Row
<1>7. /\ row["type"] = IF "type" \in differing THEN patch["type"] ELSE accounts[a]["type"]
      /\ row["parent"] = IF "parent" \in differing THEN patch["parent"] ELSE accounts[a]["parent"]
      /\ row["level"] = IF "parent" \in differing THEN LevelUnder(patch.parent) ELSE accounts[a]["level"]
      /\ row["postable"] = IF "postable" \in differing THEN patch["postable"] ELSE accounts[a]["postable"]
      /\ row["status"] = accounts[a]["status"]
      /\ row["key"] = accounts[a]["key"]
      /\ row = [c \in Columns |-> row[c]]
  <2>1. DOMAIN columns = written
    OBVIOUS
  <2>2. \A c \in written : columns[c] = IF c = "level" THEN LevelUnder(patch.parent) ELSE patch[c]
    OBVIOUS
  <2>3. "level" \notin differing /\ "status" \notin written /\ "key" \notin written
    BY <1>4
  <2>4. /\ "type" \in written <=> "type" \in differing
        /\ "parent" \in written <=> "parent" \in differing
        /\ "postable" \in written <=> "postable" \in differing
    OBVIOUS
  <2>. HIDE DEF columns, written, differing
  <2>. QED
    BY <1>4, <2>1, <2>2, <2>3, <2>4 DEF Written, Columns
<1>8. DOMAIN columns \subseteq Columns
  BY <1>4 DEF Columns
<1>9. next = [accounts EXCEPT ![a] = row] /\ DOMAIN Only(a, columns) = {a} /\ Only(a, columns)[a] = columns
  BY OneRowAfter
<1>. HIDE DEF row, columns, written, differing
<1>10. row \in Row
  BY <1>3, <1>4, <1>6, <1>7, RowOfColumns
<1>11. /\ next \in [Accounts -> Row \cup {NoRow}] /\ next[a] = row
       /\ \A b \in Accounts \ {a} : next[b] = accounts[b]
  <2>. HIDE DEF next
  <2>. QED
    BY <1>9, <1>10 DEF Fits
<1>. HIDE DEF next
<1>12. row.parent # NoAccount =>
         /\ row.parent \in There(accounts)
         /\ a \notin Climb(accounts, NoAccount, Cardinality(Accounts), row.parent)
         /\ ~accounts[row.parent].postable
         /\ row.status = "ACTIVE" => accounts[row.parent].status = "ACTIVE"
  <2>1. CASE "parent" \in differing
    BY <2>1, <1>5, <1>7
  <2>2. CASE "parent" \notin differing
    <3>1. row.parent = accounts[a].parent /\ row.status = accounts[a].status
      BY <2>2, <1>7
    <3>. QED
      BY <3>1, <1>1 DEF Fits, ClosedUp, Forested
  <2>. QED
    BY <2>1, <2>2
<1>13. ASSUME NEW b \in There(accounts) \ {a}, accounts[b].parent = a
       PROVE  ~row.postable /\ (accounts[b].status = "ACTIVE" => row.status = "ACTIVE")
  <2>1. ~accounts[a].postable /\ (accounts[b].status = "ACTIVE" => accounts[a].status = "ACTIVE")
    BY <1>13, ChartAssumption DEF Fits
  <2>2. b \in Children(a)
    BY <1>13 DEF Children, Exists, There
  <2>3. CASE "postable" \in differing
    <3>1. ~patch.postable
      BY <2>2, <2>3, <1>1 DEF MayBecome
    <3>. QED
      BY <3>1, <2>1, <2>3, <1>7
  <2>4. CASE "postable" \notin differing
    BY <2>1, <2>4, <1>7
  <2>. QED
    BY <2>3, <2>4
<1>14. row.key # NoKey => row.status = "ACTIVE" /\ row.postable
  <2>1. CASE "postable" \in differing
    <3>1. patch.postable \/ accounts[a].key = NoKey
      BY <2>1, <1>1 DEF MayBecome
    <3>2. accounts[a].key # NoKey => accounts[a].status = "ACTIVE"
      BY <1>1 DEF Fits
    <3>. QED
      BY <3>1, <3>2, <2>1, <1>7
  <2>2. CASE "postable" \notin differing
    BY <2>2, <1>1, <1>7 DEF Fits
  <2>. QED
    BY <2>1, <2>2
<1>15. Fits(next) /\ SeenAsStep(accounts, next)
  <2>1. row.key = accounts[a].key
    BY <1>7
  <2>. QED
    BY <2>1, <1>1, <1>10, <1>11, <1>12, <1>13, <1>14, OneRowFits
<1>16. Decidable(accounts, Only(a, columns))
  BY <1>8, <1>9, <1>15 DEF Decidable, next
<1>. QED
  BY <1>1, <1>16

LEMMA ReassignFits ==
  ASSUME Fits(accounts), NEW u \in Admins, NEW a \in Accounts, NEW k \in Keys,
         ReassignKey(u, k, a)
  PROVE  \E columns : Decidable(accounts, columns) /\ edit' = [edit EXCEPT ![u] = columns]
<1> DEFINE columns == [b \in Holders(k) \cup {a} |-> [key |-> IF b = a THEN k ELSE NoKey]]
           next == After(accounts, columns)
<1>1. /\ a \in UsableIn(accounts) /\ accounts[a].key = NoKey
      /\ edit' = [edit EXCEPT ![u] = columns]
  BY ActiveIsThere DEF ReassignKey, MayHold, Usable, Active, Decide, UsableIn
<1>2. a \in There(accounts) /\ k # NoKey /\ There(accounts) \subseteq Accounts
  BY <1>1, ChartAssumption DEF UsableIn, There
<1>3. Holders(k) = {b \in There(accounts) : accounts[b].key = k}
  BY DEF Holders, Exists, There
<1>4. DOMAIN columns = Holders(k) \cup {a} /\ Holders(k) \cup {a} \subseteq There(accounts)
  BY <1>2, <1>3
<1>5. \A b \in Holders(k) \cup {a} : columns[b] = [key |-> IF b = a THEN k ELSE NoKey]
  OBVIOUS
<1>. HIDE DEF columns
<1>6. \A b \in DOMAIN columns : DOMAIN columns[b] \subseteq Columns
  <2>1. ASSUME NEW b \in DOMAIN columns PROVE DOMAIN columns[b] = {"key"}
    <3>1. columns[b] = [key |-> IF b = a THEN k ELSE NoKey]
      BY <2>1, <1>4, <1>5
    <3>. QED
      BY <3>1
  <2>. QED
    BY <2>1 DEF Columns
<1>7. ASSUME NEW b \in There(accounts)
      PROVE  /\ next[b] \in Row
             /\ next[b].parent = accounts[b].parent
             /\ next[b].status = accounts[b].status
             /\ next[b].postable = accounts[b].postable
             /\ next[b].key = IF b = a THEN k ELSE IF accounts[b].key = k THEN NoKey ELSE accounts[b].key
  <2>0. accounts[b] \in Row /\ b \in Accounts
    BY RowsAreRecords
  <2>1. CASE b \in Holders(k) \cup {a}
    <3> DEFINE key == IF b = a THEN k ELSE NoKey
    <3>1. next[b] = Written(accounts[b], [key |-> key])
      BY <2>0, <2>1, <1>4, <1>5 DEF After
    <3>2. key \in Keys \cup {NoKey}
      OBVIOUS
    <3>. HIDE DEF key, next
    <3>3. next[b] = [accounts[b] EXCEPT !.key = key]
      BY <2>0, <3>1 DEF Written, Columns, Row
    <3>4. /\ next[b] \in Row /\ next[b].parent = accounts[b].parent
          /\ next[b].status = accounts[b].status /\ next[b].postable = accounts[b].postable
          /\ next[b].key = key
      BY <2>0, <3>2, <3>3 DEF Row
    <3>5. key = IF b = a THEN k ELSE IF accounts[b].key = k THEN NoKey ELSE accounts[b].key
      BY <2>1, <1>3 DEF key
    <3>. QED
      BY <3>4, <3>5
  <2>2. CASE b \notin Holders(k) \cup {a}
    <3>1. next[b] = accounts[b]
      BY <2>0, <2>2, <1>4 DEF After
    <3>2. b # a /\ accounts[b].key # k
      BY <2>2, <1>3
    <3>. HIDE DEF next
    <3>. QED
      BY <3>1, <3>2, <2>0
  <2>. QED
    BY <2>1, <2>2
<1>8. ASSUME NEW b \in Accounts \ There(accounts) PROVE next[b] = NoRow
  BY <1>4, <1>8 DEF After, There
<1>9. next = [b \in Accounts |-> next[b]]
  BY DEF After
<1>. HIDE DEF next
<1>10. next \in [Accounts -> Row \cup {NoRow}]
  <2>1. \A b \in Accounts : next[b] \in Row \cup {NoRow}
    BY <1>7, <1>8
  <2>. QED
    BY <2>1, <1>9
<1>11. Fits(next) /\ SeenAsStep(accounts, next)
  BY <1>1, <1>2, <1>7, <1>8, <1>10, NewHolderFits
<1>12. Decidable(accounts, columns)
  BY <1>2, <1>4, <1>6, <1>11 DEF Decidable, next
<1>. QED
  BY <1>1, <1>12

-----------------------------------------------------------------------------
(* The invariant holds from the seeded chart on, for one administrator.      *)

OneAdministrator == \A u, v \in Admins : u = v

LEMMA AfterNothing ==
  ASSUME NEW rows, Fits(rows)
  PROVE  Decidable(rows, NoEdit)
<1>1. DOMAIN NoEdit = {}
  BY DEF NoEdit
<1>2. After(rows, NoEdit) = rows
  BY <1>1 DEF After, Fits
<1>. QED
  BY <1>1, <1>2 DEF Decidable, SeenAsStep

ChartIInv ==
  /\ Fits(accounts)
  /\ posted \subseteq Accounts
  /\ edit = [u \in Admins |-> edit[u]]
  /\ \A u \in Admins : Decidable(accounts, edit[u])

LEMMA SeedFits ==
  ASSUME ChartInit
  PROVE  ChartIInv
<1> DEFINE seeded == {a \in Accounts : \E k \in Keys : SystemAccount[k] = a}
           key(a) == CHOOSE k \in Keys : SystemAccount[k] = a
<1>1. ASSUME NEW a \in seeded
      PROVE  key(a) \in Keys /\ SystemAccount[key(a)] = a
  OBVIOUS
<1>2. \A a \in seeded : accounts[a] = RootRow(SystemType, TRUE, key(a))
  BY DEF ChartInit
<1>3. \A a \in Accounts \ seeded : accounts[a] = NoRow
  BY DEF ChartInit
<1>. HIDE DEF key
<1>4. ASSUME NEW a \in seeded
      PROVE  /\ accounts[a] \in Row /\ accounts[a].parent = NoAccount
             /\ accounts[a].status = "ACTIVE" /\ accounts[a].postable
             /\ accounts[a].key = key(a)
  <2> DEFINE r == RootRow(SystemType, TRUE, key(a))
  <2>1. /\ r \in Row /\ r.parent = NoAccount /\ r.status = "ACTIVE" /\ r.postable
        /\ r.key = key(a)
    <3>1. key(a) \in Keys \cup {NoKey} /\ SystemType \in Types
      BY <1>1, ChartAssumption
    <3>. QED
      BY <3>1 DEF RootRow, Row, Level
  <2>2. accounts[a] = r
    BY <1>2
  <2>. HIDE DEF r
  <2>. QED
    BY <2>1, <2>2
<1>5. seeded \subseteq Accounts
  OBVIOUS
<1>6. There(accounts) = seeded
  BY <1>3, <1>4, <1>5, NoRowIsNone DEF There
<1>7. accounts \in [Accounts -> Row \cup {NoRow}]
  <2>1. accounts = [a \in Accounts |-> accounts[a]]
    BY DEF ChartInit
  <2>2. \A a \in Accounts : accounts[a] \in Row \cup {NoRow}
    BY <1>3, <1>4
  <2>. QED
    BY <2>1, <2>2
<1>. HIDE DEF seeded
<1>8. ClosedUp(There(accounts), accounts, NoAccount)
  BY <1>4, <1>6 DEF ClosedUp
<1>9. Forested(accounts, NoAccount, Cardinality(Accounts), There(accounts))
  BY <1>4, <1>6 DEF Forested
<1>10. ASSUME NEW a \in seeded, NEW b \in seeded, accounts[a].key = accounts[b].key
       PROVE  a = b
  BY <1>1, <1>4, <1>10
<1>11. Fits(accounts)
  BY <1>4, <1>6, <1>7, <1>8, <1>9, <1>10 DEF Fits
<1>12. \A u \in Admins : edit[u] = NoEdit
  BY DEF ChartInit
<1>. QED
  BY <1>11, <1>12, AfterNothing DEF ChartIInv, ChartInit

\* Of the rows, only a commitment changes anything, and to what was decided.
LEMMA EditsFit ==
  ASSUME ChartIInv, OneAdministrator, NEW u \in Admins, EditChart(u)
  PROVE  ChartIInv' /\ SeenAsStep(accounts, accounts')
<1>0. accounts' = accounts => SeenAsStep(accounts, accounts')
  BY DEF SeenAsStep
<1>1. ASSUME UNCHANGED <<accounts, posted>>,
             \E columns : Decidable(accounts, columns) /\ edit' = [edit EXCEPT ![u] = columns]
      PROVE  ChartIInv'
  <2>1. PICK columns : Decidable(accounts, columns) /\ edit' = [edit EXCEPT ![u] = columns]
    BY <1>1
  <2>2. \A v \in Admins : edit'[v] = columns
    BY <2>1 DEF OneAdministrator, ChartIInv
  <2>3. edit' = [v \in Admins |-> edit'[v]]
    BY <2>1 DEF ChartIInv
  <2>. QED
    BY <1>1, <2>1, <2>2, <2>3 DEF ChartIInv
<1>2. ASSUME NEW a \in Accounts, NEW type \in Types, NEW p \in Groups \cup {NoAccount},
             NEW postable \in BOOLEAN, CreateAccount(u, a, type, p, postable)
      PROVE  ChartIInv' /\ SeenAsStep(accounts, accounts')
  <2>1. UNCHANGED <<accounts, posted>>
    BY <1>2 DEF CreateAccount, Decide
  <2>. QED
    BY <1>0, <1>1, <1>2, <2>1, CreationFits DEF ChartIInv
<1>3. ASSUME NEW a \in Accounts, NEW patch \in Patches, UpdateAccount(u, a, patch)
      PROVE  ChartIInv' /\ SeenAsStep(accounts, accounts')
  <2>1. UNCHANGED <<accounts, posted>>
    BY <1>3 DEF UpdateAccount, Decide
  <2>. QED
    BY <1>0, <1>1, <1>3, <2>1, UpdateFits DEF ChartIInv
<1>4. ASSUME NEW a \in Accounts, ActivateAccount(u, a) \/ DeactivateAccount(u, a)
      PROVE  ChartIInv' /\ SeenAsStep(accounts, accounts')
  <2>1. UNCHANGED <<accounts, posted>>
    BY <1>4 DEF ActivateAccount, DeactivateAccount, Decide
  <2>. QED
    BY <1>0, <1>1, <1>4, <2>1, StatusFits DEF ChartIInv
<1>5. ASSUME NEW a \in Accounts, NEW k \in Keys, ReassignKey(u, k, a)
      PROVE  ChartIInv' /\ SeenAsStep(accounts, accounts')
  <2>1. UNCHANGED <<accounts, posted>>
    BY <1>5 DEF ReassignKey, Decide
  <2>. QED
    BY <1>0, <1>1, <1>5, <2>1, ReassignFits DEF ChartIInv
<1>6. ASSUME CommitEdit(u)
      PROVE  ChartIInv' /\ SeenAsStep(accounts, accounts')
  <2>1. /\ accounts' = After(accounts, edit[u])
        /\ edit' = [edit EXCEPT ![u] = NoEdit]
        /\ posted' = posted
    BY <1>6 DEF CommitEdit, After
  <2>2. Fits(accounts') /\ SeenAsStep(accounts, accounts')
    BY <2>1 DEF ChartIInv, Decidable
  <2>3. /\ edit' = [v \in Admins |-> edit'[v]]
        /\ \A v \in Admins : edit'[v] = NoEdit
    BY <2>1 DEF ChartIInv, OneAdministrator
  <2>4. \A v \in Admins : Decidable(accounts', edit'[v])
    BY <2>2, <2>3, AfterNothing
  <2>. QED
    BY <2>1, <2>2, <2>3, <2>4 DEF ChartIInv
<1>7. ASSUME AbandonEdit(u)
      PROVE  ChartIInv' /\ SeenAsStep(accounts, accounts')
  <2>1. UNCHANGED <<accounts, posted>> /\ edit' = [edit EXCEPT ![u] = NoEdit]
    BY <1>7 DEF AbandonEdit
  <2>2. Decidable(accounts, NoEdit)
    BY AfterNothing DEF ChartIInv
  <2>. QED
    BY <1>0, <1>1, <2>1, <2>2
<1>. QED
  BY <1>2, <1>3, <1>4, <1>5, <1>6, <1>7 DEF EditChart

LEMMA ChartStep ==
  ASSUME ChartIInv, OneAdministrator, [ChartNext]_chart
  PROVE  ChartIInv' /\ SeenAsStep(accounts, accounts')
<1>1. CASE UNCHANGED chart
  BY <1>1 DEF ChartIInv, SeenAsStep, chart
<1>2. ASSUME NEW a \in Accounts, PostLine(a)
      PROVE  ChartIInv' /\ SeenAsStep(accounts, accounts')
  BY <1>2 DEF PostLine, ChartIInv, SeenAsStep
<1>3. ASSUME NEW u \in Admins, EditChart(u)
      PROVE  ChartIInv' /\ SeenAsStep(accounts, accounts')
  BY <1>3, EditsFit
<1>. QED
  BY <1>1, <1>2, <1>3 DEF ChartNext

LEMMA ChartInvariant ==
  ASSUME OneAdministrator
  PROVE  ChartSpec => []ChartIInv
<1>1. ChartInit => ChartIInv
  BY SeedFits
<1>2. ChartIInv /\ [ChartNext]_chart => ChartIInv'
  BY ChartStep
<1>. QED
  BY <1>1, <1>2, PTL DEF ChartSpec

\* Rows keep the shape of the schema whatever one administrator does; a level
\* has no upper bound, because a move leaves the levels of the accounts under
\* the one that moves as they were.
THEOREM ChartTypes ==
  ASSUME OneAdministrator
  PROVE  ChartSpec => []ChartTypeOK
<1>1. ChartIInv => ChartTypeOK
  BY DEF ChartIInv, Fits, Decidable, ChartTypeOK
<1>. QED
  BY <1>1, ChartInvariant, PTL

\* The chart is a forest of groups that bear their accounts, after any
\* sequence of the edits of one administrator (createAccount, updateAccount,
\* activateAccount, deactivateAccount and reassignSystemKey).
THEOREM ChartKeepsStanding ==
  ASSUME OneAdministrator
  PROVE  ChartSpec => []ChartStands
<1>1. ASSUME ChartIInv, NEW a \in Accounts, Exists(a), accounts[a].parent # NoAccount
      PROVE  /\ a \notin Above(accounts[a].parent)
             /\ ~accounts[accounts[a].parent].postable
             /\ Active(a) => Active(accounts[a].parent)
  <2>1. a \in There(accounts)
    BY <1>1 DEF Exists, There
  <2>. QED
    BY <1>1, <2>1, AboveIsClimb DEF ChartIInv, Fits, Forested, Active
<1>2. ChartIInv => ChartStands
  BY <1>1 DEF ChartStands, Forest, GroupsStand
<1>. QED
  BY <1>2, ChartInvariant, PTL

-----------------------------------------------------------------------------
(* The accounting engine's view. *)

MappedHolder == [k \in Keys |-> HolderOf(k)]
MappedUsable == {a \in Accounts : Exists(a) /\ Usable(a)}

LEMMA EngineSees == MappedHolder = HolderIn(accounts) /\ MappedUsable = UsableIn(accounts)
<1>1. ASSUME NEW k \in Keys PROVE HolderOf(k) = HolderIn(accounts)[k]
  <2>1. Holders(k) = HoldersIn(accounts, k)
    BY DEF Holders, HoldersIn, Exists, There
  <2>. QED
    BY <2>1 DEF HolderOf, HolderIn, OneOf
<1>2. HolderIn(accounts) = [k \in Keys |-> HolderIn(accounts)[k]]
  BY DEF HolderIn
<1>3. MappedHolder = HolderIn(accounts)
  BY <1>1, <1>2 DEF MappedHolder
<1>. QED
  BY <1>3 DEF MappedUsable, UsableIn, Exists, Usable, Active, There

LEMMA MappingBegins ==
  ASSUME ChartInit
  PROVE  Mapping!MappingInit
<1> DEFINE seeded == {a \in Accounts : \E k \in Keys : SystemAccount[k] = a}
<1>1. ChartIInv
  BY SeedFits
<1>2. There(accounts) \subseteq Accounts
  BY DEF There
<1>3. ASSUME NEW k \in Keys
      PROVE  /\ HolderIn(accounts)[k] \in HoldersIn(accounts, k) \cup {NoAccount}
             /\ HoldersIn(accounts, k) # {} => HolderIn(accounts)[k] \in HoldersIn(accounts, k)
             /\ HoldersIn(accounts, k) \subseteq There(accounts)
  BY <1>2 DEF HolderIn, OneOf, HoldersIn
<1>4. HolderIn(accounts) \in [Keys -> Accounts \cup {NoAccount}]
  <2>1. HolderIn(accounts) = [k \in Keys |-> HolderIn(accounts)[k]]
    BY DEF HolderIn
  <2>2. \A k \in Keys : HolderIn(accounts)[k] \in Accounts \cup {NoAccount}
    BY <1>2, <1>3
  <2>. QED
    BY <2>1, <2>2
<1>5. ASSUME NEW a \in UsableIn(accounts)
      PROVE  \E k \in Keys : HolderIn(accounts)[k] = a
  <2>1. a \in There(accounts) /\ a \in Accounts
    BY <1>2 DEF UsableIn
  <2>2. \E k \in Keys : SystemAccount[k] = a
    BY <2>1 DEF There, ChartInit
  <2>3. accounts[a].key \in Keys
    BY <2>1, <2>2 DEF ChartInit, RootRow
  <2> DEFINE k == accounts[a].key
  <2>4. a \in HoldersIn(accounts, k)
    BY <2>1 DEF HoldersIn
  <2>5. HolderIn(accounts)[k] \in HoldersIn(accounts, k)
    BY <2>3, <2>4, <1>3
  <2>6. HolderIn(accounts)[k] = a
    BY <1>1, <2>1, <2>3, <2>5, ChartAssumption DEF ChartIInv, Fits, HoldersIn
  <2>. QED
    BY <2>3, <2>6
<1>6. ASSUME NEW k \in Keys, HolderIn(accounts)[k] # NoAccount
      PROVE  HolderIn(accounts)[k] \in UsableIn(accounts)
  <2>1. HolderIn(accounts)[k] \in HoldersIn(accounts, k) /\ k # NoKey
    BY <1>3, <1>6, ChartAssumption
  <2>. QED
    BY <2>1, <1>1 DEF HoldersIn, ChartIInv, Fits, UsableIn
<1>7. UsableIn(accounts) = {HolderIn(accounts)[k] : k \in Keys} \ {NoAccount}
  <2>1. NoAccount \notin UsableIn(accounts)
    BY <1>2, ChartAssumption DEF UsableIn
  <2>. QED
    BY <2>1, <1>5, <1>6
<1>. QED
  BY <1>4, <1>7, EngineSees DEF Mapping!MappingInit, MappedHolder, MappedUsable

LEMMA MappingSteps ==
  ASSUME SeenAsStep(accounts, accounts')
  PROVE  [Mapping!MappingNext]_Mapping!mapping
<1>1. MappedHolder = HolderIn(accounts) /\ MappedUsable = UsableIn(accounts)
  BY EngineSees
<1>2. (MappedHolder = HolderIn(accounts) /\ MappedUsable = UsableIn(accounts))'
  BY EngineSees, PTL
<1>3. CASE HolderIn(accounts') = HolderIn(accounts) /\ UsableIn(accounts') = UsableIn(accounts)
  <2>1. MappedHolder' = MappedHolder /\ MappedUsable' = MappedUsable
    BY <1>1, <1>2, <1>3
  <2>. QED
    BY <2>1 DEF Mapping!mapping, MappedHolder, MappedUsable
<1>4. ASSUME NEW a \in Accounts,
             UsableIn(accounts') = UsableIn(accounts) \cup {a}, HolderIn(accounts') = HolderIn(accounts)
      PROVE  Mapping!MappingNext
  <2>1. MappedUsable' = MappedUsable \cup {a} /\ MappedHolder' = MappedHolder
    BY <1>1, <1>2, <1>4
  <2>2. Mapping!SwitchOn(a)
    BY <2>1 DEF Mapping!SwitchOn, MappedHolder, MappedUsable
  <2>. QED
    BY <2>2 DEF Mapping!MappingNext
<1>5. ASSUME NEW a \in Accounts,
             \A k \in Keys : HolderIn(accounts)[k] # a,
             UsableIn(accounts') = UsableIn(accounts) \ {a}, HolderIn(accounts') = HolderIn(accounts)
      PROVE  Mapping!MappingNext
  <2>1. /\ \A k \in Keys : MappedHolder[k] # a
        /\ MappedUsable' = MappedUsable \ {a} /\ MappedHolder' = MappedHolder
    BY <1>1, <1>2, <1>5
  <2>2. Mapping!SwitchOff(a)
    BY <2>1 DEF Mapping!SwitchOff, MappedHolder, MappedUsable
  <2>. QED
    BY <2>2 DEF Mapping!MappingNext
<1>6. ASSUME NEW a \in Accounts, NEW k \in Keys, a \in UsableIn(accounts),
             \A j \in Keys : HolderIn(accounts)[j] # a,
             HolderIn(accounts') = [HolderIn(accounts) EXCEPT ![k] = a],
             UsableIn(accounts') = UsableIn(accounts)
      PROVE  Mapping!MappingNext
  <2>1. /\ a \in MappedUsable
        /\ \A j \in Keys : MappedHolder[j] # a
        /\ MappedHolder' = [MappedHolder EXCEPT ![k] = a] /\ MappedUsable' = MappedUsable
    BY <1>1, <1>2, <1>6
  <2>2. Mapping!Reassign(k, a)
    BY <2>1 DEF Mapping!Reassign, MappedHolder, MappedUsable
  <2>. QED
    BY <2>2 DEF Mapping!MappingNext
<1>. QED
  BY <1>3, <1>4, <1>5, <1>6 DEF SeenAsStep

\* To the accounting engine the edits of one administrator are steps of the
\* mapping: no key loses its account, and the account of a key stays usable.
THEOREM ChartImplementsMapping ==
  ASSUME OneAdministrator
  PROVE  ChartSpec => ImplementsMapping
<1>1. ChartInit => Mapping!MappingInit
  BY MappingBegins
<1>2. ChartIInv /\ [ChartNext]_chart => [Mapping!MappingNext]_Mapping!mapping
  BY ChartStep, MappingSteps
<1>. QED
  BY <1>1, <1>2, ChartInvariant, PTL DEF ChartSpec, ImplementsMapping, Mapping!MappingSpec

=============================================================================
