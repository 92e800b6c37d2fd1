--------------------------- MODULE JournalPeriods ---------------------------
(***************************************************************************)
(* Postings to the journal against the opening, closing and reopening of   *)
(* the monthly accounting periods (AccountingEngine,                       *)
(* AccountingPeriodsService and the manual entries that use them).         *)
(*                                                                         *)
(* A posting belongs to the transaction of a business operation, which     *)
(* holds the row of its source (a sale, a payment, a manual draft) and may *)
(* post for several sources.  Transactions run statement by statement      *)
(* under READ COMMITTED; what they write is private up to their commit.    *)
(***************************************************************************)
EXTENDS Integers, FiniteSets

CONSTANTS
  Sources,      \* business rows whose events are posted
  Manual,       \* those that are manual drafts, with an explicit date
  Requests,     \* concurrent HTTP requests
  LastMonth,    \* months are numbered 1..LastMonth
  MaxClosings,  \* bound on how often a period is closed, for the model checker
  NoRequest, NoSource

ASSUME JournalAssumption ==
  /\ Manual \subseteq Sources
  /\ LastMonth \in Nat \ {0}
  /\ MaxClosings \in Nat
  /\ NoRequest \notin Requests
  /\ NoSource \notin Sources

Months == 1..LastMonth

Event == {"ORIGINAL", "REVERSAL"}

\* "NONE" is a period that has no row yet.
PeriodStatus == {"NONE", "OPEN", "CLOSED"}

VARIABLES
  today,       \* the current business month
  status,      \* accounting_periods.status
  lastNumber,  \* accounting_periods.last_journal_number, committed
  periodLock,  \* the transaction that holds, or is inserting, the period row
  sourceLock,  \* the transaction that holds the source row
  entries,     \* rows of accounting_entries
  closings,    \* audit records ACCOUNTING_PERIOD_CLOSED of each period
  pending,     \* entries inserted by each open transaction
  pc, reqSource, reqEvent, reqMonth

periodVars == <<status, lastNumber, closings>>
posting    == <<reqSource, reqEvent, reqMonth>>
vars == <<today, periodVars, periodLock, sourceLock, entries, pending, pc, posting>>

Entry == [source : Sources, event : Event, month : Months, number : Nat \ {0}]

Posting == {"check", "find", "insert", "number", "posted"}
Places  == {"idle", "creating", "closing", "reopening", "closed", "reopened"}
             \cup Posting

Posted(source, event, set) ==
  \E e \in set : e.source = source /\ e.event = event

In(month, set) == {e \in set : e.month = month}

Goto(r, place) == pc' = [pc EXCEPT ![r] = place]

Init ==
  /\ today = 1
  /\ status = [m \in Months |-> "NONE"]
  /\ lastNumber = [m \in Months |-> 0]
  /\ periodLock = [m \in Months |-> NoRequest]
  /\ sourceLock = [s \in Sources |-> NoRequest]
  /\ entries = {}
  /\ closings = [m \in Months |-> 0]
  /\ pending = [r \in Requests |-> {}]
  /\ pc = [r \in Requests |-> "idle"]
  /\ reqSource = [r \in Requests |-> NoSource]
  /\ reqEvent = [r \in Requests |-> "ORIGINAL"]
  /\ reqMonth = [r \in Requests |-> 1]

\* Row locks end with their transaction.
ReleaseLocks(r) ==
  /\ periodLock' = [m \in Months |-> IF periodLock[m] = r THEN NoRequest ELSE periodLock[m]]
  /\ sourceLock' = [s \in Sources |-> IF sourceLock[s] = r THEN NoRequest ELSE sourceLock[s]]

EndTransaction(r) ==
  /\ ReleaseLocks(r)
  /\ Goto(r, "idle")
  /\ pending' = [pending EXCEPT ![r] = {}]
  /\ reqSource' = [reqSource EXCEPT ![r] = NoSource]
  /\ reqEvent' = [reqEvent EXCEPT ![r] = "ORIGINAL"]
  /\ reqMonth' = [reqMonth EXCEPT ![r] = 1]

NextMonth ==
  /\ today < LastMonth
  /\ today' = today + 1
  /\ UNCHANGED <<periodVars, periodLock, sourceLock, entries, pending, pc, posting>>

-----------------------------------------------------------------------------
(* A posting: postOriginal, postManualEntry, reverseOriginalForSource. *)

\* Mutated form: the source is read without FOR UPDATE.
UnlockedSource(r, s) == UNCHANGED sourceLock

\* The source row is locked by its operation (or is a row that it inserts).
LockSource(r, s) ==
  /\ sourceLock[s] \in {NoRequest, r}
  /\ sourceLock' = [sourceLock EXCEPT ![s] = r]

\* The transaction starts, or goes on to one more posting.  Only the original
\* of a manual draft has an explicit date: the instant of the event is now.
BeginPosting(r, s, event, m) ==
  /\ pc[r] \in {"idle", "posted"}
  /\ m = today \/ (s \in Manual /\ event = "ORIGINAL")
  /\ LockSource(r, s)
  /\ reqSource' = [reqSource EXCEPT ![r] = s]
  /\ reqEvent' = [reqEvent EXCEPT ![r] = event]
  /\ reqMonth' = [reqMonth EXCEPT ![r] = m]
  /\ Goto(r, "check")
  /\ UNCHANGED <<today, periodVars, periodLock, entries, pending>>

\* An original is posted once; a reversal needs its original and is posted
\* once.  A failed check is a 409 or a 500, and a rollback.
EntryAllowed(r) ==
  LET visible == entries \cup pending[r]
      s       == reqSource[r]
  IN  /\ ~Posted(s, reqEvent[r], visible)
      /\ reqEvent[r] = "REVERSAL" => Posted(s, "ORIGINAL", visible)

CheckEntry(r) ==
  /\ pc[r] = "check"
  /\ EntryAllowed(r)
  /\ Goto(r, "find")
  /\ UNCHANGED <<today, periodVars, periodLock, sourceLock, entries, pending, posting>>

\* A row that is committed, or that r itself has inserted.
VisiblePeriod(r, m) == status[m] # "NONE" \/ periodLock[m] = r

MayCreatePeriod(r) ==
  reqSource[r] \in Manual /\ reqEvent[r] = "ORIGINAL" => reqMonth[r] = today

FindPeriod(r) ==
  /\ pc[r] = "find"
  /\ \/ VisiblePeriod(r, reqMonth[r]) /\ Goto(r, "number")
     \/ ~VisiblePeriod(r, reqMonth[r]) /\ MayCreatePeriod(r) /\ Goto(r, "insert")
  /\ UNCHANGED <<today, periodVars, periodLock, sourceLock, entries, pending, posting>>

\* INSERT ... ON CONFLICT DO NOTHING: waits for an uncommitted insertion of
\* the same month, and does nothing when the row is there.
InsertPeriod(r) ==
  LET m == reqMonth[r]
  IN  /\ pc[r] = "insert"
      /\ \/ status[m] # "NONE" /\ UNCHANGED periodLock
         \/ /\ status[m] = "NONE"
            /\ periodLock[m] = NoRequest
            /\ periodLock' = [periodLock EXCEPT ![m] = r]
      /\ Goto(r, "number")
      /\ UNCHANGED <<today, periodVars, sourceLock, entries, pending, posting>>

\* RETURNING last_journal_number, in the transaction that has counted its own
\* entries of the month.
NextNumber(r) == lastNumber[reqMonth[r]] + Cardinality(In(reqMonth[r], pending[r])) + 1

InsertEntry(r) ==
  /\ pending' = [pending EXCEPT ![r] = @ \cup
       {[source |-> reqSource[r], event |-> reqEvent[r], month |-> reqMonth[r],
         number |-> NextNumber(r)]}]
  /\ Goto(r, "posted")
  /\ UNCHANGED <<today, periodVars, sourceLock, entries, posting>>

\* Mutated forms: an UPDATE without the condition on the status, and a SELECT
\* of the counter that does not lock the row.
NumberAnyway(r) ==
  /\ pc[r] = "number"
  /\ periodLock[reqMonth[r]] \in {NoRequest, r}
  /\ periodLock' = [periodLock EXCEPT ![reqMonth[r]] = r]
  /\ InsertEntry(r)

NumberUnlocked(r) ==
  /\ pc[r] = "number"
  /\ status[reqMonth[r]] = "OPEN"
  /\ UNCHANGED periodLock
  /\ InsertEntry(r)

\* UPDATE accounting_periods SET last_journal_number = ... + 1 WHERE OPEN, and
\* the insertion of the entry.  A row that r has inserted itself is open.
TakeNumber(r) ==
  /\ pc[r] = "number"
  /\ periodLock[reqMonth[r]] \in {NoRequest, r}
  /\ status[reqMonth[r]] = "OPEN"
       \/ (status[reqMonth[r]] = "NONE" /\ periodLock[reqMonth[r]] = r)
  /\ periodLock' = [periodLock EXCEPT ![reqMonth[r]] = r]
  /\ InsertEntry(r)

\* The commit of the whole operation.  The unique index on the original of a
\* source, and the one on reverses_entry_id, reject a duplicate.
CommitPostings(r) ==
  /\ pc[r] = "posted"
  /\ \A e \in pending[r] : ~Posted(e.source, e.event, entries)
  /\ entries' = entries \cup pending[r]
  /\ lastNumber' = [m \in Months |-> lastNumber[m] + Cardinality(In(m, pending[r]))]
  /\ status' = [m \in Months |->
       IF status[m] = "NONE" /\ periodLock[m] = r THEN "OPEN" ELSE status[m]]
  /\ EndTransaction(r)
  /\ UNCHANGED <<today, closings>>

-----------------------------------------------------------------------------
(* createPeriod(), closePeriod(), reopenPeriod(). *)

\* The check and the insertion: a concurrent insertion of the month makes it
\* wait and then fail on the unique index.
BeginCreate(r, m) ==
  /\ pc[r] = "idle"
  /\ status[m] = "NONE"
  /\ periodLock[m] = NoRequest
  /\ periodLock' = [periodLock EXCEPT ![m] = r]
  /\ reqMonth' = [reqMonth EXCEPT ![r] = m]
  /\ Goto(r, "creating")
  /\ UNCHANGED <<today, periodVars, sourceLock, entries, pending, reqSource, reqEvent>>

CommitCreate(r) ==
  /\ pc[r] = "creating"
  /\ status' = [status EXCEPT ![reqMonth[r]] = "OPEN"]
  /\ EndTransaction(r)
  /\ UNCHANGED <<today, lastNumber, closings, entries>>

\* The check of the status is a plain read.
ReadStatus(r, m, expected, place) ==
  /\ pc[r] = "idle"
  /\ status[m] = expected
  /\ reqMonth' = [reqMonth EXCEPT ![r] = m]
  /\ Goto(r, place)
  /\ UNCHANGED <<today, periodVars, periodLock, sourceLock, entries, pending,
                 reqSource, reqEvent>>

BeginClose(r, m) == closings[m] < MaxClosings /\ ReadStatus(r, m, "OPEN", "closing")
BeginReopen(r, m) == ReadStatus(r, m, "CLOSED", "reopening")

\* UPDATE accounting_periods by id, without a condition on the status.
UpdatePeriod(r, place, next) ==
  /\ pc[r] = place
  /\ periodLock[reqMonth[r]] = NoRequest
  /\ periodLock' = [periodLock EXCEPT ![reqMonth[r]] = r]
  /\ Goto(r, next)
  /\ UNCHANGED <<today, periodVars, sourceLock, entries, pending, posting>>

CommitClose(r) ==
  /\ pc[r] = "closed"
  /\ status' = [status EXCEPT ![reqMonth[r]] = "CLOSED"]
  /\ closings' = [closings EXCEPT ![reqMonth[r]] = @ + 1]
  /\ EndTransaction(r)
  /\ UNCHANGED <<today, lastNumber, entries>>

CommitReopen(r) ==
  /\ pc[r] = "reopened"
  /\ status' = [status EXCEPT ![reqMonth[r]] = "OPEN"]
  /\ EndTransaction(r)
  /\ UNCHANGED <<today, lastNumber, closings, entries>>

\* A failed check, a conflict on a unique index, a deadlock that PostgreSQL
\* resolves, a lost connection: nothing of the transaction remains.
RollBack(r) ==
  /\ pc[r] # "idle"
  /\ EndTransaction(r)
  /\ UNCHANGED <<today, periodVars, entries>>

Next ==
  \/ NextMonth
  \/ \E r \in Requests :
       \/ \E s \in Sources, event \in Event, m \in Months : BeginPosting(r, s, event, m)
       \/ CheckEntry(r)
       \/ FindPeriod(r)
       \/ InsertPeriod(r)
       \/ TakeNumber(r)
       \/ CommitPostings(r)
       \/ \E m \in Months : BeginCreate(r, m) \/ BeginClose(r, m) \/ BeginReopen(r, m)
       \/ CommitCreate(r)
       \/ UpdatePeriod(r, "closing", "closed")
       \/ CommitClose(r)
       \/ UpdatePeriod(r, "reopening", "reopened")
       \/ CommitReopen(r)
       \/ RollBack(r)

Spec == Init /\ [][Next]_vars

-----------------------------------------------------------------------------
(* Properties *)

\* Every variable has the shape of its rows.
TypeOK ==
  /\ today \in Months
  /\ status \in [Months -> PeriodStatus]
  /\ lastNumber \in [Months -> Nat]
  /\ periodLock \in [Months -> Requests \cup {NoRequest}]
  /\ sourceLock \in [Sources -> Requests \cup {NoRequest}]
  /\ entries \subseteq Entry
  /\ closings \in [Months -> Nat]
  /\ pending \in [Requests -> SUBSET Entry]
  /\ pc \in [Requests -> Places]
  /\ reqSource \in [Requests -> Sources \cup {NoSource}]
  /\ reqEvent \in [Requests -> Event]
  /\ reqMonth \in [Requests -> Months]

\* The committed entries of a month carry the numbers 1, 2, ...,
\* last_journal_number once each, whatever transactions roll back.
GapFreeJournal ==
  \A m \in Months :
    /\ {e.number : e \in In(m, entries)} = 1..lastNumber[m]
    /\ Cardinality(In(m, entries)) = lastNumber[m]

\* The check behind the lock of the source makes the two unique indexes
\* unnecessary: a transaction never reaches its commit with a duplicate, so
\* every source has one original at most, reversed at most once and never
\* without being there.
ReversedAtMostOnce ==
  /\ \A r \in Requests : \A e \in pending[r] : ~Posted(e.source, e.event, entries)
  /\ \A e \in entries : e.event = "REVERSAL" => Posted(e.source, "ORIGINAL", entries)

\* Nothing enters a period that is closed, not even a posting that was under
\* way when the period was closed.
KeepsClosed ==
  \A m \in Months : status[m] = "CLOSED" =>
    /\ In(m, entries') = In(m, entries)
    /\ lastNumber'[m] = lastNumber[m]
ClosedPeriodIsFrozen == [][KeepsClosed]_vars
=============================================================================
