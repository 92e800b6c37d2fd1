--------------------------- MODULE FiscalIssuance ---------------------------
(***************************************************************************)
(* Issuance of electronic fiscal documents against the cancellation of     *)
(* the sales they bill (src/electronic-invoicing and SalesService.cancel). *)
(*                                                                         *)
(* A request is an HTTP request served by the backend.  Its database       *)
(* transactions run statement by statement under READ COMMITTED: a step    *)
(* reads what is committed, a row lock taken by SELECT ... FOR UPDATE or   *)
(* by UPDATE is kept to the end of the transaction, and the rows that a    *)
(* transaction writes appear when it commits.  The provider is called      *)
(* outside every transaction; a request may die at any step.               *)
(***************************************************************************)
EXTENDS Naturals

CONSTANTS
  Sales,             \* rows of sales
  Docs,              \* identifiers that rows of electronic_documents may take
  Series,            \* active rows of fiscal_series
  Requests,          \* concurrent HTTP requests
  Billable,          \* pairs <<sale, series>> that pass the issuer and customer rules
  MaxFiscalNumber,   \* MAX_FISCAL_NUMBER, the last number of a series
  MaxSubmissions,    \* bound on submission_count, for the model checker only
  NoRequest, NoSale, NoDoc, NoSeries

ASSUME BoundsAssumption ==
  /\ MaxFiscalNumber \in Nat
  /\ MaxSubmissions \in Nat

ASSUME NoneAssumption ==
  /\ NoRequest \notin Requests
  /\ NoSale \notin Sales
  /\ NoDoc \notin Docs
  /\ NoSeries \notin Series

SaleStatus == {"ACTIVE", "CANCELLED"}

\* "NONE" is a row that does not exist.
DocumentStatus ==
  {"NONE", "CREATED", "SUBMITTED", "ACCEPTED", "REJECTED", "SUBMISSION_FAILED"}

\* The statuses that keep SalesService.cancel from cancelling the sale.
Blocking == {"CREATED", "SUBMITTED", "SUBMISSION_FAILED", "ACCEPTED"}

Verdict == {"NONE", "ACCEPTED", "REJECTED"}

VARIABLES
  saleStatus,    \* sales.status
  saleLock,      \* the request whose transaction holds the sale row
  lastNumber,    \* fiscal_series.current_number, committed
  seriesLock,    \* the request whose transaction holds the series row
  docStatus,     \* electronic_documents.status
  docSale,       \* electronic_documents.sale_id
  docSeries,     \* electronic_documents.fiscal_series_id
  docNumber,     \* electronic_documents.number
  submissions,   \* electronic_documents.submission_count
  inTransit,     \* submissions of a document the provider has not handled yet
  processed,     \* how often the provider has registered a document
  verdict,       \* what the provider decided about a document
  pc,            \* where each request stands
  reqSale, reqSeries, reqDoc,  \* the rows each request works on
  reqNumber      \* the fiscal number allocated in its open transaction

saleVars     == <<saleStatus, saleLock>>
seriesVars   == <<lastNumber, seriesLock>>
docVars      == <<docStatus, docSale, docSeries, docNumber, submissions>>
providerVars == <<inTransit, processed, verdict>>
targets      == <<reqSale, reqSeries, reqDoc, reqNumber>>
vars == <<saleVars, seriesVars, docVars, providerVars, pc, targets>>

InIssueTransaction  == {"issueLocked", "issueChecked", "issueNumbered"}
InCancelTransaction == {"cancelLocked", "cancelChecked"}
InTransaction       == InIssueTransaction \cup InCancelTransaction
InSubmission        == {"submit", "send", "waiting", "accepted", "rejected",
                        "refused", "unknown"}
Places              == {"idle"} \cup InTransaction \cup InSubmission

DocumentsOf(s) == {d \in Docs : docStatus[d] # "NONE" /\ docSale[d] = s}

Init ==
  /\ saleStatus = [s \in Sales |-> "ACTIVE"]
  /\ saleLock = [s \in Sales |-> NoRequest]
  /\ lastNumber = [x \in Series |-> 0]
  /\ seriesLock = [x \in Series |-> NoRequest]
  /\ docStatus = [d \in Docs |-> "NONE"]
  /\ docSale = [d \in Docs |-> NoSale]
  /\ docSeries = [d \in Docs |-> NoSeries]
  /\ docNumber = [d \in Docs |-> 0]
  /\ submissions = [d \in Docs |-> 0]
  /\ inTransit = [d \in Docs |-> 0]
  /\ processed = [d \in Docs |-> 0]
  /\ verdict = [d \in Docs |-> "NONE"]
  /\ pc = [r \in Requests |-> "idle"]
  /\ reqSale = [r \in Requests |-> NoSale]
  /\ reqSeries = [r \in Requests |-> NoSeries]
  /\ reqDoc = [r \in Requests |-> NoDoc]
  /\ reqNumber = [r \in Requests |-> 0]

Goto(r, place) == pc' = [pc EXCEPT ![r] = place]

\* The variables of an ended transaction, or of an ended request, are gone.
ForgetTransaction(r) ==
  /\ reqSale' = [reqSale EXCEPT ![r] = NoSale]
  /\ reqSeries' = [reqSeries EXCEPT ![r] = NoSeries]
  /\ reqNumber' = [reqNumber EXCEPT ![r] = 0]

End(r) ==
  /\ Goto(r, "idle")
  /\ ForgetTransaction(r)
  /\ reqDoc' = [reqDoc EXCEPT ![r] = NoDoc]

\* Mutated form: a plain SELECT.
UnlockedSale(r, s) == UNCHANGED saleLock

\* SELECT id FROM sales WHERE id = s FOR UPDATE: waits while another
\* transaction holds the row.
LockSale(r, s) ==
  /\ saleLock[s] = NoRequest
  /\ saleLock' = [saleLock EXCEPT ![s] = r]

\* Mutated form: the series row stays locked.
SeriesStaysLocked(r) ==
  /\ saleLock' = [s \in Sales |-> IF saleLock[s] = r THEN NoRequest ELSE saleLock[s]]
  /\ UNCHANGED seriesLock

\* The end of r's transaction, whichever way it ends, frees its rows.
ReleaseLocks(r) ==
  /\ saleLock' = [s \in Sales |-> IF saleLock[s] = r THEN NoRequest ELSE saleLock[s]]
  /\ seriesLock' = [x \in Series |-> IF seriesLock[x] = r THEN NoRequest ELSE seriesLock[x]]

-----------------------------------------------------------------------------
(* issue(): the transaction that creates the document. *)

BeginIssue(r, s, x) ==
  /\ pc[r] = "idle"
  /\ <<s, x>> \in Billable
  /\ LockSale(r, s)
  /\ reqSale' = [reqSale EXCEPT ![r] = s]
  /\ reqSeries' = [reqSeries EXCEPT ![r] = x]
  /\ Goto(r, "issueLocked")
  /\ UNCHANGED <<saleStatus, seriesVars, docVars, providerVars, reqDoc, reqNumber>>

\* The status of the sale and its existing primary document, read behind the
\* lock.  A failed check raises 409, which is Abort.
CheckSale(r) ==
  /\ pc[r] = "issueLocked"
  /\ saleStatus[reqSale[r]] # "CANCELLED"
  /\ DocumentsOf(reqSale[r]) = {}
  /\ Goto(r, "issueChecked")
  /\ UNCHANGED <<saleVars, seriesVars, docVars, providerVars, targets>>

\* Mutated form: the number is read and incremented in memory, without a lock.
AllocateUnlocked(r) ==
  /\ pc[r] = "issueChecked"
  /\ lastNumber[reqSeries[r]] < MaxFiscalNumber
  /\ reqNumber' = [reqNumber EXCEPT ![r] = lastNumber[reqSeries[r]] + 1]
  /\ Goto(r, "issueNumbered")
  /\ UNCHANGED <<saleVars, seriesVars, docVars, providerVars, reqSale, reqSeries, reqDoc>>

\* UPDATE fiscal_series SET current_number = current_number + 1: it takes the
\* row and keeps it, so the new value stays private until the commit.
AllocateNext(r) ==
  /\ pc[r] = "issueChecked"
  /\ seriesLock[reqSeries[r]] = NoRequest
  /\ lastNumber[reqSeries[r]] < MaxFiscalNumber
  /\ seriesLock' = [seriesLock EXCEPT ![reqSeries[r]] = r]
  /\ reqNumber' = [reqNumber EXCEPT ![r] = lastNumber[reqSeries[r]] + 1]
  /\ Goto(r, "issueNumbered")
  /\ UNCHANGED <<saleVars, lastNumber, docVars, providerVars, reqSale, reqSeries, reqDoc>>

\* The insertion of the document and the commit of number and row together.
\* The unique index electronic_documents_one_primary_per_sale rejects a
\* second primary document (P2002, then 409), which is Abort.
CommitDocument(r, d) ==
  /\ pc[r] = "issueNumbered"
  /\ docStatus[d] = "NONE"
  /\ DocumentsOf(reqSale[r]) = {}
  /\ LET s == reqSale[r]
         x == reqSeries[r]
     IN  /\ lastNumber' = [lastNumber EXCEPT ![x] = reqNumber[r]]
         /\ docStatus' = [docStatus EXCEPT ![d] = "CREATED"]
         /\ docSale' = [docSale EXCEPT ![d] = s]
         /\ docSeries' = [docSeries EXCEPT ![d] = x]
         /\ docNumber' = [docNumber EXCEPT ![d] = reqNumber[r]]
  /\ ReleaseLocks(r)
  /\ ForgetTransaction(r)
  /\ reqDoc' = [reqDoc EXCEPT ![r] = d]
  /\ Goto(r, "submit")
  /\ UNCHANGED <<saleStatus, submissions, providerVars>>

-----------------------------------------------------------------------------
(* runSubmissionFlow(): shared by issue() and retrySubmission(). *)

\* Mutated forms: a submission under way, or a document rejected, is sent again.
ResubmitPending  == {"SUBMISSION_FAILED", "SUBMITTED"}
ResubmitRejected == {"SUBMISSION_FAILED", "REJECTED"}

Resubmittable == {"SUBMISSION_FAILED"}

\* One conditional UPDATE ... WHERE status IN (allowed) is the whole
\* transaction; it updates no row when the status is another one.
TransitionToSubmitted(r, d, allowed) ==
  /\ docStatus[d] \in allowed
  /\ submissions[d] < MaxSubmissions
  /\ docStatus' = [docStatus EXCEPT ![d] = "SUBMITTED"]
  /\ submissions' = [submissions EXCEPT ![d] = @ + 1]
  /\ Goto(r, "send")

SubmitIssued(r) ==
  /\ pc[r] = "submit"
  /\ TransitionToSubmitted(r, reqDoc[r], {"CREATED"})
  /\ UNCHANGED <<saleVars, seriesVars, docSale, docSeries, docNumber,
                 providerVars, targets>>

RetrySubmission(r, d) ==
  /\ pc[r] = "idle"
  /\ TransitionToSubmitted(r, d, Resubmittable)
  /\ reqDoc' = [reqDoc EXCEPT ![r] = d]
  /\ UNCHANGED <<saleVars, seriesVars, docSale, docSeries, docNumber,
                 providerVars, reqSale, reqSeries, reqNumber>>

CallProvider(r) ==
  /\ pc[r] = "send"
  /\ inTransit' = [inTransit EXCEPT ![reqDoc[r]] = @ + 1]
  /\ Goto(r, "waiting")
  /\ UNCHANGED <<saleVars, seriesVars, docVars, processed, verdict,
                 targets>>

\* The provider registers a document that reached it, even when the request
\* that sent it has died meanwhile.
ProviderProcesses(d, v) ==
  /\ inTransit[d] > 0
  /\ inTransit' = [inTransit EXCEPT ![d] = @ - 1]
  /\ processed' = [processed EXCEPT ![d] = @ + 1]
  /\ verdict' = [verdict EXCEPT ![d] = v]
  /\ UNCHANGED <<saleVars, seriesVars, docVars, pc, targets>>

ReceiveAnswer(r) ==
  /\ pc[r] = "waiting"
  /\ verdict[reqDoc[r]] # "NONE"
  /\ Goto(r, IF verdict[reqDoc[r]] = "ACCEPTED" THEN "accepted" ELSE "rejected")
  /\ UNCHANGED <<saleVars, seriesVars, docVars, providerVars, targets>>

\* RetryableProviderSubmissionError: the adapter knows that the document was
\* neither received nor processed.
ProviderRefuses(r) ==
  /\ pc[r] = "waiting"
  /\ inTransit[reqDoc[r]] > 0
  /\ inTransit' = [inTransit EXCEPT ![reqDoc[r]] = @ - 1]
  /\ Goto(r, "refused")
  /\ UNCHANGED <<saleVars, seriesVars, docVars, processed, verdict,
                 targets>>

\* Any other error: a timeout, a lost answer.
LoseAnswer(r) ==
  /\ pc[r] = "waiting"
  /\ Goto(r, "unknown")
  /\ UNCHANGED <<saleVars, seriesVars, docVars, providerVars, targets>>

\* What the three final transactions write: an unconditional UPDATE by id.
Persist(r, status) ==
  /\ docStatus' = [docStatus EXCEPT ![reqDoc[r]] = status]
  /\ End(r)
  /\ UNCHANGED <<saleVars, seriesVars, docSale, docSeries, docNumber, submissions,
                 providerVars>>

PersistProviderOutcome(r) ==
  \/ pc[r] = "accepted" /\ Persist(r, "ACCEPTED")
  \/ pc[r] = "rejected" /\ Persist(r, "REJECTED")

PersistSubmissionFailed(r) ==
  pc[r] = "refused" /\ Persist(r, "SUBMISSION_FAILED")

\* Mutated form: an unknown outcome is taken for a technical failure.
UnknownIsFailure(r) == pc[r] = "unknown" /\ Persist(r, "SUBMISSION_FAILED")

\* Only diagnostic columns are written: the status stays what it is.
PersistUnknownOutcome(r) ==
  pc[r] = "unknown" /\ Persist(r, docStatus[reqDoc[r]])

-----------------------------------------------------------------------------
(* SalesService.cancel(), as far as fiscal documents are concerned. *)

BeginCancel(r, s) ==
  /\ pc[r] = "idle"
  /\ LockSale(r, s)
  /\ reqSale' = [reqSale EXCEPT ![r] = s]
  /\ Goto(r, "cancelLocked")
  /\ UNCHANGED <<saleStatus, seriesVars, docVars, providerVars, reqSeries, reqDoc, reqNumber>>

CheckCancellable(r) ==
  /\ pc[r] = "cancelLocked"
  /\ saleStatus[reqSale[r]] # "CANCELLED"
  /\ \A d \in DocumentsOf(reqSale[r]) : docStatus[d] \notin Blocking
  /\ Goto(r, "cancelChecked")
  /\ UNCHANGED <<saleVars, seriesVars, docVars, providerVars, targets>>

CommitCancel(r) ==
  /\ pc[r] = "cancelChecked"
  /\ saleStatus' = [saleStatus EXCEPT ![reqSale[r]] = "CANCELLED"]
  /\ ReleaseLocks(r)
  /\ End(r)
  /\ UNCHANGED <<lastNumber, docVars, providerVars>>

-----------------------------------------------------------------------------

\* The answer to a failed check: 409, and the transaction is rolled back.
MustReject(r) ==
  \/ /\ pc[r] = "issueLocked"
     /\ \/ saleStatus[reqSale[r]] = "CANCELLED"
        \/ DocumentsOf(reqSale[r]) # {}
  \/ /\ pc[r] = "issueChecked"
     /\ seriesLock[reqSeries[r]] = NoRequest
     /\ lastNumber[reqSeries[r]] >= MaxFiscalNumber
  \/ pc[r] = "issueNumbered" /\ DocumentsOf(reqSale[r]) # {}
  \/ /\ pc[r] = "cancelLocked"
     /\ \/ saleStatus[reqSale[r]] = "CANCELLED"
        \/ \E d \in DocumentsOf(reqSale[r]) : docStatus[d] \in Blocking

RollBack(r) ==
  /\ ReleaseLocks(r)
  /\ End(r)
  /\ UNCHANGED <<saleStatus, lastNumber, docVars, providerVars>>

Reject(r) == MustReject(r) /\ RollBack(r)

\* Any other exception: a lost connection, the transaction timeout, a
\* failing audit record.
Abort(r) == pc[r] \in InTransaction /\ RollBack(r)

\* The process dies between two transactions of the submission flow, or one
\* of them fails and is rolled back: nothing undoes what came before.
Crash(r) ==
  /\ pc[r] \in InSubmission
  /\ End(r)
  /\ UNCHANGED <<saleVars, seriesVars, docVars, providerVars>>

\* The next statement of r, when r is past its first one.
Step(r) ==
  \/ CheckSale(r)
  \/ AllocateNext(r)
  \/ \E d \in Docs : CommitDocument(r, d)
  \/ SubmitIssued(r)
  \/ CallProvider(r)
  \/ ReceiveAnswer(r)
  \/ ProviderRefuses(r)
  \/ LoseAnswer(r)
  \/ PersistProviderOutcome(r)
  \/ PersistSubmissionFailed(r)
  \/ PersistUnknownOutcome(r)
  \/ CheckCancellable(r)
  \/ CommitCancel(r)
  \/ Reject(r)

Begin(r) ==
  \/ \E s \in Sales, x \in Series : BeginIssue(r, s, x)
  \/ \E d \in Docs : RetrySubmission(r, d)
  \/ \E s \in Sales : BeginCancel(r, s)

Provider == \E d \in Docs, v \in Verdict \ {"NONE"} : ProviderProcesses(d, v)

Next ==
  \/ \E r \in Requests : Begin(r) \/ Step(r) \/ Abort(r) \/ Crash(r)
  \/ Provider

Spec == Init /\ [][Next]_vars

\* The server executes the statements of the requests it has begun.
\* PostgreSQL queues the transactions that wait for a row, so the wait for
\* the series is not overtaken for ever (strong fairness).
FairSpec ==
  Spec /\ \A r \in Requests : WF_vars(Step(r)) /\ SF_vars(AllocateNext(r))

-----------------------------------------------------------------------------
(* Properties *)

\* Every row and every request is in a state the schema and the code allow,
\* and no series runs past MAX_FISCAL_NUMBER.
TypeOK ==
  /\ saleStatus \in [Sales -> SaleStatus]
  /\ saleLock \in [Sales -> Requests \cup {NoRequest}]
  /\ lastNumber \in [Series -> 0..MaxFiscalNumber]
  /\ seriesLock \in [Series -> Requests \cup {NoRequest}]
  /\ docStatus \in [Docs -> DocumentStatus]
  /\ docSale \in [Docs -> Sales \cup {NoSale}]
  /\ docSeries \in [Docs -> Series \cup {NoSeries}]
  /\ docNumber \in [Docs -> 0..MaxFiscalNumber]
  /\ submissions \in [Docs -> 0..MaxSubmissions]
  /\ inTransit \in [Docs -> Nat]
  /\ processed \in [Docs -> Nat]
  /\ verdict \in [Docs -> Verdict]
  /\ pc \in [Requests -> Places]
  /\ reqSale \in [Requests -> Sales \cup {NoSale}]
  /\ reqSeries \in [Requests -> Series \cup {NoSeries}]
  /\ reqDoc \in [Requests -> Docs \cup {NoDoc}]
  /\ reqNumber \in [Requests -> 0..MaxFiscalNumber]

\* A cancelled sale never has a document in progress or accepted: the race
\* that the lock shared by createFiscalDocument and cancel closes.  It also
\* relies on REJECTED being final, since submissions do not lock the sale.
NoLiveDocumentOnCancelledSale ==
  \A s \in Sales : saleStatus[s] = "CANCELLED" =>
    \A d \in DocumentsOf(s) : docStatus[d] \notin Blocking

\* Behind the sale's lock, the check for an existing primary document stays
\* true up to the insertion, so the unique index never has to fire.
PrimaryIndexNeverFires ==
  \A r \in Requests : pc[r] = "issueNumbered" => DocumentsOf(reqSale[r]) = {}

\* The numbers of a series are 1, 2, ..., current_number, each carried by
\* one document: a transaction rolled back after allocateNext leaves no gap.
GapFreeNumbers ==
  \A x \in Series :
    LET issued == {d \in Docs : docStatus[d] # "NONE" /\ docSeries[d] = x}
    IN  /\ {docNumber[d] : d \in issued} = 1..lastNumber[x]
        /\ \A d, e \in issued : docNumber[d] = docNumber[e] => d = e

\* Whatever is lost, retried or crashed, the provider registers a document
\* at most once.
ProcessedAtMostOnce == \A d \in Docs : processed[d] <= 1

\* What the system records about a document is what the provider did: an
\* outcome it decided, and SUBMISSION_FAILED only for what it neither
\* registered nor will.
AgreesWithProvider ==
  \A d \in Docs :
    /\ docStatus[d] \in {"ACCEPTED", "REJECTED"} => verdict[d] = docStatus[d]
    /\ docStatus[d] \in {"CREATED", "SUBMISSION_FAILED"} =>
         processed[d] = 0 /\ inTransit[d] = 0

KeepsIssued ==
  \A d \in Docs : docStatus[d] # "NONE" =>
    /\ docNumber'[d] = docNumber[d] /\ docSeries'[d] = docSeries[d]
    /\ docSale'[d] = docSale[d]
    /\ docStatus[d] \in {"ACCEPTED", "REJECTED"} => docStatus'[d] = docStatus[d]

\* An issued document keeps its number, series and sale for ever, and its
\* status once the provider's outcome is recorded, although the final
\* updates carry no condition on the status.
OutcomeIsFinal == [][KeepsIssued]_vars

\* Every request ends: the two rows an issue locks never close a cycle with
\* those of other requests.
RequestsEnd == \A r \in Requests : pc[r] # "idle" ~> pc[r] = "idle"
=============================================================================
