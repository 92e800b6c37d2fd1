----------------------- MODULE FiscalIssuance_proofs -----------------------
(***************************************************************************)
(* Proofs about FiscalIssuance: for every number of sales, documents,      *)
(* series, requests and retries.                                           *)
(***************************************************************************)
EXTENDS FiscalIssuance, TLAPS

-----------------------------------------------------------------------------
(* The inductive invariant. *)

\* A transaction holds the rows it has locked, and the number it allocated
\* is the one after the committed counter.
Locking ==
  \A r \in Requests :
    /\ pc[r] \in InTransaction =>
         reqSale[r] \in Sales /\ saleLock[reqSale[r]] = r
    /\ pc[r] \in InIssueTransaction => reqSeries[r] \in Series
    /\ pc[r] = "issueNumbered" =>
         /\ seriesLock[reqSeries[r]] = r
         /\ reqNumber[r] = lastNumber[reqSeries[r]] + 1

\* What a transaction has checked behind the lock of its sale stays true.
Checked ==
  \A r \in Requests :
    /\ pc[r] \in {"issueChecked", "issueNumbered"} =>
         /\ saleStatus[reqSale[r]] = "ACTIVE"
         /\ DocumentsOf(reqSale[r]) = {}
    /\ pc[r] = "cancelChecked" =>
         \A d \in DocumentsOf(reqSale[r]) : docStatus[d] \notin Blocking

\* A document is submitted by at most one request at a time, and its status
\* follows that request.
Submitting ==
  /\ \A r \in Requests :
       pc[r] \in InSubmission =>
         /\ reqDoc[r] \in Docs
         /\ pc[r] = "submit" => docStatus[reqDoc[r]] = "CREATED"
         /\ pc[r] # "submit" => docStatus[reqDoc[r]] = "SUBMITTED"
  /\ \A q, r \in Requests :
       pc[q] \in InSubmission /\ pc[r] \in InSubmission /\ reqDoc[q] = reqDoc[r]
         => q = r

\* At most one submission of a document is ever with the provider.
WithProvider ==
  /\ \A d \in Docs :
       /\ inTransit[d] + processed[d] <= 1
       /\ processed[d] = 0 => verdict[d] = "NONE"
       /\ docStatus[d] \in {"NONE", "CREATED", "SUBMISSION_FAILED"} =>
            inTransit[d] = 0 /\ processed[d] = 0
       /\ docStatus[d] \in {"ACCEPTED", "REJECTED"} => verdict[d] = docStatus[d]
  /\ \A r \in Requests :
       /\ pc[r] \in {"send", "refused"} =>
            inTransit[reqDoc[r]] = 0 /\ processed[reqDoc[r]] = 0
       /\ pc[r] = "accepted" => verdict[reqDoc[r]] = "ACCEPTED"
       /\ pc[r] = "rejected" => verdict[reqDoc[r]] = "REJECTED"

IInv ==
  /\ TypeOK
  /\ Locking
  /\ Checked
  /\ Submitting
  /\ WithProvider
  /\ GapFreeNumbers
  /\ NoLiveDocumentOnCancelledSale

-----------------------------------------------------------------------------
(* Each part is preserved by every step. *)

LEMMA OneAtMost ==
  ASSUME NEW m \in Nat, NEW n \in Nat, m > 0, m + n <= 1
  PROVE  m = 1 /\ n = 0
OBVIOUS

LEMMA NextNumber ==
  ASSUME NEW n \in Nat
  PROVE  (1..n) \cup {n + 1} = 1..(n + 1)
OBVIOUS

\* Every step keeps every variable in its type.
LEMMA TypeStep ==
  ASSUME TypeOK, Locking, Submitting
  PROVE  [Next]_vars => TypeOK'
<1> USE BoundsAssumption, NoneAssumption
    DEF TypeOK, Locking, Submitting, Places, InTransaction, InIssueTransaction, InCancelTransaction,
        InSubmission,
        DocumentStatus, SaleStatus, Verdict, Goto,
        vars, saleVars, seriesVars, docVars, providerVars, targets
<1>1. ASSUME NEW r \in Requests, NEW s \in Sales, NEW x \in Series, BeginIssue(r, s, x)
      PROVE  TypeOK'
  BY <1>1 DEF BeginIssue, LockSale
<1>2. ASSUME NEW r \in Requests, CheckSale(r)
      PROVE  TypeOK'
  BY <1>2 DEF CheckSale
<1>3. ASSUME NEW r \in Requests, AllocateNext(r)
      PROVE  TypeOK'
  BY <1>3 DEF AllocateNext
<1>4. ASSUME NEW r \in Requests, NEW d \in Docs, CommitDocument(r, d)
      PROVE  TypeOK'
  BY <1>4 DEF CommitDocument, ReleaseLocks, ForgetTransaction
<1>5. ASSUME NEW r \in Requests, SubmitIssued(r)
      PROVE  TypeOK'
  BY <1>5 DEF SubmitIssued, TransitionToSubmitted
<1>6. ASSUME NEW r \in Requests, NEW d \in Docs, RetrySubmission(r, d)
      PROVE  TypeOK'
  BY <1>6 DEF RetrySubmission, TransitionToSubmitted, Resubmittable
<1>7. ASSUME NEW r \in Requests, CallProvider(r)
      PROVE  TypeOK'
  BY <1>7 DEF CallProvider
<1>8. ASSUME NEW d \in Docs, NEW v \in Verdict \ {"NONE"}, ProviderProcesses(d, v)
      PROVE  TypeOK'
  BY <1>8 DEF ProviderProcesses
<1>9. ASSUME NEW r \in Requests, ReceiveAnswer(r)
      PROVE  TypeOK'
  BY <1>9 DEF ReceiveAnswer
<1>10. ASSUME NEW r \in Requests, ProviderRefuses(r)
      PROVE  TypeOK'
  BY <1>10 DEF ProviderRefuses
<1>11. ASSUME NEW r \in Requests, LoseAnswer(r)
      PROVE  TypeOK'
  BY <1>11 DEF LoseAnswer
<1>12. ASSUME NEW r \in Requests, PersistProviderOutcome(r)
      PROVE  TypeOK'
  <2>1. CASE pc[r] = "accepted" /\ Persist(r, "ACCEPTED")
    BY <2>1 DEF Persist, End, ForgetTransaction
  <2>2. CASE pc[r] = "rejected" /\ Persist(r, "REJECTED")
    BY <2>2 DEF Persist, End, ForgetTransaction
  <2>. QED
    BY <1>12, <2>1, <2>2 DEF PersistProviderOutcome
<1>13. ASSUME NEW r \in Requests, PersistSubmissionFailed(r)
      PROVE  TypeOK'
  BY <1>13 DEF PersistSubmissionFailed, Persist, End, ForgetTransaction
<1>14. ASSUME NEW r \in Requests, PersistUnknownOutcome(r)
      PROVE  TypeOK'
  BY <1>14 DEF PersistUnknownOutcome, Persist, End, ForgetTransaction
<1>15. ASSUME NEW r \in Requests, NEW s \in Sales, BeginCancel(r, s)
      PROVE  TypeOK'
  BY <1>15 DEF BeginCancel, LockSale
<1>16. ASSUME NEW r \in Requests, CheckCancellable(r)
      PROVE  TypeOK'
  BY <1>16 DEF CheckCancellable
<1>17. ASSUME NEW r \in Requests, CommitCancel(r)
      PROVE  TypeOK'
  BY <1>17 DEF CommitCancel, ReleaseLocks, End, ForgetTransaction
<1>18. ASSUME NEW r \in Requests, RollBack(r)
      PROVE  TypeOK'
  BY <1>18 DEF RollBack, ReleaseLocks, End, ForgetTransaction
<1>19. ASSUME NEW r \in Requests, Crash(r)
      PROVE  TypeOK'
  BY <1>19 DEF Crash, End, ForgetTransaction
<1>20. CASE UNCHANGED vars
  BY <1>20
<1>. QED
  BY <1>1, <1>2, <1>3, <1>4, <1>5, <1>6, <1>7, <1>8, <1>9, <1>10,
     <1>11, <1>12, <1>13, <1>14, <1>15, <1>16, <1>17, <1>18, <1>19, <1>20
     DEF Next, Begin, Step, Provider, Reject, Abort

\* A step of one request leaves the locks of the others alone.
LEMMA LockingStep ==
  ASSUME TypeOK, Locking
  PROVE  [Next]_vars => Locking'
<1> USE BoundsAssumption, NoneAssumption
    DEF TypeOK, Locking, InTransaction, InIssueTransaction, InCancelTransaction,
        InSubmission, Goto,
        vars, saleVars, seriesVars, docVars, providerVars, targets
<1>1. ASSUME NEW r \in Requests, NEW s \in Sales, NEW x \in Series, BeginIssue(r, s, x)
      PROVE  Locking'
  BY <1>1 DEF BeginIssue, LockSale
<1>2. ASSUME NEW r \in Requests, CheckSale(r)
      PROVE  Locking'
  BY <1>2 DEF CheckSale
<1>3. ASSUME NEW r \in Requests, AllocateNext(r)
      PROVE  Locking'
  BY <1>3 DEF AllocateNext
<1>4. ASSUME NEW r \in Requests, NEW d \in Docs, CommitDocument(r, d)
      PROVE  Locking'
  BY <1>4 DEF CommitDocument, ReleaseLocks, ForgetTransaction
<1>5. ASSUME NEW r \in Requests, SubmitIssued(r)
      PROVE  Locking'
  BY <1>5 DEF SubmitIssued, TransitionToSubmitted
<1>6. ASSUME NEW r \in Requests, NEW d \in Docs, RetrySubmission(r, d)
      PROVE  Locking'
  BY <1>6 DEF RetrySubmission, TransitionToSubmitted, Resubmittable
<1>7. ASSUME NEW r \in Requests, CallProvider(r)
      PROVE  Locking'
  BY <1>7 DEF CallProvider
<1>8. ASSUME NEW d \in Docs, NEW v \in Verdict \ {"NONE"}, ProviderProcesses(d, v)
      PROVE  Locking'
  BY <1>8 DEF ProviderProcesses
<1>9. ASSUME NEW r \in Requests, ReceiveAnswer(r)
      PROVE  Locking'
  BY <1>9 DEF ReceiveAnswer
<1>10. ASSUME NEW r \in Requests, ProviderRefuses(r)
      PROVE  Locking'
  BY <1>10 DEF ProviderRefuses
<1>11. ASSUME NEW r \in Requests, LoseAnswer(r)
      PROVE  Locking'
  BY <1>11 DEF LoseAnswer
<1>12. ASSUME NEW r \in Requests, PersistProviderOutcome(r)
      PROVE  Locking'
  <2>1. CASE pc[r] = "accepted" /\ Persist(r, "ACCEPTED")
    BY <2>1 DEF Persist, End, ForgetTransaction
  <2>2. CASE pc[r] = "rejected" /\ Persist(r, "REJECTED")
    BY <2>2 DEF Persist, End, ForgetTransaction
  <2>. QED
    BY <1>12, <2>1, <2>2 DEF PersistProviderOutcome
<1>13. ASSUME NEW r \in Requests, PersistSubmissionFailed(r)
      PROVE  Locking'
  BY <1>13 DEF PersistSubmissionFailed, Persist, End, ForgetTransaction
<1>14. ASSUME NEW r \in Requests, PersistUnknownOutcome(r)
      PROVE  Locking'
  BY <1>14 DEF PersistUnknownOutcome, Persist, End, ForgetTransaction
<1>15. ASSUME NEW r \in Requests, NEW s \in Sales, BeginCancel(r, s)
      PROVE  Locking'
  BY <1>15 DEF BeginCancel, LockSale
<1>16. ASSUME NEW r \in Requests, CheckCancellable(r)
      PROVE  Locking'
  BY <1>16 DEF CheckCancellable
<1>17. ASSUME NEW r \in Requests, CommitCancel(r)
      PROVE  Locking'
  BY <1>17 DEF CommitCancel, ReleaseLocks, End, ForgetTransaction
<1>18. ASSUME NEW r \in Requests, RollBack(r)
      PROVE  Locking'
  BY <1>18 DEF RollBack, ReleaseLocks, End, ForgetTransaction
<1>19. ASSUME NEW r \in Requests, Crash(r)
      PROVE  Locking'
  BY <1>19 DEF Crash, End, ForgetTransaction
<1>20. CASE UNCHANGED vars
  BY <1>20
<1>. QED
  BY <1>1, <1>2, <1>3, <1>4, <1>5, <1>6, <1>7, <1>8, <1>9, <1>10,
     <1>11, <1>12, <1>13, <1>14, <1>15, <1>16, <1>17, <1>18, <1>19, <1>20
     DEF Next, Begin, Step, Provider, Reject, Abort

\* A document in the hands of one request is not taken by another one.
LEMMA SubmittingStep ==
  ASSUME TypeOK, Locking, Submitting
  PROVE  [Next]_vars => Submitting'
<1> USE BoundsAssumption, NoneAssumption
    DEF TypeOK, Locking, Submitting, InTransaction, InIssueTransaction, InCancelTransaction,
        InSubmission, Goto,
        vars, saleVars, seriesVars, docVars, providerVars, targets
<1>1. ASSUME NEW r \in Requests, NEW s \in Sales, NEW x \in Series, BeginIssue(r, s, x)
      PROVE  Submitting'
  BY <1>1 DEF BeginIssue, LockSale
<1>2. ASSUME NEW r \in Requests, CheckSale(r)
      PROVE  Submitting'
  BY <1>2 DEF CheckSale
<1>3. ASSUME NEW r \in Requests, AllocateNext(r)
      PROVE  Submitting'
  BY <1>3 DEF AllocateNext
<1>4. ASSUME NEW r \in Requests, NEW d \in Docs, CommitDocument(r, d)
      PROVE  Submitting'
  BY <1>4 DEF CommitDocument, ReleaseLocks, ForgetTransaction
<1>5. ASSUME NEW r \in Requests, SubmitIssued(r)
      PROVE  Submitting'
  BY <1>5 DEF SubmitIssued, TransitionToSubmitted
<1>6. ASSUME NEW r \in Requests, NEW d \in Docs, RetrySubmission(r, d)
      PROVE  Submitting'
  BY <1>6 DEF RetrySubmission, TransitionToSubmitted, Resubmittable
<1>7. ASSUME NEW r \in Requests, CallProvider(r)
      PROVE  Submitting'
  BY <1>7 DEF CallProvider
<1>8. ASSUME NEW d \in Docs, NEW v \in Verdict \ {"NONE"}, ProviderProcesses(d, v)
      PROVE  Submitting'
  BY <1>8 DEF ProviderProcesses
<1>9. ASSUME NEW r \in Requests, ReceiveAnswer(r)
      PROVE  Submitting'
  BY <1>9 DEF ReceiveAnswer
<1>10. ASSUME NEW r \in Requests, ProviderRefuses(r)
      PROVE  Submitting'
  BY <1>10 DEF ProviderRefuses
<1>11. ASSUME NEW r \in Requests, LoseAnswer(r)
      PROVE  Submitting'
  BY <1>11 DEF LoseAnswer
<1>12. ASSUME NEW r \in Requests, PersistProviderOutcome(r)
      PROVE  Submitting'
  <2>1. CASE pc[r] = "accepted" /\ Persist(r, "ACCEPTED")
    BY <2>1 DEF Persist, End, ForgetTransaction
  <2>2. CASE pc[r] = "rejected" /\ Persist(r, "REJECTED")
    BY <2>2 DEF Persist, End, ForgetTransaction
  <2>. QED
    BY <1>12, <2>1, <2>2 DEF PersistProviderOutcome
<1>13. ASSUME NEW r \in Requests, PersistSubmissionFailed(r)
      PROVE  Submitting'
  BY <1>13 DEF PersistSubmissionFailed, Persist, End, ForgetTransaction
<1>14. ASSUME NEW r \in Requests, PersistUnknownOutcome(r)
      PROVE  Submitting'
  BY <1>14 DEF PersistUnknownOutcome, Persist, End, ForgetTransaction
<1>15. ASSUME NEW r \in Requests, NEW s \in Sales, BeginCancel(r, s)
      PROVE  Submitting'
  BY <1>15 DEF BeginCancel, LockSale
<1>16. ASSUME NEW r \in Requests, CheckCancellable(r)
      PROVE  Submitting'
  BY <1>16 DEF CheckCancellable
<1>17. ASSUME NEW r \in Requests, CommitCancel(r)
      PROVE  Submitting'
  BY <1>17 DEF CommitCancel, ReleaseLocks, End, ForgetTransaction
<1>18. ASSUME NEW r \in Requests, RollBack(r)
      PROVE  Submitting'
  BY <1>18 DEF RollBack, ReleaseLocks, End, ForgetTransaction
<1>19. ASSUME NEW r \in Requests, Crash(r)
      PROVE  Submitting'
  BY <1>19 DEF Crash, End, ForgetTransaction
<1>20. CASE UNCHANGED vars
  BY <1>20
<1>. QED
  BY <1>1, <1>2, <1>3, <1>4, <1>5, <1>6, <1>7, <1>8, <1>9, <1>10,
     <1>11, <1>12, <1>13, <1>14, <1>15, <1>16, <1>17, <1>18, <1>19, <1>20
     DEF Next, Begin, Step, Provider, Reject, Abort

\* Documents of a locked sale appear only under its lock, and a rejected one
\* is never submitted again.
LEMMA CheckedStep ==
  ASSUME TypeOK, Locking, Submitting, Checked
  PROVE  [Next]_vars => Checked'
<1> USE BoundsAssumption, NoneAssumption
    DEF TypeOK, Locking, Submitting, Checked, InTransaction, InIssueTransaction, InCancelTransaction,
        InSubmission,
        DocumentsOf, Blocking, DocumentStatus, Goto,
        vars, saleVars, seriesVars, docVars, providerVars, targets
<1>1. ASSUME NEW r \in Requests, NEW s \in Sales, NEW x \in Series, BeginIssue(r, s, x)
      PROVE  Checked'
  BY <1>1 DEF BeginIssue, LockSale
<1>2. ASSUME NEW r \in Requests, CheckSale(r)
      PROVE  Checked'
  <2>1. \A s : DocumentsOf(s)' = DocumentsOf(s)
    BY <1>2 DEF CheckSale
  <2>2. reqSale[r] \in Sales /\ saleStatus[reqSale[r]] = "ACTIVE"
    BY <1>2 DEF CheckSale, SaleStatus
  <2>3. DocumentsOf(reqSale[r]) = {}
    BY <1>2 DEF CheckSale
  <2>. HIDE DEF DocumentsOf
  <2>. QED
    BY <1>2, <2>1, <2>2, <2>3 DEF CheckSale
<1>3. ASSUME NEW r \in Requests, AllocateNext(r)
      PROVE  Checked'
  BY <1>3 DEF AllocateNext
<1>4. ASSUME NEW r \in Requests, NEW d \in Docs, CommitDocument(r, d)
      PROVE  Checked'
  BY <1>4 DEF CommitDocument, ReleaseLocks, ForgetTransaction
<1>5. ASSUME NEW r \in Requests, SubmitIssued(r)
      PROVE  Checked'
  BY <1>5 DEF SubmitIssued, TransitionToSubmitted
<1>6. ASSUME NEW r \in Requests, NEW d \in Docs, RetrySubmission(r, d)
      PROVE  Checked'
  BY <1>6 DEF RetrySubmission, TransitionToSubmitted, Resubmittable
<1>7. ASSUME NEW r \in Requests, CallProvider(r)
      PROVE  Checked'
  BY <1>7 DEF CallProvider
<1>8. ASSUME NEW d \in Docs, NEW v \in Verdict \ {"NONE"}, ProviderProcesses(d, v)
      PROVE  Checked'
  BY <1>8 DEF ProviderProcesses
<1>9. ASSUME NEW r \in Requests, ReceiveAnswer(r)
      PROVE  Checked'
  BY <1>9 DEF ReceiveAnswer
<1>10. ASSUME NEW r \in Requests, ProviderRefuses(r)
      PROVE  Checked'
  BY <1>10 DEF ProviderRefuses
<1>11. ASSUME NEW r \in Requests, LoseAnswer(r)
      PROVE  Checked'
  BY <1>11 DEF LoseAnswer
<1>12. ASSUME NEW r \in Requests, PersistProviderOutcome(r)
      PROVE  Checked'
  <2>1. CASE pc[r] = "accepted" /\ Persist(r, "ACCEPTED")
    BY <2>1 DEF Persist, End, ForgetTransaction
  <2>2. CASE pc[r] = "rejected" /\ Persist(r, "REJECTED")
    BY <2>2 DEF Persist, End, ForgetTransaction
  <2>. QED
    BY <1>12, <2>1, <2>2 DEF PersistProviderOutcome
<1>13. ASSUME NEW r \in Requests, PersistSubmissionFailed(r)
      PROVE  Checked'
  BY <1>13 DEF PersistSubmissionFailed, Persist, End, ForgetTransaction
<1>14. ASSUME NEW r \in Requests, PersistUnknownOutcome(r)
      PROVE  Checked'
  BY <1>14 DEF PersistUnknownOutcome, Persist, End, ForgetTransaction
<1>15. ASSUME NEW r \in Requests, NEW s \in Sales, BeginCancel(r, s)
      PROVE  Checked'
  BY <1>15 DEF BeginCancel, LockSale
<1>16. ASSUME NEW r \in Requests, CheckCancellable(r)
      PROVE  Checked'
  BY <1>16 DEF CheckCancellable
<1>17. ASSUME NEW r \in Requests, CommitCancel(r)
      PROVE  Checked'
  BY <1>17 DEF CommitCancel, ReleaseLocks, End, ForgetTransaction
<1>18. ASSUME NEW r \in Requests, RollBack(r)
      PROVE  Checked'
  BY <1>18 DEF RollBack, ReleaseLocks, End, ForgetTransaction
<1>19. ASSUME NEW r \in Requests, Crash(r)
      PROVE  Checked'
  BY <1>19 DEF Crash, End, ForgetTransaction
<1>20. CASE UNCHANGED vars
  BY <1>20
<1>. QED
  BY <1>1, <1>2, <1>3, <1>4, <1>5, <1>6, <1>7, <1>8, <1>9, <1>10,
     <1>11, <1>12, <1>13, <1>14, <1>15, <1>16, <1>17, <1>18, <1>19, <1>20
     DEF Next, Begin, Step, Provider, Reject, Abort

\* A second submission needs the certainty that the first one was refused.
LEMMA WithProviderStep ==
  ASSUME TypeOK, Submitting, WithProvider
  PROVE  [Next]_vars => WithProvider'
<1> USE BoundsAssumption, NoneAssumption
    DEF TypeOK, Submitting, WithProvider, InTransaction, InIssueTransaction, InCancelTransaction,
        InSubmission,
        DocumentStatus, Verdict, Goto,
        vars, saleVars, seriesVars, docVars, providerVars, targets
<1>1. ASSUME NEW r \in Requests, NEW s \in Sales, NEW x \in Series, BeginIssue(r, s, x)
      PROVE  WithProvider'
  BY <1>1 DEF BeginIssue, LockSale
<1>2. ASSUME NEW r \in Requests, CheckSale(r)
      PROVE  WithProvider'
  BY <1>2 DEF CheckSale
<1>3. ASSUME NEW r \in Requests, AllocateNext(r)
      PROVE  WithProvider'
  BY <1>3 DEF AllocateNext
<1>4. ASSUME NEW r \in Requests, NEW d \in Docs, CommitDocument(r, d)
      PROVE  WithProvider'
  BY <1>4 DEF CommitDocument, ReleaseLocks, ForgetTransaction
<1>5. ASSUME NEW r \in Requests, SubmitIssued(r)
      PROVE  WithProvider'
  BY <1>5 DEF SubmitIssued, TransitionToSubmitted
<1>6. ASSUME NEW r \in Requests, NEW d \in Docs, RetrySubmission(r, d)
      PROVE  WithProvider'
  BY <1>6 DEF RetrySubmission, TransitionToSubmitted, Resubmittable
<1>7. ASSUME NEW r \in Requests, CallProvider(r)
      PROVE  WithProvider'
  <2>1. reqDoc[r] \in Docs /\ docStatus[reqDoc[r]] = "SUBMITTED"
    BY <1>7 DEF CallProvider
  <2>2. inTransit[reqDoc[r]] = 0 /\ processed[reqDoc[r]] = 0
    BY <1>7 DEF CallProvider
  <2>3. inTransit' = [inTransit EXCEPT ![reqDoc[r]] = 1]
    BY <1>7, <2>2 DEF CallProvider
  <2>4. \A q \in Requests : pc'[q] \in {"send", "refused"} => reqDoc[q] # reqDoc[r]
    BY <1>7 DEF CallProvider
  <2>5. \A q \in Requests : pc'[q] \in InSubmission => reqDoc[q] \in Docs
    BY <1>7 DEF CallProvider
  <2>. QED
    BY <1>7, <2>1, <2>2, <2>3, <2>4, <2>5 DEF CallProvider
<1>8. ASSUME NEW d \in Docs, NEW v \in Verdict \ {"NONE"}, ProviderProcesses(d, v)
      PROVE  WithProvider'
  <2>1. inTransit[d] = 1 /\ processed[d] = 0 /\ verdict[d] = "NONE"
    <3>1. inTransit[d] \in Nat /\ processed[d] \in Nat /\ inTransit[d] > 0
      BY <1>8 DEF ProviderProcesses
    <3>2. inTransit[d] + processed[d] <= 1 /\ (processed[d] = 0 => verdict[d] = "NONE")
      OBVIOUS
    <3>. HIDE DEF TypeOK, Submitting, WithProvider
    <3>. QED
      BY <3>1, <3>2, OneAtMost
  <2>2. docStatus[d] = "SUBMITTED"
    BY <1>8, <2>1
  <2>3. /\ inTransit' = [inTransit EXCEPT ![d] = 0]
        /\ processed' = [processed EXCEPT ![d] = 1]
        /\ verdict' = [verdict EXCEPT ![d] = v]
    BY <1>8, <2>1 DEF ProviderProcesses
  <2>4. \A q \in Requests :
          pc[q] \in {"send", "refused", "accepted", "rejected"} => reqDoc[q] # d
    BY <2>1
  <2>. QED
    BY <1>8, <2>1, <2>2, <2>3, <2>4 DEF ProviderProcesses
<1>9. ASSUME NEW r \in Requests, ReceiveAnswer(r)
      PROVE  WithProvider'
  BY <1>9 DEF ReceiveAnswer
<1>10. ASSUME NEW r \in Requests, ProviderRefuses(r)
      PROVE  WithProvider'
  <2>1. reqDoc[r] \in Docs /\ docStatus[reqDoc[r]] = "SUBMITTED"
    BY <1>10 DEF ProviderRefuses
  <2>2. inTransit[reqDoc[r]] = 1 /\ processed[reqDoc[r]] = 0
    <3>1. /\ inTransit[reqDoc[r]] \in Nat
          /\ processed[reqDoc[r]] \in Nat
          /\ inTransit[reqDoc[r]] > 0
      BY <1>10, <2>1 DEF ProviderRefuses
    <3>2. inTransit[reqDoc[r]] + processed[reqDoc[r]] <= 1
      BY <2>1
    <3>. HIDE DEF TypeOK, Submitting, WithProvider
    <3>. QED
      BY <3>1, <3>2, OneAtMost
  <2>3. inTransit' = [inTransit EXCEPT ![reqDoc[r]] = 0]
    BY <1>10, <2>2 DEF ProviderRefuses
  <2>4. \A q \in Requests : pc[q] \in InSubmission => reqDoc[q] \in Docs
    OBVIOUS
  <2>. QED
    BY <1>10, <2>1, <2>2, <2>3, <2>4 DEF ProviderRefuses
<1>11. ASSUME NEW r \in Requests, LoseAnswer(r)
      PROVE  WithProvider'
  BY <1>11 DEF LoseAnswer
<1>12. ASSUME NEW r \in Requests, PersistProviderOutcome(r)
      PROVE  WithProvider'
  <2>1. CASE pc[r] = "accepted" /\ Persist(r, "ACCEPTED")
    BY <2>1 DEF Persist, End, ForgetTransaction
  <2>2. CASE pc[r] = "rejected" /\ Persist(r, "REJECTED")
    BY <2>2 DEF Persist, End, ForgetTransaction
  <2>. QED
    BY <1>12, <2>1, <2>2 DEF PersistProviderOutcome
<1>13. ASSUME NEW r \in Requests, PersistSubmissionFailed(r)
      PROVE  WithProvider'
  BY <1>13 DEF PersistSubmissionFailed, Persist, End, ForgetTransaction
<1>14. ASSUME NEW r \in Requests, PersistUnknownOutcome(r)
      PROVE  WithProvider'
  BY <1>14 DEF PersistUnknownOutcome, Persist, End, ForgetTransaction
<1>15. ASSUME NEW r \in Requests, NEW s \in Sales, BeginCancel(r, s)
      PROVE  WithProvider'
  BY <1>15 DEF BeginCancel, LockSale
<1>16. ASSUME NEW r \in Requests, CheckCancellable(r)
      PROVE  WithProvider'
  BY <1>16 DEF CheckCancellable
<1>17. ASSUME NEW r \in Requests, CommitCancel(r)
      PROVE  WithProvider'
  BY <1>17 DEF CommitCancel, ReleaseLocks, End, ForgetTransaction
<1>18. ASSUME NEW r \in Requests, RollBack(r)
      PROVE  WithProvider'
  BY <1>18 DEF RollBack, ReleaseLocks, End, ForgetTransaction
<1>19. ASSUME NEW r \in Requests, Crash(r)
      PROVE  WithProvider'
  BY <1>19 DEF Crash, End, ForgetTransaction
<1>20. CASE UNCHANGED vars
  BY <1>20
<1>. QED
  BY <1>1, <1>2, <1>3, <1>4, <1>5, <1>6, <1>7, <1>8, <1>9, <1>10,
     <1>11, <1>12, <1>13, <1>14, <1>15, <1>16, <1>17, <1>18, <1>19, <1>20
     DEF Next, Begin, Step, Provider, Reject, Abort

\* Only the commit of a document moves a series, by the number it carries.
LEMMA GapFreeStep ==
  ASSUME TypeOK, Locking, Submitting, GapFreeNumbers
  PROVE  [Next]_vars => GapFreeNumbers'
<1> USE BoundsAssumption, NoneAssumption
    DEF TypeOK, Locking, Submitting, GapFreeNumbers, InTransaction, InIssueTransaction, InCancelTransaction,
        InSubmission, Goto,
        vars, saleVars, seriesVars, docVars, providerVars, targets
<1>1. ASSUME NEW r \in Requests, NEW s \in Sales, NEW x \in Series, BeginIssue(r, s, x)
      PROVE  GapFreeNumbers'
  BY <1>1 DEF BeginIssue, LockSale
<1>2. ASSUME NEW r \in Requests, CheckSale(r)
      PROVE  GapFreeNumbers'
  BY <1>2 DEF CheckSale
<1>3. ASSUME NEW r \in Requests, AllocateNext(r)
      PROVE  GapFreeNumbers'
  BY <1>3 DEF AllocateNext
<1>4. ASSUME NEW r \in Requests, NEW d \in Docs, CommitDocument(r, d)
      PROVE  GapFreeNumbers'
  <2>. DEFINE Issued(y) == {e \in Docs : docStatus[e] # "NONE" /\ docSeries[e] = y}
              Numbers(y) == {docNumber[e] : e \in Issued(y)}
  <2>1. PICK x \in Series :
          /\ x = reqSeries[r]
          /\ reqNumber[r] = lastNumber[x] + 1
          /\ lastNumber[x] \in Nat
    BY <1>4 DEF CommitDocument
  <2>2. /\ docStatus' = [docStatus EXCEPT ![d] = "CREATED"]
        /\ docSeries' = [docSeries EXCEPT ![d] = x]
        /\ docNumber' = [docNumber EXCEPT ![d] = lastNumber[x] + 1]
        /\ lastNumber' = [lastNumber EXCEPT ![x] = lastNumber[x] + 1]
        /\ docStatus[d] = "NONE"
    BY <1>4, <2>1 DEF CommitDocument
  <2>3. \A y \in Series :
          /\ Numbers(y) = 1..lastNumber[y]
          /\ \A e, f \in Issued(y) : docNumber[e] = docNumber[f] => e = f
    OBVIOUS
  <2>4. /\ DOMAIN docStatus = Docs /\ DOMAIN docSeries = Docs
        /\ DOMAIN docNumber = Docs /\ DOMAIN lastNumber = Series
    OBVIOUS
  <2>. HIDE DEF TypeOK, Locking, Submitting, GapFreeNumbers
  <2>5. ASSUME NEW y \in Series, y # x
        PROVE  /\ Issued(y)' = Issued(y)
               /\ \A e \in Issued(y) : docNumber'[e] = docNumber[e]
               /\ lastNumber'[y] = lastNumber[y]
    BY <2>2, <2>4, <2>5
  <2>6. /\ Issued(x)' = Issued(x) \cup {d}
        /\ d \notin Issued(x)
        /\ \A e \in Issued(x) : docNumber'[e] = docNumber[e]
        /\ docNumber'[d] = lastNumber[x] + 1
        /\ lastNumber'[x] = lastNumber[x] + 1
    BY <2>2, <2>4
  <2>7. ASSUME NEW y \in Series
        PROVE  /\ Numbers(y)' = 1..lastNumber'[y]
               /\ \A e, f \in Issued(y)' : docNumber'[e] = docNumber'[f] => e = f
    <3>. HIDE DEF Issued
    <3>1. CASE y = x
      <4>1. Numbers(x)' = Numbers(x) \cup {lastNumber[x] + 1}
        BY <2>6
      <4>2. Numbers(x)' = 1..lastNumber'[x]
        BY <2>1, <2>3, <2>6, <4>1, NextNumber
      <4>3. \A e \in Issued(x) : docNumber[e] # lastNumber[x] + 1
        <5>1. \A e \in Issued(x) : docNumber[e] \in Numbers(x)
          OBVIOUS
        <5>2. lastNumber[x] + 1 \notin Numbers(x)
          BY <2>1, <2>3
        <5>. QED
          BY <5>1, <5>2
      <4>4. \A e, f \in Issued(x) \cup {d} : docNumber'[e] = docNumber'[f] => e = f
        BY <2>3, <2>6, <4>3
      <4>. QED
        BY <2>6, <3>1, <4>2, <4>4
    <3>2. CASE y # x
      <4>1. Numbers(y)' = Numbers(y)
        BY <2>5, <3>2
      <4>. QED
        BY <2>3, <2>5, <3>2, <4>1
    <3>. QED
      BY <3>1, <3>2
  <2>. QED
    BY <2>7 DEF GapFreeNumbers
<1>5. ASSUME NEW r \in Requests, SubmitIssued(r)
      PROVE  GapFreeNumbers'
  BY <1>5 DEF SubmitIssued, TransitionToSubmitted
<1>6. ASSUME NEW r \in Requests, NEW d \in Docs, RetrySubmission(r, d)
      PROVE  GapFreeNumbers'
  BY <1>6 DEF RetrySubmission, TransitionToSubmitted, Resubmittable
<1>7. ASSUME NEW r \in Requests, CallProvider(r)
      PROVE  GapFreeNumbers'
  BY <1>7 DEF CallProvider
<1>8. ASSUME NEW d \in Docs, NEW v \in Verdict \ {"NONE"}, ProviderProcesses(d, v)
      PROVE  GapFreeNumbers'
  BY <1>8 DEF ProviderProcesses
<1>9. ASSUME NEW r \in Requests, ReceiveAnswer(r)
      PROVE  GapFreeNumbers'
  BY <1>9 DEF ReceiveAnswer
<1>10. ASSUME NEW r \in Requests, ProviderRefuses(r)
      PROVE  GapFreeNumbers'
  BY <1>10 DEF ProviderRefuses
<1>11. ASSUME NEW r \in Requests, LoseAnswer(r)
      PROVE  GapFreeNumbers'
  BY <1>11 DEF LoseAnswer
<1>12. ASSUME NEW r \in Requests, PersistProviderOutcome(r)
      PROVE  GapFreeNumbers'
  <2>1. CASE pc[r] = "accepted" /\ Persist(r, "ACCEPTED")
    BY <2>1 DEF Persist, End, ForgetTransaction
  <2>2. CASE pc[r] = "rejected" /\ Persist(r, "REJECTED")
    BY <2>2 DEF Persist, End, ForgetTransaction
  <2>. QED
    BY <1>12, <2>1, <2>2 DEF PersistProviderOutcome
<1>13. ASSUME NEW r \in Requests, PersistSubmissionFailed(r)
      PROVE  GapFreeNumbers'
  BY <1>13 DEF PersistSubmissionFailed, Persist, End, ForgetTransaction
<1>14. ASSUME NEW r \in Requests, PersistUnknownOutcome(r)
      PROVE  GapFreeNumbers'
  BY <1>14 DEF PersistUnknownOutcome, Persist, End, ForgetTransaction
<1>15. ASSUME NEW r \in Requests, NEW s \in Sales, BeginCancel(r, s)
      PROVE  GapFreeNumbers'
  BY <1>15 DEF BeginCancel, LockSale
<1>16. ASSUME NEW r \in Requests, CheckCancellable(r)
      PROVE  GapFreeNumbers'
  BY <1>16 DEF CheckCancellable
<1>17. ASSUME NEW r \in Requests, CommitCancel(r)
      PROVE  GapFreeNumbers'
  BY <1>17 DEF CommitCancel, ReleaseLocks, End, ForgetTransaction
<1>18. ASSUME NEW r \in Requests, RollBack(r)
      PROVE  GapFreeNumbers'
  BY <1>18 DEF RollBack, ReleaseLocks, End, ForgetTransaction
<1>19. ASSUME NEW r \in Requests, Crash(r)
      PROVE  GapFreeNumbers'
  BY <1>19 DEF Crash, End, ForgetTransaction
<1>20. CASE UNCHANGED vars
  BY <1>20
<1>. QED
  BY <1>1, <1>2, <1>3, <1>4, <1>5, <1>6, <1>7, <1>8, <1>9, <1>10,
     <1>11, <1>12, <1>13, <1>14, <1>15, <1>16, <1>17, <1>18, <1>19, <1>20
     DEF Next, Begin, Step, Provider, Reject, Abort

\* Neither issue nor cancellation leaves a live document on a cancelled sale.
LEMMA NoLiveDocumentStep ==
  ASSUME TypeOK, Locking, Submitting, Checked,
         NoLiveDocumentOnCancelledSale
  PROVE  [Next]_vars => NoLiveDocumentOnCancelledSale'
<1> USE BoundsAssumption, NoneAssumption
    DEF TypeOK, Locking, Submitting, Checked, NoLiveDocumentOnCancelledSale,
        InTransaction, InIssueTransaction, InCancelTransaction,
        InSubmission, DocumentsOf, Blocking, SaleStatus, Goto,
        vars, saleVars, seriesVars, docVars, providerVars, targets
<1>1. ASSUME NEW r \in Requests, NEW s \in Sales, NEW x \in Series, BeginIssue(r, s, x)
      PROVE  NoLiveDocumentOnCancelledSale'
  BY <1>1 DEF BeginIssue, LockSale
<1>2. ASSUME NEW r \in Requests, CheckSale(r)
      PROVE  NoLiveDocumentOnCancelledSale'
  BY <1>2 DEF CheckSale
<1>3. ASSUME NEW r \in Requests, AllocateNext(r)
      PROVE  NoLiveDocumentOnCancelledSale'
  BY <1>3 DEF AllocateNext
<1>4. ASSUME NEW r \in Requests, NEW d \in Docs, CommitDocument(r, d)
      PROVE  NoLiveDocumentOnCancelledSale'
  BY <1>4 DEF CommitDocument, ReleaseLocks, ForgetTransaction
<1>5. ASSUME NEW r \in Requests, SubmitIssued(r)
      PROVE  NoLiveDocumentOnCancelledSale'
  BY <1>5 DEF SubmitIssued, TransitionToSubmitted
<1>6. ASSUME NEW r \in Requests, NEW d \in Docs, RetrySubmission(r, d)
      PROVE  NoLiveDocumentOnCancelledSale'
  BY <1>6 DEF RetrySubmission, TransitionToSubmitted, Resubmittable
<1>7. ASSUME NEW r \in Requests, CallProvider(r)
      PROVE  NoLiveDocumentOnCancelledSale'
  BY <1>7 DEF CallProvider
<1>8. ASSUME NEW d \in Docs, NEW v \in Verdict \ {"NONE"}, ProviderProcesses(d, v)
      PROVE  NoLiveDocumentOnCancelledSale'
  BY <1>8 DEF ProviderProcesses
<1>9. ASSUME NEW r \in Requests, ReceiveAnswer(r)
      PROVE  NoLiveDocumentOnCancelledSale'
  BY <1>9 DEF ReceiveAnswer
<1>10. ASSUME NEW r \in Requests, ProviderRefuses(r)
      PROVE  NoLiveDocumentOnCancelledSale'
  BY <1>10 DEF ProviderRefuses
<1>11. ASSUME NEW r \in Requests, LoseAnswer(r)
      PROVE  NoLiveDocumentOnCancelledSale'
  BY <1>11 DEF LoseAnswer
<1>12. ASSUME NEW r \in Requests, PersistProviderOutcome(r)
      PROVE  NoLiveDocumentOnCancelledSale'
  <2>1. CASE pc[r] = "accepted" /\ Persist(r, "ACCEPTED")
    BY <2>1 DEF Persist, End, ForgetTransaction
  <2>2. CASE pc[r] = "rejected" /\ Persist(r, "REJECTED")
    BY <2>2 DEF Persist, End, ForgetTransaction
  <2>. QED
    BY <1>12, <2>1, <2>2 DEF PersistProviderOutcome
<1>13. ASSUME NEW r \in Requests, PersistSubmissionFailed(r)
      PROVE  NoLiveDocumentOnCancelledSale'
  BY <1>13 DEF PersistSubmissionFailed, Persist, End, ForgetTransaction
<1>14. ASSUME NEW r \in Requests, PersistUnknownOutcome(r)
      PROVE  NoLiveDocumentOnCancelledSale'
  BY <1>14 DEF PersistUnknownOutcome, Persist, End, ForgetTransaction
<1>15. ASSUME NEW r \in Requests, NEW s \in Sales, BeginCancel(r, s)
      PROVE  NoLiveDocumentOnCancelledSale'
  BY <1>15 DEF BeginCancel, LockSale
<1>16. ASSUME NEW r \in Requests, CheckCancellable(r)
      PROVE  NoLiveDocumentOnCancelledSale'
  BY <1>16 DEF CheckCancellable
<1>17. ASSUME NEW r \in Requests, CommitCancel(r)
      PROVE  NoLiveDocumentOnCancelledSale'
  BY <1>17 DEF CommitCancel, ReleaseLocks, End, ForgetTransaction
<1>18. ASSUME NEW r \in Requests, RollBack(r)
      PROVE  NoLiveDocumentOnCancelledSale'
  BY <1>18 DEF RollBack, ReleaseLocks, End, ForgetTransaction
<1>19. ASSUME NEW r \in Requests, Crash(r)
      PROVE  NoLiveDocumentOnCancelledSale'
  BY <1>19 DEF Crash, End, ForgetTransaction
<1>20. CASE UNCHANGED vars
  BY <1>20
<1>. QED
  BY <1>1, <1>2, <1>3, <1>4, <1>5, <1>6, <1>7, <1>8, <1>9, <1>10,
     <1>11, <1>12, <1>13, <1>14, <1>15, <1>16, <1>17, <1>18, <1>19, <1>20
     DEF Next, Begin, Step, Provider, Reject, Abort

\* Only a document in the hands of its request changes its status.
LEMMA FinalStep ==
  ASSUME TypeOK, Locking, Submitting
  PROVE  [Next]_vars => KeepsIssued
<1> USE BoundsAssumption, NoneAssumption
    DEF TypeOK, Locking, Submitting, KeepsIssued, InTransaction, InIssueTransaction, InCancelTransaction,
        InSubmission, Goto,
        vars, saleVars, seriesVars, docVars, providerVars, targets
<1>1. ASSUME NEW r \in Requests, NEW s \in Sales, NEW x \in Series, BeginIssue(r, s, x)
      PROVE  KeepsIssued
  BY <1>1 DEF BeginIssue, LockSale
<1>2. ASSUME NEW r \in Requests, CheckSale(r)
      PROVE  KeepsIssued
  BY <1>2 DEF CheckSale
<1>3. ASSUME NEW r \in Requests, AllocateNext(r)
      PROVE  KeepsIssued
  BY <1>3 DEF AllocateNext
<1>4. ASSUME NEW r \in Requests, NEW d \in Docs, CommitDocument(r, d)
      PROVE  KeepsIssued
  BY <1>4 DEF CommitDocument, ReleaseLocks, ForgetTransaction
<1>5. ASSUME NEW r \in Requests, SubmitIssued(r)
      PROVE  KeepsIssued
  BY <1>5 DEF SubmitIssued, TransitionToSubmitted
<1>6. ASSUME NEW r \in Requests, NEW d \in Docs, RetrySubmission(r, d)
      PROVE  KeepsIssued
  BY <1>6 DEF RetrySubmission, TransitionToSubmitted, Resubmittable
<1>7. ASSUME NEW r \in Requests, CallProvider(r)
      PROVE  KeepsIssued
  BY <1>7 DEF CallProvider
<1>8. ASSUME NEW d \in Docs, NEW v \in Verdict \ {"NONE"}, ProviderProcesses(d, v)
      PROVE  KeepsIssued
  BY <1>8 DEF ProviderProcesses
<1>9. ASSUME NEW r \in Requests, ReceiveAnswer(r)
      PROVE  KeepsIssued
  BY <1>9 DEF ReceiveAnswer
<1>10. ASSUME NEW r \in Requests, ProviderRefuses(r)
      PROVE  KeepsIssued
  BY <1>10 DEF ProviderRefuses
<1>11. ASSUME NEW r \in Requests, LoseAnswer(r)
      PROVE  KeepsIssued
  BY <1>11 DEF LoseAnswer
<1>12. ASSUME NEW r \in Requests, PersistProviderOutcome(r)
      PROVE  KeepsIssued
  <2>1. CASE pc[r] = "accepted" /\ Persist(r, "ACCEPTED")
    BY <2>1 DEF Persist, End, ForgetTransaction
  <2>2. CASE pc[r] = "rejected" /\ Persist(r, "REJECTED")
    BY <2>2 DEF Persist, End, ForgetTransaction
  <2>. QED
    BY <1>12, <2>1, <2>2 DEF PersistProviderOutcome
<1>13. ASSUME NEW r \in Requests, PersistSubmissionFailed(r)
      PROVE  KeepsIssued
  BY <1>13 DEF PersistSubmissionFailed, Persist, End, ForgetTransaction
<1>14. ASSUME NEW r \in Requests, PersistUnknownOutcome(r)
      PROVE  KeepsIssued
  BY <1>14 DEF PersistUnknownOutcome, Persist, End, ForgetTransaction
<1>15. ASSUME NEW r \in Requests, NEW s \in Sales, BeginCancel(r, s)
      PROVE  KeepsIssued
  BY <1>15 DEF BeginCancel, LockSale
<1>16. ASSUME NEW r \in Requests, CheckCancellable(r)
      PROVE  KeepsIssued
  BY <1>16 DEF CheckCancellable
<1>17. ASSUME NEW r \in Requests, CommitCancel(r)
      PROVE  KeepsIssued
  BY <1>17 DEF CommitCancel, ReleaseLocks, End, ForgetTransaction
<1>18. ASSUME NEW r \in Requests, RollBack(r)
      PROVE  KeepsIssued
  BY <1>18 DEF RollBack, ReleaseLocks, End, ForgetTransaction
<1>19. ASSUME NEW r \in Requests, Crash(r)
      PROVE  KeepsIssued
  BY <1>19 DEF Crash, End, ForgetTransaction
<1>20. CASE UNCHANGED vars
  BY <1>20
<1>. QED
  BY <1>1, <1>2, <1>3, <1>4, <1>5, <1>6, <1>7, <1>8, <1>9, <1>10,
     <1>11, <1>12, <1>13, <1>14, <1>15, <1>16, <1>17, <1>18, <1>19, <1>20
     DEF Next, Begin, Step, Provider, Reject, Abort

-----------------------------------------------------------------------------
(* The theorems. *)

LEMMA Initially == Init => IInv
<1> SUFFICES ASSUME Init PROVE IInv
  OBVIOUS
<1> USE BoundsAssumption, NoneAssumption DEF Init
<1>1. TypeOK
  BY DEF TypeOK, SaleStatus, DocumentStatus, Verdict, Places
<1>2. Locking /\ Checked /\ Submitting
  BY DEF Locking, Checked, Submitting, InTransaction, InIssueTransaction,
         InCancelTransaction, InSubmission
<1>3. WithProvider
  BY DEF WithProvider
<1>4. GapFreeNumbers
  BY DEF GapFreeNumbers
<1>5. NoLiveDocumentOnCancelledSale
  BY DEF NoLiveDocumentOnCancelledSale
<1>. QED
  BY <1>1, <1>2, <1>3, <1>4, <1>5 DEF IInv

\* The inductive invariant holds in every reachable state.
THEOREM Inductive == Spec => []IInv
<1>1. IInv /\ [Next]_vars => IInv'
  BY TypeStep, LockingStep, SubmittingStep, CheckedStep, WithProviderStep,
     GapFreeStep, NoLiveDocumentStep DEF IInv
<1>. QED
  BY Initially, <1>1, PTL DEF Spec

\* No interleaving, rollback or crash takes a row or a request out of the
\* states the schema and the code allow.
THEOREM TypeCorrect == Spec => []TypeOK
<1>1. IInv => TypeOK
  BY DEF IInv
<1>. QED
  BY Inductive, <1>1, PTL

\* Whatever requests interleave, a cancelled sale has no document in progress
\* or accepted.
THEOREM CancelledSalesHaveNoLiveDocument == Spec => []NoLiveDocumentOnCancelledSale
<1>1. IInv => NoLiveDocumentOnCancelledSale
  BY DEF IInv
<1>. QED
  BY Inductive, <1>1, PTL

\* The check for an existing primary document is still true at the insertion.
THEOREM CheckedDocumentStaysAbsent == Spec => []PrimaryIndexNeverFires
<1>1. IInv => PrimaryIndexNeverFires
  BY DEF IInv, Checked, PrimaryIndexNeverFires
<1>. QED
  BY Inductive, <1>1, PTL

\* The numbers of each series run from 1 to its counter, without a gap or a
\* repetition.
THEOREM NumbersAreGapFree == Spec => []GapFreeNumbers
<1>1. IInv => GapFreeNumbers
  BY DEF IInv
<1>. QED
  BY Inductive, <1>1, PTL

\* The provider registers no document twice.
THEOREM NeverProcessedTwice == Spec => []ProcessedAtMostOnce
<1>1. IInv => ProcessedAtMostOnce
  <2> SUFFICES ASSUME IInv, NEW d \in Docs
               PROVE  processed[d] <= 1
    BY DEF ProcessedAtMostOnce
  <2>1. inTransit[d] \in Nat /\ processed[d] \in Nat
    BY DEF IInv, TypeOK
  <2>2. inTransit[d] + processed[d] <= 1
    BY DEF IInv, WithProvider
  <2>. QED
    BY <2>1, <2>2
<1>. QED
  BY Inductive, <1>1, PTL

\* What is recorded about a document is what the provider did with it.
THEOREM RecordsAgreeWithProvider == Spec => []AgreesWithProvider
<1>1. IInv => AgreesWithProvider
  BY DEF IInv, WithProvider, AgreesWithProvider
<1>. QED
  BY Inductive, <1>1, PTL

\* An issued document is never renumbered or moved, and its outcome never
\* revised.
THEOREM OutcomesAreFinal == Spec => OutcomeIsFinal
<1>1. IInv /\ [Next]_vars => [KeepsIssued]_vars
  BY FinalStep DEF IInv
<1>. QED
  BY Inductive, <1>1, PTL DEF Spec, OutcomeIsFinal

=============================================================================
