-------------------------- MODULE DocumentSequences --------------------------
(***************************************************************************)
(* The numbers of quotes and sales: DocumentSequenceService.next(), called *)
(* in the transaction that inserts the document, and the administration of *)
(* the sequences (SequenceAdminService).  A prefix and a padding complete  *)
(* the number of a document; they are left out.                            *)
(***************************************************************************)
EXTENDS Naturals

CONSTANTS
  DocumentTypes,
  Writers,       \* transactions that number a document or edit a sequence
  MaxNumber      \* bound on the numbers of a sequence

ASSUME SequencesAssumption == MaxNumber \in Nat

VARIABLES
  current,     \* the last number of each type, with what is not committed
  writing,     \* of each transaction: the sequence it has locked, or none
  numbered     \* the documents

sequenceVars == <<current, writing, numbered>>

SequencesInit ==
  /\ current = [t \in DocumentTypes |-> 0]
  /\ writing = [w \in Writers |-> {}]
  /\ numbered = {}

Locked(t) == \E w \in Writers : \E d \in writing[w] : d.type = t

Hold(w, t, document) ==
  writing' = [writing EXCEPT ![w] = {[type |-> t, was |-> current[t], document |-> document]}]

\* UPDATE ... RETURNING, which keeps the row locked.
NextNumber(w, t) ==
  /\ writing[w] = {} /\ ~Locked(t)
  /\ current[t] < MaxNumber
  /\ current' = [current EXCEPT ![t] = @ + 1]
  /\ Hold(w, t, TRUE)
  /\ UNCHANGED numbered

LockSequence(w, t) ==
  /\ writing[w] = {} /\ ~Locked(t)
  /\ Hold(w, t, FALSE)
  /\ UNCHANGED <<current, numbered>>

\* Mutated form: the number may decrease.
ChangeNumberAtWill(w, number) ==
  /\ \E d \in writing[w] :
       /\ ~d.document
       /\ current' = [current EXCEPT ![d.type] = number]
  /\ writing' = [writing EXCEPT ![w] = {}]
  /\ UNCHANGED numbered

\* A patch without a number, or with the same one, leaves it as it is.
ChangeNumber(w, number) ==
  /\ \E d \in writing[w] :
       /\ ~d.document
       /\ current[d.type] <= number
       /\ current' = [current EXCEPT ![d.type] = number]
  /\ writing' = [writing EXCEPT ![w] = {}]
  /\ UNCHANGED numbered

CommitDocument(w) ==
  /\ \E d \in writing[w] :
       /\ d.document
       /\ numbered' = numbered \cup {<<d.type, current[d.type]>>}
  /\ writing' = [writing EXCEPT ![w] = {}]
  /\ UNCHANGED current

\* The number goes back to the sequence.
RollBackNumber(w) ==
  /\ \E d \in writing[w] : current' = [current EXCEPT ![d.type] = d.was]
  /\ writing' = [writing EXCEPT ![w] = {}]
  /\ UNCHANGED numbered

SequenceStep ==
  \E w \in Writers :
    \/ \E t \in DocumentTypes : NextNumber(w, t) \/ LockSequence(w, t)
    \/ \E number \in 0..MaxNumber : ChangeNumber(w, number)
    \/ CommitDocument(w) \/ RollBackNumber(w)

SequencesSpec == SequencesInit /\ [][SequenceStep]_sequenceVars

-----------------------------------------------------------------------------
(* Properties *)

\* The number that a transaction has drawn is above those of all the documents
\* of its type, and nobody else works on its sequence: no document repeats a
\* number, nor fails on the index that forbids it, whatever is rolled back.
NumbersNeverRepeat ==
  \A w \in Writers : \A d \in writing[w] :
    /\ d.document => \A n \in numbered : n[1] = d.type => n[2] < current[d.type]
    /\ \A v \in Writers \ {w} : \A e \in writing[v] : e.type # d.type
=============================================================================
