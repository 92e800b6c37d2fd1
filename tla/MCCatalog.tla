------------------------------ MODULE MCCatalog ------------------------------
(***************************************************************************)
(* One administrator, one sale, two requests on images and two that number *)
(* documents, over a small catalog.  The parts that share no row are       *)
(* explored one at a time.                                                 *)
(***************************************************************************)
EXTENDS CatalogViews, SaleIntake, DocumentSequences, TLC

MCPatchedTogether ==
  {{"type"}, {"tracked"}, {"minimum"}, {"category"}, {"unit"}, {"type", "tracked", "minimum"}}

Symmetry == Permutations(Categories) \cup Permutations(Images) \cup Permutations(Uploads)

Init == IntakeInit /\ ImagesInit /\ SequencesInit

Next ==
  \/ IntakeNext /\ UNCHANGED <<imageVars, sequenceVars>>
  \/ ImageStep /\ UNCHANGED <<records, intakeVars, sequenceVars>>
  \/ SequenceStep /\ UNCHANGED <<records, imageVars, intakeVars>>

-----------------------------------------------------------------------------
(* Bounds *)

Empty(table) ==
  /\ \A i \in table \ {Generic} : ~Exists(i)
  /\ \A u \in Admins : \A e \in edit[u] : e.row \notin table

OneCategory == Cardinality({c \in Categories : Exists(c)}) <= 1

AllIdle == \A r \in Sellers : pc[r] = "idle"
DecimalUnits == \A n \in Units : Exists(n) => rows[n].decimal
NoMinimum == \A p \in Products : Exists(p) => rows[p].minimum = 0
AllTracked == \A p \in Products : Exists(p) => rows[p].tracked
NoStock == \A p \in Products : Exists(p) => rows[p].stock = 0

\* Two categories are explored without customers and sales, customers
\* with decimal units, suppliers and methods without anything else.
Apart ==
  /\ \/ OneCategory /\ \A c \in Categories : Exists(c) => rows[c].parent = NoRecord
     \/ Empty(Customers) /\ AllIdle /\ DecimalUnits /\ AllTracked /\ NoStock /\ NoMinimum
  /\ Empty(Customers) \/ DecimalUnits
  /\ (Empty(Customers) /\ AllIdle) \/ NoMinimum
  /\ \A table \in {Suppliers, Methods} :
       Empty(table) \/ (Empty(Ids \ table) /\ AllIdle)

\* Images are explored on a product of either status, in a catalog that nobody
\* edits meanwhile.
ImagesAlone ==
  \/ used = {}
  \/ /\ OneCategory /\ Empty(Customers)
     /\ AllIdle /\ AllTracked /\ NoStock /\ NoMinimum
     /\ \A u \in Admins : edit[u] = {}
     /\ \A i \in Categories \cup Units : Exists(i) => Active(i)

SequencesAlone ==
  sequenceVars = <<[t \in DocumentTypes |-> 0], [w \in Writers |-> {}], {}>> \/ (Empty(Ids) /\ AllIdle)

Bounds == Apart /\ ImagesAlone /\ SequencesAlone

-----------------------------------------------------------------------------
BoundedNext == Next /\ Bounds'

Spec == Init /\ [][BoundedNext]_<<records, imageVars, intakeVars, sequenceVars>>
=============================================================================
