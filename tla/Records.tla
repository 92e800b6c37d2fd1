------------------------------- MODULE Records -------------------------------
(***************************************************************************)
(* The rows that administrators keep: the catalog, the customers and       *)
(* suppliers, the payment methods.  Their services lock nothing: an        *)
(* operation reads what it needs, decides, and writes afterwards, and only *)
(* the write waits for whoever holds the row.                              *)
(***************************************************************************)
EXTENDS Naturals, FiniteSets

CONSTANTS
  Categories, Units, Products, Customers, Suppliers, Methods,
  Generic,       \* the customer of counter sales, created by the seed
  Admins,        \* who edits rows at the same time
  Sellers,       \* who takes sales and holds locks on rows meanwhile
  NoRecord       \* the parent of a root category

ASSUME RecordsAssumption ==
  LET tables == <<Categories, Units, Products, Customers, Suppliers, Methods>>
  IN  /\ Generic \in Customers
      /\ NoRecord \notin Categories \cup Products
      /\ \A m, n \in 1..6 : m # n => tables[m] \cap tables[n] = {}

VARIABLES
  rows,     \* every row, by its identifier
  edit,     \* what each administrator is about to write: one edit or none
  holders   \* the requests that hold a lock on a row

records == <<rows, edit, holders>>

Ids == Categories \cup Units \cup Products \cup Customers \cup Suppliers \cup Methods

NoRow == [status |-> "NONE"]

CustomerRow(stage) == [status |-> "ACTIVE", stage |-> stage, credit |-> FALSE]

\* The seed creates the generic customer.
RecordsInit ==
  /\ rows = [i \in Ids |-> IF i = Generic THEN CustomerRow("CUSTOMER") ELSE NoRow]
  /\ edit = [u \in Admins |-> {}]
  /\ holders = [i \in Ids |-> {}]

Exists(i) == rows[i] # NoRow
Active(i) == rows[i].status = "ACTIVE"

\* A row with some of its columns written, or all of a row that is new.
Written(columns, row) ==
  [c \in DOMAIN columns \cup DOMAIN row |-> IF c \in DOMAIN columns THEN columns[c] ELSE row[c]]

Decide(u, i, columns) ==
  /\ edit[u] = {}
  /\ edit' = [edit EXCEPT ![u] =
       {[row |-> i, insert |-> ~Exists(i), columns |-> columns]}]
  /\ UNCHANGED <<rows, holders>>

Insert(u, i, row) == ~Exists(i) /\ Decide(u, i, row)

\* What is only written and shown (names, documents, addresses, prices) is left
\* out of rows, but its update is an edit like another.
UpdateText(u, i) == Exists(i) /\ Decide(u, i, <<>>)

\* Codes are unique: the second of two creations of one fails.
CommitEdit(u) ==
  \E e \in edit[u] :
    /\ holders[e.row] = {}
    /\ e.insert <=> ~Exists(e.row)
    /\ rows' = [rows EXCEPT ![e.row] = Written(e.columns, @)]
    /\ edit' = [edit EXCEPT ![u] = {}]
    /\ UNCHANGED holders

AbandonEdit(u) ==
  /\ edit[u] # {}
  /\ edit' = [edit EXCEPT ![u] = {}]
  /\ UNCHANGED <<rows, holders>>

\* activate() and deactivate() of every table: only from the other status.
Switch(u, i, from, to) ==
  /\ rows[i].status = from
  /\ Decide(u, i, [status |-> to])

=============================================================================
