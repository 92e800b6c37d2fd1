------------------------ MODULE StockValuation_proofs ------------------------
(***************************************************************************)
(* Proofs about StockValuation, for any products, lines, amounts, receipts *)
(* and sales, and any number of concurrent requests: stock and the value   *)
(* of stock are what the documents say, a line is capitalized exactly, and *)
(* the cost of goods sold in the ledger is what sales took from the pools. *)
(***************************************************************************)
EXTENDS StockValuation, RecursionTheorems

-----------------------------------------------------------------------------
(* The rows of the two ledgers *)

Places == {"idle", "receiving", "unreceiving", "selling", "unselling"}

Valuation == [doc : Docs, item : Products \cup Lines, product : Products,
              event : {"ORIGINAL", "REVERSAL"}, quantity : Nat \ {0}, cost : Nat]

CogsEntry == [sale : Sales, event : {"ORIGINAL", "REVERSAL"}, amount : Nat \ {0}]

-----------------------------------------------------------------------------
(* What documents say, as sums *)

At(qty, x) == IF x \in DOMAIN qty THEN qty[x] ELSE 0

\* A table of documents with their quantities.
Tabled(docs, ids) ==
  /\ IsFiniteSet(ids) /\ DOMAIN docs = ids
  /\ \A d \in ids : \A x \in DOMAIN docs[d].qty : docs[d].qty[x] \in Nat

\* The two tables differ in one document, which is active in one of them.
Activates(on, off, ids, d) ==
  /\ Tabled(on, ids) /\ Tabled(off, ids) /\ d \in ids
  /\ on[d].status = "ACTIVE" /\ off[d].status # "ACTIVE"
  /\ \A x \in ids \ {d} : on[x] = off[x]

Share(docs, x) ==
  [d \in DOMAIN docs |->
     IF docs[d].status = "ACTIVE" /\ x \in DOMAIN docs[d].qty THEN docs[d].qty[x] ELSE 0]

LEMMA SharesAre ==
  ASSUME NEW docs, NEW ids, Tabled(docs, ids), NEW x
  PROVE  /\ ActiveQuantity(docs, x) = SumFunction(Share(docs, x))
         /\ Share(docs, x) \in [ids -> Nat]
         /\ Share(docs, x) \in [ids -> Int]
         /\ ActiveQuantity(docs, x) \in Nat
<1>1. ActiveQuantity(docs, x) = SumFunction(Share(docs, x))
  BY DEF ActiveQuantity, Share
<1>2. Share(docs, x) \in [ids -> Nat]
  BY DEF Share, Tabled
<1>3. SumFunction(Share(docs, x)) \in Nat
  BY <1>2, SumNat DEF Tabled
<1>. QED
  BY <1>1, <1>2, <1>3

\* A document that is active adds what it says.
LEMMA OneMoreActive ==
  ASSUME NEW on, NEW off, NEW ids, NEW d, Activates(on, off, ids, d), NEW x
  PROVE  ActiveQuantity(on, x) = ActiveQuantity(off, x) + At(on[d].qty, x)
<1> DEFINE f == Share(off, x)
           g == Share(on, x)
<1>1. f \in [ids -> Int] /\ g \in [ids -> Int] /\ IsFiniteSet(ids) /\ d \in ids
  BY SharesAre DEF Activates, Tabled
<1>2. \A y \in ids \ {d} : g[y] = f[y]
  BY DEF Share, Activates, Tabled
<1>3. f[d] = 0 /\ g[d] = At(on[d].qty, x)
  BY DEF Share, Activates, Tabled, At
<1>4. ActiveQuantity(on, x) = SumFunction(g) /\ ActiveQuantity(off, x) = SumFunction(f)
  BY SharesAre DEF Activates
<1> HIDE DEF f, g
<1>5. SumFunction(g) = (SumFunction(f) - f[d]) + g[d]
  BY <1>1, <1>2, SumUpdate
<1>6. SumFunction(f) \in Int /\ g[d] \in Int
  BY <1>1, SumType
<1>. QED
  BY <1>3, <1>4, <1>5, <1>6

\* What receipts have brought in of a product.
LinesOf(p) == {l \in Lines : LineProduct[l] = p}

Entering(docs, p) == [l \in LinesOf(p) |-> ActiveQuantity(docs, l)]

Entered(docs, p) == SumFunction(Entering(docs, p))

LEMMA EnteringIs ==
  ASSUME NEW docs, NEW ids, Tabled(docs, ids), NEW p
  PROVE  /\ IsFiniteSet(LinesOf(p))
         /\ Entering(docs, p) \in [LinesOf(p) -> Int]
         /\ Entered(docs, p) \in Int
<1>1. IsFiniteSet(LinesOf(p))
  BY FS_Subset, StockValuationAssumption DEF LinesOf
<1>2. Entering(docs, p) \in [LinesOf(p) -> Int]
  BY SharesAre DEF Entering
<1>. QED
  BY <1>1, <1>2, SumType DEF Entered

\* The quantities of a document that are of one product.
ItemsOf(qty, p) == {l \in DOMAIN qty : LineProduct[l] = p}

LEMMA OneMoreReceived ==
  ASSUME NEW on, NEW off, NEW ids, NEW d, Activates(on, off, ids, d),
         DOMAIN on[d].qty \subseteq Lines, NEW p
  PROVE  /\ Entered(on, p) = Entered(off, p) + Total(on[d].qty, ItemsOf(on[d].qty, p))
         /\ Total(on[d].qty, ItemsOf(on[d].qty, p)) \in Int
<1> DEFINE qty == on[d].qty
           f == Entering(off, p)
           h == Entering(on, p)
           g == [l \in LinesOf(p) |-> At(qty, l)]
           part == Restrict(qty, ItemsOf(qty, p))
<1>1. f \in [LinesOf(p) -> Int] /\ h \in [LinesOf(p) -> Int] /\ IsFiniteSet(LinesOf(p))
  BY EnteringIs DEF Activates
<1>2. \A l \in DOMAIN qty : qty[l] \in Nat
  BY DEF Activates, Tabled
<1>3. g \in [LinesOf(p) -> Int]
  BY <1>2 DEF At
<1>4. \A l \in LinesOf(p) : h[l] = f[l] + g[l]
  BY OneMoreActive DEF Entering
<1>5. Supports(part, ItemsOf(qty, p), g, LinesOf(p))
  <2>1. ItemsOf(qty, p) \subseteq LinesOf(p)
    BY DEF ItemsOf, LinesOf
  <2>2. IsFiniteSet(ItemsOf(qty, p))
    BY <1>1, <2>1, FS_Subset
  <2>3. part \in [ItemsOf(qty, p) -> Int]
    BY <1>2 DEF ItemsOf, Restrict
  <2>4. \A l \in LinesOf(p) \ ItemsOf(qty, p) : g[l] = 0
    BY DEF ItemsOf, LinesOf, At
  <2>5. \A l \in ItemsOf(qty, p) : part[l] = g[l]
    BY <2>1 DEF ItemsOf, Restrict, At
  <2>. QED
    BY <1>1, <1>3, <2>1, <2>2, <2>3, <2>4, <2>5 DEF Supports, Addends
<1> HIDE DEF f, h, g, part
<1>6. SumFunction(h) = SumFunction(f) + SumFunction(g)
  BY <1>1, <1>3, <1>4, SumPlus
<1>7. SumFunction(part) = SumFunction(g)
  BY <1>5, SumSupport
<1>8. SumFunction(g) \in Int
  BY <1>1, <1>3, SumType
<1>. QED
  BY <1>6, <1>7, <1>8 DEF Entered, Total, f, h, part

-----------------------------------------------------------------------------
(* Tables of valuations, as sums *)

Table(T) == T \subseteq Valuation /\ IsFiniteSet(T)

OfProduct(p, T) == {row \in T : row.product = p}

Units(p, T) == [row \in OfProduct(p, T) |-> Sign(row) * row.quantity]
Worth(p, T) == [row \in OfProduct(p, T) |-> Sign(row) * row.cost]

LEMMA SignIs ==
  ASSUME NEW row \in Valuation
  PROVE  /\ Sign(row) \in {1, -1}
         /\ Sign(row) * row.quantity \in Int /\ Sign(row) * row.cost \in Int
         /\ Sign(row) = 1 => Sign(row) * row.quantity = row.quantity /\ Sign(row) * row.cost = row.cost
         /\ Sign(row) = -1 => Sign(row) * row.quantity = -row.quantity /\ Sign(row) * row.cost = -row.cost
<1>1. Sign(row) \in {1, -1}
  BY DEF Sign
<1>2. row.quantity \in Int /\ row.cost \in Int
  BY DEF Valuation
<1>. QED
  BY <1>1, <1>2

LEMMA PoolIs ==
  ASSUME NEW T, Table(T), NEW p
  PROVE  /\ Pool(p, T) = [quantity |-> SumFunction(Units(p, T)), value |-> SumFunction(Worth(p, T))]
         /\ Addends(Units(p, T), OfProduct(p, T)) /\ Addends(Worth(p, T), OfProduct(p, T))
         /\ SumFunction(Units(p, T)) \in Int /\ SumFunction(Worth(p, T)) \in Int
<1>1. Pool(p, T) = [quantity |-> SumFunction(Units(p, T)), value |-> SumFunction(Worth(p, T))]
  BY DEF Pool, Units, Worth, OfProduct
<1>2. IsFiniteSet(OfProduct(p, T))
  BY FS_Subset DEF Table, OfProduct
<1>3. \A row \in OfProduct(p, T) : row \in Valuation
  BY DEF OfProduct, Table
<1>4. Units(p, T) \in [OfProduct(p, T) -> Int] /\ Worth(p, T) \in [OfProduct(p, T) -> Int]
  BY <1>3, SignIs DEF Units, Worth
<1>. QED
  BY <1>1, <1>2, <1>4, SumType DEF Addends

\* The pool of two tables without a row in common.
LEMMA PoolOfBoth ==
  ASSUME NEW T, NEW U, Table(T), Table(U), T \cap U = {}, NEW p
  PROVE  /\ Table(T \cup U)
         /\ Pool(p, T \cup U).quantity = Pool(p, T).quantity + Pool(p, U).quantity
         /\ Pool(p, T \cup U).value = Pool(p, T).value + Pool(p, U).value
<1>1. Table(T \cup U)
  BY FS_Union DEF Table
<1>2. /\ OfProduct(p, T) \cup OfProduct(p, U) = OfProduct(p, T \cup U)
      /\ OfProduct(p, T) \cap OfProduct(p, U) = {}
  BY DEF OfProduct
<1>3. Shares(Units(p, T \cup U), OfProduct(p, T \cup U),
             Units(p, T), OfProduct(p, T), Units(p, U), OfProduct(p, U))
  BY <1>1, <1>2, PoolIs DEF Shares, Units
<1>4. Shares(Worth(p, T \cup U), OfProduct(p, T \cup U),
             Worth(p, T), OfProduct(p, T), Worth(p, U), OfProduct(p, U))
  BY <1>1, <1>2, PoolIs DEF Shares, Worth
<1>5. SumFunction(Units(p, T \cup U)) = SumFunction(Units(p, T)) + SumFunction(Units(p, U))
  BY <1>3, SumParts
<1>6. SumFunction(Worth(p, T \cup U)) = SumFunction(Worth(p, T)) + SumFunction(Worth(p, U))
  BY <1>4, SumParts
<1>. QED
  BY <1>1, <1>5, <1>6, PoolIs

\* The reversal of a row, and of a table of originals.
Reversed(row) == Row(row.doc, row.item, row.product, "REVERSAL", row.quantity, row.cost)

ReversalOf(U, T) ==
  /\ Table(T) /\ \A row \in T : row.event = "ORIGINAL"
  /\ U = {Reversed(row) : row \in T}

LEMMA ReversedIs ==
  ASSUME NEW row \in Valuation, row.event = "ORIGINAL"
  PROVE  /\ Reversed(row) \in Valuation
         /\ Reversed(row).doc = row.doc /\ Reversed(row).item = row.item
         /\ Reversed(row).product = row.product /\ Reversed(row).event = "REVERSAL"
         /\ Reversed(row).quantity = row.quantity /\ Reversed(row).cost = row.cost
         /\ Sign(Reversed(row)) * row.quantity = -(Sign(row) * row.quantity)
         /\ Sign(Reversed(row)) * row.cost = -(Sign(row) * row.cost)
         /\ row = Row(row.doc, row.item, row.product, "ORIGINAL", row.quantity, row.cost)
<1>1. /\ Reversed(row) \in Valuation
      /\ Reversed(row).doc = row.doc /\ Reversed(row).item = row.item
      /\ Reversed(row).product = row.product /\ Reversed(row).event = "REVERSAL"
      /\ Reversed(row).quantity = row.quantity /\ Reversed(row).cost = row.cost
  BY DEF Reversed, Row, Valuation
<1>2. Sign(Reversed(row)) = IF Sign(row) = 1 THEN -1 ELSE 1
  BY <1>1 DEF Sign
<1>3. row = Row(row.doc, row.item, row.product, "ORIGINAL", row.quantity, row.cost)
  BY DEF Row, Valuation
<1>. QED
  BY <1>1, <1>2, <1>3, SignIs

LEMMA ReversalIsTable ==
  ASSUME NEW U, NEW T, ReversalOf(U, T)
  PROVE  /\ Table(U)
         /\ \A row, other \in T : Reversed(row) = Reversed(other) => row = other
<1>1. \A row \in T : row \in Valuation /\ row.event = "ORIGINAL"
  BY DEF ReversalOf, Table
<1>2. U \subseteq Valuation
  BY <1>1, ReversedIs DEF ReversalOf
<1>3. IsFiniteSet(U)
  <2> DEFINE g == [row \in T |-> Reversed(row)]
  <2>1. U = {g[row] : row \in T}
    BY DEF ReversalOf
  <2>2. g \in Surjection(T, U)
    BY <2>1 DEF Surjection
  <2>. QED
    BY <2>2, FS_Surjection DEF ReversalOf, Table
<1>4. ASSUME NEW row \in T, NEW other \in T, Reversed(row) = Reversed(other)
      PROVE  row = other
  BY <1>1, <1>4, ReversedIs
<1>. QED
  BY <1>2, <1>3, <1>4 DEF Table

\* Reversals take out of the pool what the originals brought, or the reverse.
LEMMA PoolOfReversal ==
  ASSUME NEW U, NEW T, ReversalOf(U, T), NEW p
  PROVE  /\ Pool(p, U).quantity = -Pool(p, T).quantity
         /\ Pool(p, U).value = -Pool(p, T).value
<1> DEFINE name == [row \in OfProduct(p, T) |-> Reversed(row)]
           units == [row \in OfProduct(p, T) |-> -Units(p, T)[row]]
           worth == [row \in OfProduct(p, T) |-> -Worth(p, T)[row]]
<1>1. Table(T) /\ Table(U)
  BY ReversalIsTable DEF ReversalOf
<1>2. Addends(Units(p, T), OfProduct(p, T)) /\ Addends(Worth(p, T), OfProduct(p, T))
  BY <1>1, PoolIs
<1>3. Addends(units, OfProduct(p, T)) /\ Addends(worth, OfProduct(p, T))
  BY <1>2 DEF Addends
<1>4. \A row \in OfProduct(p, T) : row \in T /\ row \in Valuation /\ row.event = "ORIGINAL"
  BY <1>1 DEF OfProduct, Table, ReversalOf
<1>5. /\ \A row \in OfProduct(p, T) : name[row] \in OfProduct(p, U)
      /\ \A row, other \in OfProduct(p, T) : name[row] = name[other] => row = other
      /\ \A e \in OfProduct(p, U) : \E row \in OfProduct(p, T) : name[row] = e
  <2>1. \A row \in OfProduct(p, T) : name[row] \in OfProduct(p, U)
    BY <1>4, ReversedIs DEF OfProduct, ReversalOf
  <2>2. \A row, other \in OfProduct(p, T) : name[row] = name[other] => row = other
    BY <1>4, ReversalIsTable
  <2>3. ASSUME NEW e \in OfProduct(p, U)
        PROVE  \E row \in OfProduct(p, T) : name[row] = e
    <3>1. PICK row \in T : e = Reversed(row)
      BY DEF OfProduct, ReversalOf
    <3>2. row \in OfProduct(p, T)
      BY <1>1, <3>1, ReversedIs DEF OfProduct, ReversalOf, Table
    <3>. QED
      BY <3>1, <3>2
  <2>. QED
    BY <2>1, <2>2, <2>3
<1>6. \A row \in OfProduct(p, T) :
        /\ Units(p, U)[name[row]] = units[row]
        /\ Worth(p, U)[name[row]] = worth[row]
  BY <1>4, <1>5, ReversedIs DEF Units, Worth
<1>7. Renames(Units(p, U), OfProduct(p, U), units, OfProduct(p, T), name)
  BY <1>1, <1>3, <1>5, <1>6, PoolIs DEF Renames
<1>8. Renames(Worth(p, U), OfProduct(p, U), worth, OfProduct(p, T), name)
  BY <1>1, <1>3, <1>5, <1>6, PoolIs DEF Renames
<1>9. SumFunction(units) = -SumFunction(Units(p, T)) /\ SumFunction(worth) = -SumFunction(Worth(p, T))
  BY <1>2, <1>3, SumOpposite DEF Addends
<1> HIDE DEF name, units, worth
<1>10. SumFunction(Units(p, U)) = -SumFunction(Units(p, T))
  BY <1>7, <1>9, SumRenamed
<1>11. SumFunction(Worth(p, U)) = -SumFunction(Worth(p, T))
  BY <1>8, <1>9, SumRenamed
<1>. QED
  BY <1>1, <1>10, <1>11, PoolIs

-----------------------------------------------------------------------------
(* Shares of an amount *)

\* A share of less than the whole is no more than the whole, rounded or not.
LEMMA ShareIsPart ==
  ASSUME NEW amount \in Nat, NEW whole \in Nat \ {0}, NEW part \in Nat, part <= whole
  PROVE  HalfUp(amount * part, whole) \in Nat /\ HalfUp(amount * part, whole) <= amount
<1> DEFINE n == amount * part
           x == 2 * n + whole
           m == 2 * whole
<1>1. n \in Nat /\ n <= amount * whole
  <2>1. PICK rest \in Nat : whole = part + rest
    BY whole - part \in Nat /\ whole = part + (whole - part)
  <2>2. amount * whole = amount * part + amount * rest
    BY <2>1
  <2>3. amount * part \in Nat /\ amount * rest \in Nat
    BY <2>1
  <2>. QED
    BY <2>2, <2>3
<1>2. HalfUp(n, whole) = x \div m
  BY <1>1 DEF HalfUp
<1>3. x \in Nat /\ m \in Nat \ {0} /\ m * (amount + 1) = 2 * (amount * whole) + 2 * whole
  BY <1>1
<1>4. x < m * (amount + 1)
  <2> DEFINE product == amount * whole
  <2>1. product \in Nat
    OBVIOUS
  <2>2. n <= product /\ m * (amount + 1) = 2 * product + 2 * whole
    BY <1>1, <1>3
  <2> HIDE DEF product, n
  <2>. QED
    BY <1>1, <2>1, <2>2
<1> HIDE DEF n, x, m
<1>5. x \div m \in Nat /\ x \div m <= amount
  <2>1. x = m * (x \div m) + (x % m) /\ x % m \in 0..(m - 1) /\ x \div m \in Nat
    BY <1>3
  <2>2. CASE x \div m >= amount + 1
    <3>1. m * (x \div m) >= m * (amount + 1)
      BY <1>3, <2>1, <2>2
    <3>. QED
      BY <1>3, <1>4, <2>1, <3>1
  <2>. QED
    BY <2>1, <2>2
<1>. QED
  BY <1>2, <1>5 DEF n

-----------------------------------------------------------------------------
(* What is capitalized of a line *)

CapitalizedRows(T, active, l) ==
  {row \in T : row.event = "ORIGINAL" /\ row.doc \in active /\ row.item = l}

Costs(rowsOf) == [row \in rowsOf |-> row.cost]

CapitalizedIn(T, active, l) == SumFunction(Costs(CapitalizedRows(T, active, l)))

LEMMA CostsAre ==
  ASSUME NEW T, Table(T), NEW S, S \subseteq T
  PROVE  /\ IsFiniteSet(S) /\ Costs(S) \in [S -> Nat] /\ Costs(S) \in [S -> Int]
         /\ SumFunction(Costs(S)) \in Nat
<1>1. IsFiniteSet(S) /\ \A row \in S : row.cost \in Nat
  BY FS_Subset DEF Table, Valuation
<1>2. Costs(S) \in [S -> Nat]
  BY <1>1 DEF Costs
<1>. QED
  BY <1>1, <1>2, SumNat

LEMMA CostsOfPart ==
  ASSUME NEW T, Table(T), NEW S, S \subseteq T, NEW R, R \subseteq S
  PROVE  SumFunction(Costs(R)) <= SumFunction(Costs(S))
<1>1. Within(Costs(R), R, Costs(S), S)
  BY CostsAre DEF Within, Costs
<1>. QED
  BY <1>1, SumOfPart

\* A row more.
LEMMA CostsOfOneMore ==
  ASSUME NEW T, Table(T), NEW S, S \subseteq T, NEW row \in T, row \notin S
  PROVE  SumFunction(Costs(S \cup {row})) = row.cost + SumFunction(Costs(S))
<1>1. S \cup {row} \subseteq T
  OBVIOUS
<1>2. HasOneMore(Costs(S \cup {row}), S \cup {row}, Costs(S), S, row)
  BY <1>1, CostsAre DEF HasOneMore, Addends, Costs
<1>3. Costs(S \cup {row})[row] = row.cost
  BY DEF Costs
<1>. QED
  BY <1>2, <1>3, SumAdd

-----------------------------------------------------------------------------
(* What a sale consumes, and what the ledger says of it *)

RowsOf(T, d) == {row \in T : row.doc = d}
Taken(S) == [row \in S |-> -Sign(row) * row.cost]
ConsumedIn(T, d) == SumFunction(Taken(RowsOf(T, d)))

EntriesOf(C, d) == {e \in C : e.sale = d}
Posted(S) == [e \in S |-> IF e.event = "ORIGINAL" THEN e.amount ELSE -e.amount]
PostedIn(C, d) == SumFunction(Posted(EntriesOf(C, d)))

\* What is consumed is taken back by the reversal of all the rows.
LEMMA ConsumptionTakenBack ==
  ASSUME NEW U, NEW T, ReversalOf(U, T)
  PROVE  SumFunction(Taken(T \cup U)) = 0
<1> DEFINE name == [row \in T |-> Reversed(row)]
           f == Taken(T \cup U)
<1>1. Table(T) /\ Table(U) /\ \A row \in T : row \in Valuation /\ row.event = "ORIGINAL"
  BY ReversalIsTable DEF ReversalOf, Table
<1>2. \A row \in T \cup U : -Sign(row) * row.cost \in Int
  <2>1. \A row \in T \cup U : row \in Valuation
    BY <1>1 DEF Table
  <2>2. \A row \in Valuation : Sign(row) \in Int /\ row.cost \in Int
    BY SignIs DEF Valuation
  <2>. QED
    BY <2>1, <2>2
<1>3. f \in [T \cup U -> Int]
  BY <1>2 DEF Taken
<1>4. T \cap U = {}
  BY <1>1, ReversedIs DEF ReversalOf
<1>5. \A row \in T : name[row] \in U /\ f[name[row]] = -f[row]
  <2>1. ASSUME NEW row \in T
        PROVE  name[row] \in U /\ f[name[row]] = -f[row]
    <3>1. name[row] = Reversed(row) /\ Reversed(row) \in U /\ Reversed(row) \in Valuation
      BY <1>1, ReversedIs DEF ReversalOf
    <3>2. f[row] = -Sign(row) * row.cost /\ f[Reversed(row)] = -Sign(Reversed(row)) * row.cost
      BY <1>1, <3>1, ReversedIs DEF Taken
    <3>3. Sign(row) \in {1, -1} /\ Sign(Reversed(row)) \in {1, -1} /\ row.cost \in Int
      BY <1>1, <3>1, SignIs DEF Valuation
    <3>4. Sign(Reversed(row)) * row.cost = -(Sign(row) * row.cost)
      BY <1>1, ReversedIs
    <3>. QED
      BY <3>1, <3>2, <3>3, <3>4
  <2>. QED
    BY <2>1
<1>6. TakesBack(f, T, U, name)
  BY <1>1, <1>3, <1>4, <1>5, ReversalIsTable DEF TakesBack, Table, ReversalOf
<1>. QED
  BY <1>6, SumTakenBack

ReversedEntry(e) == Entry(e.sale, "REVERSAL", e.amount)

LEMMA EntriesTakenBack ==
  ASSUME NEW C, C \subseteq CogsEntry, IsFiniteSet(C), \A e \in C : e.event = "ORIGINAL",
         NEW R, R = {ReversedEntry(e) : e \in C}
  PROVE  /\ R \subseteq CogsEntry /\ IsFiniteSet(R)
         /\ SumFunction(Posted(C \cup R)) = 0
<1> DEFINE name == [e \in C |-> ReversedEntry(e)]
           f == Posted(C \cup R)
<1>1. \A e \in C : e.sale \in Sales /\ e.amount \in Nat \ {0} /\ e = Entry(e.sale, "ORIGINAL", e.amount)
  BY DEF CogsEntry, Entry
<1>2. R \subseteq CogsEntry
  BY <1>1 DEF CogsEntry, ReversedEntry, Entry
<1>3. IsFiniteSet(R)
  <2>1. R = {name[e] : e \in C}
    OBVIOUS
  <2>2. name \in Surjection(C, R)
    BY <2>1 DEF Surjection
  <2>. QED
    BY <2>2, FS_Surjection
<1>4. f \in [C \cup R -> Int]
  BY <1>2 DEF Posted, CogsEntry
<1>5. C \cap R = {}
  BY DEF ReversedEntry, Entry
<1>6. \A e \in C : name[e] \in R /\ f[name[e]] = -f[e]
  BY <1>1 DEF Posted, ReversedEntry, Entry
<1>7. \A e, o \in C : name[e] = name[o] => e = o
  BY <1>1 DEF ReversedEntry, Entry
<1>8. TakesBack(f, C, R, name)
  BY <1>3, <1>4, <1>5, <1>6, <1>7 DEF TakesBack
<1>9. SumFunction(f) = 0
  BY <1>8, SumTakenBack
<1>. QED
  BY <1>2, <1>3, <1>9

-----------------------------------------------------------------------------
(* The inductive invariant *)

\* What a document says; the items of a receipt are lines, those of a sale
\* products.
DocumentIn(rec, sal, d) == IF d \in Receipts THEN rec[d] ELSE sal[d]

ItemProduct(d, item) == IF d \in Receipts THEN LineProduct[item] ELSE item

ActiveOf(docs) == {d \in Receipts : docs[d].status = "ACTIVE"}

\* Every valuation is of an item of its document, and that of a reversal comes
\* with the cancellation; so do the entries of sales.
RowsFit(T, rec, sal) ==
  \A row \in T :
    /\ row.item \in DOMAIN DocumentIn(rec, sal, row.doc).qty
    /\ row.product = ItemProduct(row.doc, row.item)
    /\ row.product \in Valued
    /\ DocumentIn(rec, sal, row.doc).status \in
         IF row.event = "ORIGINAL" THEN {"ACTIVE", "CANCELLED"} ELSE {"CANCELLED"}

EntriesFit(C, sal) ==
  \A e \in C :
    sal[e.sale].status \in
      IF e.event = "ORIGINAL" THEN {"ACTIVE", "CANCELLED"} ELSE {"CANCELLED"}

\* The properties, of the rows that they read.
StockStands(st, man, rec, sal) ==
  \A p \in Products : st[p] = man[p] - ActiveQuantity(sal, p) + Entered(rec, p)

ReceivedStands(rec, inv) ==
  \A l \in Lines : ActiveQuantity(rec, l) <= IF inv = "CANCELLED" THEN 0 ELSE LineQuantity[l]

CapitalStands(T, rec) ==
  \A l \in Lines : LineProduct[l] \in Valued =>
    /\ CapitalizedIn(T, ActiveOf(rec), l) <= LineAmount[l]
    /\ ActiveQuantity(rec, l) = LineQuantity[l]
         => CapitalizedIn(T, ActiveOf(rec), l) = LineAmount[l]

LiveRows(T, rec, sal) ==
  {row \in T : row.event = "ORIGINAL" /\ DocumentIn(rec, sal, row.doc).status = "ACTIVE"}

PoolStands(T, rec, sal) ==
  \A p \in Products :
    /\ Pool(p, T).quantity = Pool(p, LiveRows(T, rec, sal)).quantity
    /\ Pool(p, T).value = Pool(p, LiveRows(T, rec, sal)).value
    /\ Pool(p, T).quantity >= 0

CogsStands(T, C) == \A d \in Sales : ConsumedIn(T, d) = PostedIn(C, d)

\* The shape of rows.
Shape ==
  /\ stock \in [Products -> 0..MaxStock]
  /\ manual \in [Products -> Int]
  /\ \A p \in Products : manual[p] \in -MaxManual[p]..MaxManual[p]
  /\ invoice \in {"CONFIRMED", "CANCELLED"}
  /\ receipts \in [Receipts -> Document(Lines, MaxLine) \cup {NoDocument}]
  /\ sales \in [Sales -> Document(Products, MaxStock) \cup {NoDocument}]
  /\ Table(valuations)
  /\ cogs \subseteq CogsEntry /\ IsFiniteSet(cogs)

RowsStand ==
  /\ Shape
  /\ RowsFit(valuations, receipts, sales)
  /\ EntriesFit(cogs, sales)
  /\ StockStands(stock, manual, receipts, sales)
  /\ ReceivedStands(receipts, invoice)
  /\ CapitalStands(valuations, receipts)
  /\ PoolStands(valuations, receipts, sales)
  /\ CogsStands(valuations, cogs)

RequestTypes ==
  /\ productLock \in [Products -> Requests \cup {NoRequest}]
  /\ invoiceLock \in Requests \cup {NoRequest}
  /\ docLock \in [Docs -> Requests \cup {NoRequest}]
  /\ pc \in [Requests -> Places]
  /\ reqDoc \in [Requests -> SUBSET Docs]
  /\ reqQty = [r \in Requests |-> reqQty[r]]
  /\ reqPrior = [r \in Requests |-> reqPrior[r]]
  /\ reqSeen = [r \in Requests |-> reqSeen[r]]

\* What a request has read of a product stays true: it holds its lock.
SeenStands(r) ==
  \A p \in DOMAIN reqSeen[r] :
    /\ p \in Products /\ productLock[p] = r
    /\ reqSeen[r][p].stock = stock[p]
    /\ reqSeen[r][p].quantity = Pool(p, valuations).quantity
    /\ reqSeen[r][p].value = Pool(p, valuations).value

\* The invoice is locked by the only receipt under way: what it has read as
\* received can only become less, by a cancellation.
ReceivingStands(r) ==
  /\ invoiceLock = r /\ invoice = "CONFIRMED"
  /\ \E d \in Receipts : reqDoc[r] = {d} /\ receipts[d] = NoDocument
  /\ reqQty[r] \in Quantities(Lines, MaxLine)
  /\ reqPrior[r] \in [DOMAIN reqQty[r] -> Nat]
  /\ \A l \in DOMAIN reqQty[r] :
       /\ ActiveQuantity(receipts, l) <= reqPrior[r][l]
       /\ reqPrior[r][l] + reqQty[r][l] <= LineQuantity[l]

\* A document that is being cancelled is active until then.
CancellingStands(r, docs, ids) ==
  \E d \in ids :
    /\ reqDoc[r] = {d} /\ docLock[d] = r
    /\ docs[d].status = "ACTIVE" /\ reqQty[r] = docs[d].qty

RequestOK(r) ==
  /\ SeenStands(r)
  /\ pc[r] = "idle" => reqSeen[r] = None /\ reqQty[r] = None
  /\ pc[r] = "receiving" => ReceivingStands(r)
  /\ pc[r] = "unreceiving" => CancellingStands(r, receipts, Receipts)
  /\ pc[r] = "selling" =>
       /\ \E d \in Sales : reqDoc[r] = {d}
       /\ reqQty[r] \in Quantities(Products, MaxStock)
  /\ pc[r] = "unselling" => CancellingStands(r, sales, Sales)

IInv ==
  /\ RowsStand
  /\ RequestTypes
  /\ \A r \in Requests : RequestOK(r)

-----------------------------------------------------------------------------
(* The rows, and the properties that speak of them *)

LEMMA QuantitiesAre ==
  ASSUME NEW S, NEW max, NEW q \in Quantities(S, max)
  PROVE  /\ DOMAIN q \subseteq S
         /\ \A x \in DOMAIN q : q[x] \in Nat \ {0}
BY DEF Quantities

LEMMA DocumentsAre ==
  ASSUME NEW S, NEW max, NEW ids, IsFiniteSet(ids),
         NEW docs \in [ids -> Document(S, max) \cup {NoDocument}]
  PROVE  /\ Tabled(docs, ids)
         /\ \A d \in ids :
              /\ DOMAIN docs[d].qty \subseteq S
              /\ \A x \in DOMAIN docs[d].qty : docs[d].qty[x] \in Nat \ {0}
              /\ docs[d].status \in {"ACTIVE", "CANCELLED", "NONE"}
              /\ docs[d].status # "NONE" => docs[d] \in Document(S, max)
<1>1. ASSUME NEW d \in ids
      PROVE  /\ DOMAIN docs[d].qty \subseteq S
             /\ \A x \in DOMAIN docs[d].qty : docs[d].qty[x] \in Nat \ {0}
             /\ docs[d].status \in {"ACTIVE", "CANCELLED", "NONE"}
             /\ docs[d].status # "NONE" => docs[d] \in Document(S, max)
  <2>1. CASE docs[d] \in Document(S, max)
    BY <2>1, QuantitiesAre DEF Document
  <2>2. CASE docs[d] = NoDocument
    BY <2>2 DEF NoDocument, None
  <2>. QED
    BY <2>1, <2>2
<1>. QED
  BY <1>1 DEF Tabled

LEMMA ReceiptsTabled ==
  ASSUME NEW docs \in [Receipts -> Document(Lines, MaxLine) \cup {NoDocument}]
  PROVE  Tabled(docs, Receipts)
BY DocumentsAre, StockValuationAssumption

LEMMA SalesTabled ==
  ASSUME NEW docs \in [Sales -> Document(Products, MaxStock) \cup {NoDocument}]
  PROVE  Tabled(docs, Sales)
BY DocumentsAre, StockValuationAssumption

LEMMA TablesAre ==
  ASSUME Shape
  PROVE  /\ Tabled(receipts, Receipts) /\ Tabled(sales, Sales)
         /\ \A d \in Receipts :
              /\ DOMAIN receipts[d].qty \subseteq Lines
              /\ \A x \in DOMAIN receipts[d].qty : receipts[d].qty[x] \in Nat \ {0}
              /\ receipts[d].status \in {"ACTIVE", "CANCELLED", "NONE"}
              /\ receipts[d].status # "NONE" => receipts[d] \in Document(Lines, MaxLine)
         /\ \A d \in Sales :
              /\ DOMAIN sales[d].qty \subseteq Products
              /\ \A x \in DOMAIN sales[d].qty : sales[d].qty[x] \in Nat \ {0}
              /\ sales[d].status \in {"ACTIVE", "CANCELLED", "NONE"}
              /\ sales[d].status # "NONE" => sales[d] \in Document(Products, MaxStock)
         /\ \A x : ActiveQuantity(receipts, x) \in Nat /\ ActiveQuantity(sales, x) \in Nat
<1>1. IsFiniteSet(Receipts) /\ IsFiniteSet(Sales)
  BY StockValuationAssumption
<1>. QED
  BY <1>1, DocumentsAre, SharesAre DEF Shape

\* Received adds up active receipts only.
LEMMA ReceivedIs ==
  ASSUME Shape, NEW l
  PROVE  Received(l) = ActiveQuantity(receipts, l)
<1> DEFINE part == [d \in ActiveReceipts |-> ReceivedOf(d, l)]
           whole == Share(receipts, l)
<1>1. whole \in [Receipts -> Int] /\ ActiveQuantity(receipts, l) = SumFunction(whole)
  BY TablesAre, SharesAre
<1>2. ActiveReceipts \subseteq Receipts /\ IsFiniteSet(Receipts) /\ IsFiniteSet(ActiveReceipts)
  BY FS_Subset, StockValuationAssumption DEF ActiveReceipts
<1>3. DOMAIN receipts = Receipts
  BY DEF Shape
<1>4. \A d \in ActiveReceipts : part[d] = whole[d]
  BY <1>3 DEF ActiveReceipts, ReceivedOf, Share
<1>5. \A d \in Receipts \ ActiveReceipts : whole[d] = 0
  BY <1>3 DEF ActiveReceipts, Share
<1>6. part \in [ActiveReceipts -> Int]
  BY <1>1, <1>2, <1>4
<1> HIDE DEF part, whole
<1>7. Supports(part, ActiveReceipts, whole, Receipts)
  BY <1>1, <1>2, <1>4, <1>5, <1>6 DEF Supports, Addends
<1>8. SumFunction(part) = SumFunction(whole)
  BY <1>7, SumSupport
<1>. QED
  BY <1>1, <1>8 DEF Received, part

LEMMA StockProperty ==
  ASSUME RowsStand
  PROVE  StockMatchesDocuments
<1>1. \A l : Received(l) = ActiveQuantity(receipts, l)
  BY ReceivedIs DEF RowsStand
<1>2. \A p : [l \in {l \in Lines : LineProduct[l] = p} |-> Received(l)] = Entering(receipts, p)
  BY <1>1 DEF Entering, LinesOf
<1>. QED
  BY <1>1, <1>2 DEF RowsStand, StockStands, ReceivedStands, StockMatchesDocuments, Entered

LEMMA CapitalizedIs ==
  ASSUME NEW l
  PROVE  Capitalized(l) = CapitalizedIn(valuations, ActiveOf(receipts), l)
BY DEF Capitalized, CapitalizedIn, CapitalizedRows, Costs, ActiveReceipts, ActiveOf

LEMMA CapitalProperty ==
  ASSUME RowsStand
  PROVE  LineCapitalizedExactly
BY ReceivedIs, CapitalizedIs DEF RowsStand, CapitalStands, LineCapitalizedExactly

LEMMA ValuationProperty ==
  ASSUME RowsStand
  PROVE  ValuationMatchesDocuments
<1>1. LiveRows(valuations, receipts, sales)
        = {row \in valuations : row.event = "ORIGINAL" /\ StatusOf(row.doc) = "ACTIVE"}
  BY DEF LiveRows, StatusOf, DocumentIn
<1>2. Table(LiveRows(valuations, receipts, sales)) /\ Table(valuations)
  BY FS_Subset DEF Table, LiveRows, RowsStand, Shape
<1>3. PoolMatchesDocuments
  BY <1>1, <1>2, PoolIs DEF RowsStand, PoolStands, PoolMatchesDocuments
<1>4. CogsMatchesConsumption
  BY DEF RowsStand, CogsStands, CogsMatchesConsumption, ConsumedIn, PostedIn, Taken, Posted,
         RowsOf, EntriesOf
<1>. QED
  BY <1>3, <1>4 DEF ValuationMatchesDocuments

-----------------------------------------------------------------------------
(* A document that opens or closes, and its valuations *)

\* Only the document d is another.
OnlyChanges(d, rec, sal, rec2, sal2) ==
  \A x \in Docs \ {d} : DocumentIn(rec2, sal2, x) = DocumentIn(rec, sal, x)

\* d becomes active, with originals of its own.
Opens(T, N, rec, sal, rec2, sal2, d) ==
  /\ Table(T) /\ Table(N) /\ RowsFit(T, rec, sal)
  /\ DocumentIn(rec, sal, d).status = "NONE"
  /\ DocumentIn(rec2, sal2, d).status = "ACTIVE"
  /\ OnlyChanges(d, rec, sal, rec2, sal2)
  /\ \A row \in N :
       /\ row.doc = d /\ row.event = "ORIGINAL"
       /\ row.item \in DOMAIN DocumentIn(rec2, sal2, d).qty
       /\ row.product = ItemProduct(d, row.item)
       /\ row.product \in Valued

\* The pool is that of the live rows.
PoolIsLive(T, rec, sal) ==
  \A p \in Products :
    /\ Pool(p, T).quantity = Pool(p, LiveRows(T, rec, sal)).quantity
    /\ Pool(p, T).value = Pool(p, LiveRows(T, rec, sal)).value

LEMMA LiveIsTable ==
  ASSUME NEW T, Table(T), NEW rec, NEW sal
  PROVE  Table(LiveRows(T, rec, sal))
BY FS_Subset DEF Table, LiveRows

LEMMA Opening ==
  ASSUME NEW T, NEW N, NEW rec, NEW sal, NEW rec2, NEW sal2, NEW d,
         Opens(T, N, rec, sal, rec2, sal2, d)
  PROVE  /\ T \cap N = {} /\ Table(T \cup N) /\ RowsOf(T, d) = {}
         /\ RowsFit(T \cup N, rec2, sal2)
         /\ PoolIsLive(T, rec, sal) => PoolIsLive(T \cup N, rec2, sal2)
<1>. /\ Table(T) /\ Table(N) /\ RowsFit(T, rec, sal)
     /\ DocumentIn(rec, sal, d).status = "NONE"
     /\ DocumentIn(rec2, sal2, d).status = "ACTIVE"
     /\ OnlyChanges(d, rec, sal, rec2, sal2)
  BY DEF Opens
<1>1. \A row \in T : row.doc \in Docs
  BY DEF Table, Valuation
<1>2. \A row \in T : row.doc # d
  BY DEF RowsFit
<1>3. \A row \in T : DocumentIn(rec2, sal2, row.doc) = DocumentIn(rec, sal, row.doc)
  BY <1>1, <1>2 DEF OnlyChanges
<1>4. T \cap N = {} /\ RowsOf(T, d) = {}
  BY <1>2 DEF Opens, RowsOf
<1>5. RowsFit(T, rec2, sal2)
  BY <1>3 DEF RowsFit
<1>6. RowsFit(N, rec2, sal2)
  BY DEF RowsFit, Opens
<1>7. RowsFit(T \cup N, rec2, sal2)
  BY <1>5, <1>6 DEF RowsFit
<1>8. LiveRows(T \cup N, rec2, sal2) = LiveRows(T, rec, sal) \cup N
  <2>1. \A row \in T : row \in LiveRows(T \cup N, rec2, sal2) <=> row \in LiveRows(T, rec, sal)
    BY <1>3 DEF LiveRows
  <2>2. \A row \in N : row \in LiveRows(T \cup N, rec2, sal2)
    BY DEF LiveRows, Opens
  <2>3. LiveRows(T \cup N, rec2, sal2) \subseteq T \cup N /\ LiveRows(T, rec, sal) \subseteq T
    BY DEF LiveRows
  <2>. QED
    BY <2>1, <2>2, <2>3
<1>9. Table(LiveRows(T, rec, sal)) /\ LiveRows(T, rec, sal) \cap N = {}
  <2>1. Table(LiveRows(T, rec, sal))
    BY LiveIsTable
  <2>2. LiveRows(T, rec, sal) \cap N = {}
    BY <1>4 DEF LiveRows
  <2>. QED
    BY <2>1, <2>2
<1>10. Table(T \cup N)
  BY <1>4, PoolOfBoth
<1>11. ASSUME PoolIsLive(T, rec, sal), NEW p \in Products
       PROVE  /\ Pool(p, T \cup N).quantity = Pool(p, LiveRows(T \cup N, rec2, sal2)).quantity
              /\ Pool(p, T \cup N).value = Pool(p, LiveRows(T \cup N, rec2, sal2)).value
  <2>1. /\ Pool(p, T \cup N).quantity = Pool(p, T).quantity + Pool(p, N).quantity
        /\ Pool(p, T \cup N).value = Pool(p, T).value + Pool(p, N).value
    BY <1>4, PoolOfBoth
  <2> DEFINE live == LiveRows(T, rec, sal)
  <2> HIDE DEF live
  <2>2. /\ Pool(p, live \cup N).quantity = Pool(p, live).quantity + Pool(p, N).quantity
        /\ Pool(p, live \cup N).value = Pool(p, live).value + Pool(p, N).value
    BY <1>9, PoolOfBoth DEF live
  <2>3. Pool(p, T).quantity = Pool(p, live).quantity /\ Pool(p, T).value = Pool(p, live).value
    BY <1>11 DEF PoolIsLive, live
  <2>. QED
    BY <1>8, <2>1, <2>2, <2>3 DEF live
<1>. QED
  BY <1>4, <1>7, <1>10, <1>11 DEF PoolIsLive

\* d is cancelled, with the reversals of its rows.
Closes(T, U, rec, sal, rec2, sal2, d) ==
  /\ Table(T) /\ RowsFit(T, rec, sal)
  /\ DocumentIn(rec, sal, d).status = "ACTIVE"
  /\ DocumentIn(rec2, sal2, d).status = "CANCELLED"
  /\ DocumentIn(rec2, sal2, d).qty = DocumentIn(rec, sal, d).qty
  /\ OnlyChanges(d, rec, sal, rec2, sal2)
  /\ U = {Reversed(row) : row \in RowsOf(T, d)}

LEMMA Closing ==
  ASSUME NEW T, NEW U, NEW rec, NEW sal, NEW rec2, NEW sal2, NEW d,
         Closes(T, U, rec, sal, rec2, sal2, d)
  PROVE  /\ ReversalOf(U, RowsOf(T, d)) /\ T \cap U = {} /\ Table(U) /\ Table(T \cup U)
         /\ RowsFit(T \cup U, rec2, sal2)
         /\ PoolIsLive(T, rec, sal) => PoolIsLive(T \cup U, rec2, sal2)
<1>. /\ Table(T) /\ RowsFit(T, rec, sal)
     /\ DocumentIn(rec, sal, d).status = "ACTIVE"
     /\ DocumentIn(rec2, sal2, d).status = "CANCELLED"
     /\ DocumentIn(rec2, sal2, d).qty = DocumentIn(rec, sal, d).qty
     /\ OnlyChanges(d, rec, sal, rec2, sal2)
     /\ U = {Reversed(row) : row \in RowsOf(T, d)}
  BY DEF Closes
<1> DEFINE R == RowsOf(T, d)
           live == LiveRows(T, rec, sal)
<1>1. \A row \in T : row \in Valuation /\ row.doc \in Docs /\ row.event \in {"ORIGINAL", "REVERSAL"}
  BY DEF Table, Valuation
<1>2. \A row \in R : row \in T /\ row \in Valuation /\ row.doc = d /\ row.event = "ORIGINAL"
  BY <1>1 DEF RowsFit, RowsOf
<1>3. Table(R) /\ ReversalOf(U, R)
  BY <1>2, FS_Subset DEF Table, RowsOf, ReversalOf
<1>4. Table(U)
  BY <1>3, ReversalIsTable
<1>5. \A row \in U : row.event = "REVERSAL" /\ row.doc = d
  BY <1>2, ReversedIs
<1>6. T \cap U = {}
  BY <1>2, <1>5 DEF RowsOf
<1>7. Table(T \cup U)
  BY <1>4, <1>6, PoolOfBoth
<1>8. \A row \in T : row.doc # d => DocumentIn(rec2, sal2, row.doc) = DocumentIn(rec, sal, row.doc)
  BY <1>1 DEF OnlyChanges
<1>9. RowsFit(T, rec2, sal2)
  <2>1. ASSUME NEW row \in T, row.doc = d
        PROVE  /\ row.item \in DOMAIN DocumentIn(rec2, sal2, row.doc).qty
               /\ row.product = ItemProduct(row.doc, row.item)
               /\ row.product \in Valued
               /\ DocumentIn(rec2, sal2, row.doc).status \in
                    IF row.event = "ORIGINAL" THEN {"ACTIVE", "CANCELLED"} ELSE {"CANCELLED"}
    BY <2>1 DEF RowsFit
  <2>. QED
    BY <1>8, <2>1 DEF RowsFit
<1>10. RowsFit(U, rec2, sal2)
  <2>1. ASSUME NEW row \in R
        PROVE  /\ Reversed(row).item \in DOMAIN DocumentIn(rec2, sal2, Reversed(row).doc).qty
               /\ Reversed(row).product = ItemProduct(Reversed(row).doc, Reversed(row).item)
               /\ Reversed(row).product \in Valued
               /\ DocumentIn(rec2, sal2, Reversed(row).doc).status = "CANCELLED"
    BY <1>2, ReversedIs DEF RowsFit
  <2>. QED
    BY <2>1 DEF RowsFit
<1>11. RowsFit(T \cup U, rec2, sal2)
  BY <1>9, <1>10 DEF RowsFit
<1>12. R \subseteq live
  BY <1>2 DEF LiveRows
<1>13. LiveRows(T \cup U, rec2, sal2) = live \ R
  <2>1. \A row \in U : row \notin LiveRows(T \cup U, rec2, sal2)
    BY <1>5 DEF LiveRows
  <2>2. \A row \in T : row \in LiveRows(T \cup U, rec2, sal2) <=> row \in live \ R
    BY <1>8 DEF LiveRows, RowsOf
  <2>3. LiveRows(T \cup U, rec2, sal2) \subseteq T \cup U /\ live \subseteq T
    BY DEF LiveRows
  <2>. QED
    BY <2>1, <2>2, <2>3
<1>14. Table(live) /\ Table(live \ R)
  <2>1. Table(live)
    BY LiveIsTable
  <2>. QED
    BY <2>1, FS_Subset DEF Table
<1> HIDE DEF live, R
<1>15. ASSUME PoolIsLive(T, rec, sal), NEW p \in Products
       PROVE  /\ Pool(p, T \cup U).quantity = Pool(p, LiveRows(T \cup U, rec2, sal2)).quantity
              /\ Pool(p, T \cup U).value = Pool(p, LiveRows(T \cup U, rec2, sal2)).value
  <2>1. /\ Pool(p, T \cup U).quantity = Pool(p, T).quantity + Pool(p, U).quantity
        /\ Pool(p, T \cup U).value = Pool(p, T).value + Pool(p, U).value
    BY <1>4, <1>6, PoolOfBoth
  <2>2. /\ Pool(p, U).quantity = -Pool(p, R).quantity
        /\ Pool(p, U).value = -Pool(p, R).value
    BY <1>3, PoolOfReversal
  <2>3. (live \ R) \cup R = live /\ (live \ R) \cap R = {}
    BY <1>12
  <2>4. /\ Pool(p, live).quantity = Pool(p, live \ R).quantity + Pool(p, R).quantity
        /\ Pool(p, live).value = Pool(p, live \ R).value + Pool(p, R).value
    BY <1>3, <1>14, <2>3, PoolOfBoth
  <2>5. Pool(p, T).quantity = Pool(p, live).quantity /\ Pool(p, T).value = Pool(p, live).value
    BY <1>15 DEF PoolIsLive, live
  <2>6. /\ Pool(p, R).quantity \in Int /\ Pool(p, R).value \in Int
        /\ Pool(p, live \ R).quantity \in Int /\ Pool(p, live \ R).value \in Int
    BY <1>3, <1>14, PoolIs
  <2>7. Pool(p, LiveRows(T \cup U, rec2, sal2)) = Pool(p, live \ R)
    BY <1>13
  <2>8. Pool(p, T \cup U).quantity = Pool(p, live \ R).quantity
    BY <2>1, <2>2, <2>4, <2>5, <2>6
  <2>9. Pool(p, T \cup U).value = Pool(p, live \ R).value
    BY <2>1, <2>2, <2>4, <2>5, <2>6
  <2>. QED
    BY <2>7, <2>8, <2>9
<1>. QED
  BY <1>3, <1>4, <1>6, <1>7, <1>11, <1>15 DEF PoolIsLive, R

-----------------------------------------------------------------------------
(* The stock that a document moves *)

LEMMA TotalOfNone == ASSUME NEW f PROVE Total(f, {}) = 0
<1>1. DOMAIN Restrict(f, {}) = {}
  BY DEF Restrict
<1>. QED
  BY <1>1, SumNothing DEF Total

\* A document of lines moves what its lines of the product say, one of products
\* what it says of the product.
LEMMA MovedIs ==
  ASSUME NEW r \in Requests, NEW p
  PROVE  /\ pc[r] \in InReceipt => QuantityOf(r, p) = Total(reqQty[r], ItemsOf(reqQty[r], p))
         /\ pc[r] \notin InReceipt /\ (\A x \in DOMAIN reqQty[r] : reqQty[r][x] \in Nat)
              => QuantityOf(r, p) = At(reqQty[r], p)
         /\ p \notin ProductsOf(r) => QuantityOf(r, p) = 0
<1> DEFINE items == {item \in DOMAIN reqQty[r] : ProductOf(r, item) = p}
<1>1. ASSUME pc[r] \in InReceipt
      PROVE  QuantityOf(r, p) = Total(reqQty[r], ItemsOf(reqQty[r], p))
  <2>1. items = ItemsOf(reqQty[r], p)
    BY <1>1 DEF ProductOf, ItemsOf
  <2>. QED
    BY <2>1 DEF QuantityOf
<1>2. ASSUME p \notin ProductsOf(r)
      PROVE  QuantityOf(r, p) = 0
  <2>1. items = {}
    BY <1>2 DEF ProductsOf
  <2>. QED
    BY <2>1, TotalOfNone DEF QuantityOf
<1>3. ASSUME pc[r] \notin InReceipt, \A x \in DOMAIN reqQty[r] : reqQty[r][x] \in Nat
      PROVE  QuantityOf(r, p) = At(reqQty[r], p)
  <2>1. CASE p \in DOMAIN reqQty[r]
    <3> DEFINE one == Restrict(reqQty[r], {p})
    <3>1. items = {p}
      BY <1>3, <2>1 DEF ProductOf
    <3>2. one \in [{p} -> Int] /\ one[p] = reqQty[r][p]
      BY <1>3, <2>1 DEF Restrict
    <3> HIDE DEF one
    <3>3. SumFunction(one) = one[p]
      BY <3>2, SumOne
    <3>. QED
      BY <2>1, <3>1, <3>2, <3>3 DEF QuantityOf, Total, At, one
  <2>2. CASE p \notin DOMAIN reqQty[r]
    <3>1. items = {}
      BY <1>3, <2>2 DEF ProductOf
    <3>. QED
      BY <2>2, <3>1, TotalOfNone DEF QuantityOf, At
  <2>. QED
    BY <2>1, <2>2
<1>. QED
  BY <1>1, <1>2, <1>3

\* A request that has locked all its products writes their stock, and no other.
LEMMA StockMoves ==
  ASSUME IInv, NEW r \in Requests, Pending(r) = {}, NEW sign \in {1, -1}, MoveStock(r, sign),
         \A p \in ProductsOf(r) : QuantityOf(r, p) \in Int
  PROVE  /\ \A p \in ProductsOf(r) :
              /\ p \in DOMAIN reqSeen[r] /\ p \in Products /\ productLock[p] = r
              /\ reqSeen[r][p].quantity = Pool(p, valuations).quantity
              /\ reqSeen[r][p].value = Pool(p, valuations).value
         /\ stock' \in [Products -> 0..MaxStock]
         /\ \A p \in Products : stock'[p] = stock[p] + sign * QuantityOf(r, p)
         /\ \A p \in Products \ ProductsOf(r) : stock'[p] = stock[p]
<1> DEFINE moved == [p \in ProductsOf(r) |-> reqSeen[r][p].stock + sign * QuantityOf(r, p)]
<1>1. SeenStands(r) /\ stock \in [Products -> 0..MaxStock]
  BY DEF IInv, RequestOK, RowsStand, Shape
<1>2. ASSUME NEW p \in ProductsOf(r)
      PROVE  /\ p \in DOMAIN reqSeen[r] /\ p \in Products /\ productLock[p] = r
             /\ reqSeen[r][p].stock = stock[p]
             /\ reqSeen[r][p].quantity = Pool(p, valuations).quantity
             /\ reqSeen[r][p].value = Pool(p, valuations).value
  <2>1. PICK item \in DOMAIN reqQty[r] : p = ProductOf(r, item)
    BY <1>2 DEF ProductsOf
  <2>2. p \in DOMAIN reqSeen[r]
    BY <2>1 DEF Pending
  <2>. QED
    BY <1>1, <2>2 DEF SeenStands
<1>3. /\ \A p \in ProductsOf(r) : moved[p] \in 0..MaxStock
      /\ stock' = [p \in Products |-> IF p \in ProductsOf(r) THEN moved[p] ELSE stock[p]]
  BY DEF MoveStock
<1>4. ProductsOf(r) \subseteq Products
  BY <1>2
<1>7. stock' \in [Products -> 0..MaxStock]
  BY <1>1, <1>3, <1>4
<1>8. \A p \in Products \ ProductsOf(r) : stock'[p] = stock[p]
  BY <1>3
<1>9. \A p \in Products : stock'[p] = stock[p] + sign * QuantityOf(r, p)
  <2>1. ASSUME NEW p \in Products, p \in ProductsOf(r)
        PROVE  stock'[p] = stock[p] + sign * QuantityOf(r, p)
    BY <1>2, <1>3, <2>1
  <2>2. ASSUME NEW p \in Products, p \notin ProductsOf(r)
        PROVE  stock'[p] = stock[p] + sign * QuantityOf(r, p)
    <3>1. QuantityOf(r, p) = 0
      BY <2>2, MovedIs
    <3>. QED
      BY <1>1, <1>8, <2>2, <3>1
  <2>. QED
    BY <2>1, <2>2
<1>. QED
  BY <1>2, <1>7, <1>8, <1>9

-----------------------------------------------------------------------------
(* Requests keep apart by their locks *)

\* The other requests and their locks are untouched.
KeepsApart(r) ==
  \A o \in Requests \ {r} :
    /\ pc'[o] = pc[o] /\ reqDoc'[o] = reqDoc[o] /\ reqQty'[o] = reqQty[o]
    /\ reqPrior'[o] = reqPrior[o] /\ reqSeen'[o] = reqSeen[o]
    /\ \A p \in Products : productLock[p] = o => productLock'[p] = o
    /\ invoiceLock = o => invoiceLock' = o
    /\ \A d \in Docs : docLock[d] = o => docLock'[d] = o

\* What the others rely on stays: the stock and the pool of the products that
\* they have locked, the invoice, the documents that they are cancelling, and
\* that no more is received than they have read.
KeepsRows(r) ==
  \A o \in Requests \ {r} :
    /\ \A p \in Products : productLock[p] = o =>
         /\ stock'[p] = stock[p]
         /\ Pool(p, valuations').quantity = Pool(p, valuations).quantity
         /\ Pool(p, valuations').value = Pool(p, valuations).value
    /\ invoiceLock = o =>
         /\ invoice' = invoice
         /\ \A d \in Receipts : receipts[d] = NoDocument => receipts'[d] = NoDocument
         /\ \A l \in Lines : ActiveQuantity(receipts', l) <= ActiveQuantity(receipts, l)
    /\ \A d \in Receipts : docLock[d] = o /\ receipts[d].status = "ACTIVE" => receipts'[d] = receipts[d]
    /\ \A d \in Sales : docLock[d] = o /\ sales[d].status = "ACTIVE" => sales'[d] = sales[d]

LEMMA SeenKept ==
  ASSUME NEW r, KeepsApart(r), KeepsRows(r), NEW o \in Requests \ {r}, SeenStands(o)
  PROVE  SeenStands(o)'
<1>1. reqSeen'[o] = reqSeen[o]
  BY DEF KeepsApart
<1>2. ASSUME NEW p \in DOMAIN reqSeen[o]
      PROVE  /\ p \in Products /\ productLock'[p] = o
             /\ reqSeen[o][p].stock = stock'[p]
             /\ reqSeen[o][p].quantity = Pool(p, valuations').quantity
             /\ reqSeen[o][p].value = Pool(p, valuations').value
  <2>1. /\ p \in Products /\ productLock[p] = o
        /\ reqSeen[o][p].stock = stock[p]
        /\ reqSeen[o][p].quantity = Pool(p, valuations).quantity
        /\ reqSeen[o][p].value = Pool(p, valuations).value
    BY DEF SeenStands
  <2>2. productLock'[p] = o
    BY <2>1 DEF KeepsApart
  <2>3. /\ stock'[p] = stock[p]
        /\ Pool(p, valuations').quantity = Pool(p, valuations).quantity
        /\ Pool(p, valuations').value = Pool(p, valuations).value
    BY <2>1 DEF KeepsRows
  <2>. QED
    BY <2>1, <2>2, <2>3
<1>. QED
  BY <1>1, <1>2 DEF SeenStands

LEMMA ReceivingKept ==
  ASSUME Shape, Shape', NEW r, KeepsApart(r), KeepsRows(r), NEW o \in Requests \ {r}, ReceivingStands(o)
  PROVE  ReceivingStands(o)'
<1>1. /\ reqDoc'[o] = reqDoc[o] /\ reqQty'[o] = reqQty[o] /\ reqPrior'[o] = reqPrior[o]
      /\ invoiceLock = o => invoiceLock' = o
  BY DEF KeepsApart
<1>2. invoiceLock = o /\ invoice = "CONFIRMED"
  BY DEF ReceivingStands
<1>3. /\ invoice' = invoice
      /\ \A d \in Receipts : receipts[d] = NoDocument => receipts'[d] = NoDocument
      /\ \A l \in Lines : ActiveQuantity(receipts', l) <= ActiveQuantity(receipts, l)
  BY <1>2 DEF KeepsRows
<1>4. /\ reqQty[o] \in Quantities(Lines, MaxLine)
      /\ reqPrior[o] \in [DOMAIN reqQty[o] -> Nat]
      /\ \A l \in DOMAIN reqQty[o] :
           /\ ActiveQuantity(receipts, l) <= reqPrior[o][l]
           /\ reqPrior[o][l] + reqQty[o][l] <= LineQuantity[l]
  BY DEF ReceivingStands
<1>5. \A x : ActiveQuantity(receipts, x) \in Nat
  BY TablesAre
<1>6. \A x : ActiveQuantity(receipts', x) \in Nat
  <2>1. Tabled(receipts', Receipts)
    BY StockValuationAssumption, DocumentsAre DEF Shape
  <2>. QED
    BY <2>1, SharesAre
<1>7. \A l \in DOMAIN reqQty[o] : ActiveQuantity(receipts', l) <= reqPrior[o][l]
  <2>1. DOMAIN reqQty[o] \subseteq Lines
    BY <1>4, QuantitiesAre
  <2>2. ASSUME NEW l \in DOMAIN reqQty[o]
        PROVE  ActiveQuantity(receipts', l) <= reqPrior[o][l]
    <3>1. reqPrior[o][l] \in Nat
      BY <1>4
    <3>2. ActiveQuantity(receipts', l) <= ActiveQuantity(receipts, l)
      BY <1>3, <2>1
    <3>3. ActiveQuantity(receipts, l) <= reqPrior[o][l]
      BY <1>4
    <3>. QED
      BY <1>5, <1>6, <3>1, <3>2, <3>3
  <2>. QED
    BY <2>2
<1>8. PICK d \in Receipts : reqDoc[o] = {d} /\ receipts[d] = NoDocument
  BY DEF ReceivingStands
<1>9. \E x \in Receipts : reqDoc'[o] = {x} /\ receipts'[x] = NoDocument
  BY <1>1, <1>3, <1>8
<1>. QED
  BY <1>1, <1>2, <1>3, <1>4, <1>7, <1>9 DEF ReceivingStands

LEMMA CancellingKept ==
  ASSUME NEW r, KeepsApart(r), KeepsRows(r), NEW o \in Requests \ {r}
  PROVE  /\ CancellingStands(o, receipts, Receipts) => CancellingStands(o, receipts, Receipts)'
         /\ CancellingStands(o, sales, Sales) => CancellingStands(o, sales, Sales)'
<1>1. /\ reqDoc'[o] = reqDoc[o] /\ reqQty'[o] = reqQty[o]
      /\ \A d \in Docs : docLock[d] = o => docLock'[d] = o
  BY DEF KeepsApart
<1>2. /\ \A d \in Receipts : docLock[d] = o /\ receipts[d].status = "ACTIVE" => receipts'[d] = receipts[d]
      /\ \A d \in Sales : docLock[d] = o /\ sales[d].status = "ACTIVE" => sales'[d] = sales[d]
  BY DEF KeepsRows
<1>. QED
  BY <1>1, <1>2 DEF CancellingStands, Docs

LEMMA OthersStand ==
  ASSUME IInv, Shape', NEW r, KeepsApart(r), KeepsRows(r), NEW o \in Requests \ {r}
  PROVE  RequestOK(o)'
<1>1. RequestOK(o) /\ Shape
  BY DEF IInv, RowsStand
<1>2. pc'[o] = pc[o] /\ reqDoc'[o] = reqDoc[o] /\ reqQty'[o] = reqQty[o] /\ reqSeen'[o] = reqSeen[o]
  BY DEF KeepsApart
<1>3. SeenStands(o)'
  BY <1>1, SeenKept DEF RequestOK
<1>4. pc[o] = "receiving" => ReceivingStands(o)'
  BY <1>1, ReceivingKept DEF RequestOK
<1>5. /\ pc[o] = "unreceiving" => CancellingStands(o, receipts, Receipts)'
      /\ pc[o] = "unselling" => CancellingStands(o, sales, Sales)'
  BY <1>1, CancellingKept DEF RequestOK
<1>6. /\ pc[o] = "idle" => reqSeen[o] = None /\ reqQty[o] = None
      /\ pc[o] = "selling" =>
           /\ \E d \in Sales : reqDoc[o] = {d}
           /\ reqQty[o] \in Quantities(Products, MaxStock)
  BY <1>1 DEF RequestOK
<1>. QED
  BY <1>2, <1>3, <1>4, <1>5, <1>6 DEF RequestOK

LEMMA PlaceIsIn ==
  /\ "idle" \in Places /\ "receiving" \in Places /\ "unreceiving" \in Places
  /\ "selling" \in Places /\ "unselling" \in Places
BY DEF Places

LEMMA EndApart ==
  ASSUME RequestTypes, NEW r \in Requests, EndTransaction(r)
  PROVE  /\ KeepsApart(r) /\ RequestTypes'
         /\ pc'[r] = "idle" /\ reqSeen'[r] = None /\ reqQty'[r] = None
<1>1. /\ productLock' = Free(productLock, r)
      /\ docLock' = Free(docLock, r)
      /\ invoiceLock' = IF invoiceLock = r THEN NoRequest ELSE invoiceLock
      /\ pc' = [pc EXCEPT ![r] = "idle"]
      /\ reqDoc' = [reqDoc EXCEPT ![r] = {}]
      /\ reqQty' = [reqQty EXCEPT ![r] = None]
      /\ reqPrior' = [reqPrior EXCEPT ![r] = None]
      /\ reqSeen' = [reqSeen EXCEPT ![r] = None]
  BY DEF EndTransaction, Goto
<1>2. KeepsApart(r)
  <2>1. \A o \in Requests \ {r} :
          /\ pc'[o] = pc[o] /\ reqDoc'[o] = reqDoc[o] /\ reqQty'[o] = reqQty[o]
          /\ reqPrior'[o] = reqPrior[o] /\ reqSeen'[o] = reqSeen[o]
    BY <1>1 DEF RequestTypes
  <2>2. DOMAIN productLock = Products /\ DOMAIN docLock = Docs
    BY DEF RequestTypes
  <2>3. \A o \in Requests \ {r} :
          /\ \A p \in Products : productLock[p] = o => productLock'[p] = o
          /\ invoiceLock = o => invoiceLock' = o
          /\ \A d \in Docs : docLock[d] = o => docLock'[d] = o
    BY <1>1, <2>2 DEF Free
  <2>. QED
    BY <2>1, <2>3 DEF KeepsApart
<1>3. /\ productLock' \in [Products -> Requests \cup {NoRequest}]
      /\ invoiceLock' \in Requests \cup {NoRequest}
      /\ docLock' \in [Docs -> Requests \cup {NoRequest}]
  BY <1>1 DEF RequestTypes, Free
<1>4. pc' \in [Requests -> Places] /\ reqDoc' \in [Requests -> SUBSET Docs]
  BY <1>1, PlaceIsIn DEF RequestTypes
<1>5. /\ reqQty' = [x \in Requests |-> reqQty'[x]]
      /\ reqPrior' = [x \in Requests |-> reqPrior'[x]]
      /\ reqSeen' = [x \in Requests |-> reqSeen'[x]]
  BY <1>1 DEF RequestTypes
<1>6. pc'[r] = "idle" /\ reqSeen'[r] = None /\ reqQty'[r] = None
  BY <1>1 DEF RequestTypes
<1>. QED
  BY <1>2, <1>3, <1>4, <1>5, <1>6 DEF RequestTypes

\* A transaction that ends, with rows that stand and what the others rely on.
LEMMA Ending ==
  ASSUME IInv, NEW r \in Requests, EndTransaction(r), RowsStand', KeepsRows(r)
  PROVE  IInv'
<1>1. /\ KeepsApart(r) /\ RequestTypes'
      /\ pc'[r] = "idle" /\ reqSeen'[r] = None /\ reqQty'[r] = None
  BY EndApart DEF IInv
<1>2. SeenStands(r)'
  BY <1>1 DEF SeenStands, None
<1>3. RequestOK(r)'
  BY <1>1, <1>2 DEF RequestOK
<1>4. \A o \in Requests \ {r} : RequestOK(o)'
  BY <1>1, OthersStand DEF RowsStand
<1>. QED
  BY <1>1, <1>3, <1>4 DEF IInv

\* A step of no request.
LEMMA Aside ==
  ASSUME IInv, UNCHANGED <<locks, reqs>>, RowsStand', KeepsRows(NoRequest)
  PROVE  IInv'
<1>1. UNCHANGED <<productLock, invoiceLock, docLock, pc, reqDoc, reqQty, reqPrior, reqSeen>>
  BY DEF locks, reqs
<1>2. KeepsApart(NoRequest)
  BY <1>1 DEF KeepsApart
<1>3. \A o \in Requests : o \in Requests \ {NoRequest}
  BY StockValuationAssumption
<1>4. \A o \in Requests : RequestOK(o)'
  BY <1>2, <1>3, OthersStand DEF RowsStand
<1>5. RequestTypes'
  BY <1>1 DEF IInv, RequestTypes
<1>. QED
  BY <1>4, <1>5 DEF IInv

RowsKept == UNCHANGED <<stock, manual, invoice, receipts, sales, valuations, cogs>>

LEMMA Kept ==
  ASSUME IInv, RowsKept
  PROVE  RowsStand' /\ \A r : KeepsRows(r)
<1>1. RowsStand'
  BY DEF RowsKept, IInv, RowsStand, Shape
<1>2. \A x : ActiveQuantity(receipts, x) \in Nat
  BY TablesAre DEF IInv, RowsStand
<1>3. ASSUME NEW r PROVE KeepsRows(r)
  BY <1>2 DEF RowsKept, KeepsRows
<1>. QED
  BY <1>1, <1>3

\* A request goes on to another place, or locks something.
LEMMA Onward ==
  ASSUME IInv, NEW r \in Requests, RowsKept, KeepsApart(r), RequestTypes', RequestOK(r)'
  PROVE  IInv'
<1>1. RowsStand' /\ KeepsRows(r)
  BY Kept
<1>2. \A o \in Requests \ {r} : RequestOK(o)'
  BY <1>1, OthersStand DEF RowsStand
<1>. QED
  BY <1>1, <1>2 DEF IInv

LEMMA RollBackKeeps ==
  ASSUME IInv, NEW r \in Requests, RollBack(r)
  PROVE  IInv'
<1>1. RowsKept /\ EndTransaction(r)
  BY DEF RollBack, rows, RowsKept
<1>. QED
  BY <1>1, Kept, Ending

-----------------------------------------------------------------------------
(* Requests begin, and lock products *)

\* What the beginning of a transaction writes of its request.
Begun(r, place, d, qty) ==
  /\ pc[r] = "idle" /\ pc' = [pc EXCEPT ![r] = place]
  /\ reqDoc' = [reqDoc EXCEPT ![r] = {d}]
  /\ reqQty' = [reqQty EXCEPT ![r] = qty]
  /\ UNCHANGED <<productLock, reqSeen>>

LEMMA BeginIs ==
  ASSUME IInv, NEW r \in Requests, NEW place \in Places, NEW d \in Docs, NEW qty,
         Begun(r, place, d, qty)
  PROVE  /\ pc' \in [Requests -> Places] /\ reqDoc' \in [Requests -> SUBSET Docs]
         /\ reqQty' = [x \in Requests |-> reqQty'[x]]
         /\ pc'[r] = place /\ reqDoc'[r] = {d} /\ reqQty'[r] = qty /\ SeenStands(r)'
         /\ \A o \in Requests \ {r} :
              pc'[o] = pc[o] /\ reqDoc'[o] = reqDoc[o] /\ reqQty'[o] = reqQty[o]
<1>. RequestTypes
  BY DEF IInv
<1>1. reqSeen'[r] = None
  BY DEF Begun, IInv, RequestOK
<1>2. SeenStands(r)'
  BY <1>1 DEF SeenStands, None
<1>3. pc' \in [Requests -> Places] /\ reqDoc' \in [Requests -> SUBSET Docs]
  BY DEF Begun, RequestTypes
<1>4. reqQty' = [x \in Requests |-> reqQty'[x]]
  BY DEF Begun, RequestTypes
<1>5. pc'[r] = place /\ reqDoc'[r] = {d} /\ reqQty'[r] = qty
  BY DEF Begun, RequestTypes
<1>6. \A o \in Requests \ {r} :
        pc'[o] = pc[o] /\ reqDoc'[o] = reqDoc[o] /\ reqQty'[o] = reqQty[o]
  BY DEF Begun, RequestTypes
<1>. QED
  BY <1>2, <1>3, <1>4, <1>5, <1>6

LEMMA BeginReceiptKeeps ==
  ASSUME IInv, NEW r \in Requests, NEW d \in Receipts, NEW qty \in Quantities(Lines, MaxLine),
         BeginReceipt(r, d, qty)
  PROVE  IInv'
<1>1. /\ Begun(r, "receiving", d, qty)
      /\ invoiceLock = NoRequest /\ invoiceLock' = r /\ invoice = "CONFIRMED"
      /\ receipts[d] = NoDocument
      /\ \A l \in DOMAIN qty : Received(l) + qty[l] <= LineQuantity[l]
      /\ reqPrior' = [reqPrior EXCEPT ![r] = [l \in DOMAIN qty |-> Received(l)]]
      /\ RowsKept /\ UNCHANGED docLock
  BY DEF BeginReceipt, Begin, Goto, Begun, rows, RowsKept
<1>2. /\ pc' \in [Requests -> Places] /\ reqDoc' \in [Requests -> SUBSET Docs]
      /\ reqQty' = [x \in Requests |-> reqQty'[x]]
      /\ pc'[r] = "receiving" /\ reqDoc'[r] = {d} /\ reqQty'[r] = qty /\ SeenStands(r)'
      /\ \A o \in Requests \ {r} :
           pc'[o] = pc[o] /\ reqDoc'[o] = reqDoc[o] /\ reqQty'[o] = reqQty[o]
  BY <1>1, BeginIs, PlaceIsIn DEF Docs
<1>3. RequestTypes /\ Shape /\ productLock' = productLock /\ reqSeen' = reqSeen
  BY <1>1 DEF IInv, RowsStand, Begun
<1>4. /\ reqPrior' = [x \in Requests |-> reqPrior'[x]]
      /\ reqPrior'[r] = [l \in DOMAIN qty |-> Received(l)]
      /\ \A o \in Requests \ {r} : reqPrior'[o] = reqPrior[o]
  BY <1>1, <1>3 DEF RequestTypes
<1>5. KeepsApart(r)
  BY <1>1, <1>2, <1>3, <1>4, StockValuationAssumption DEF KeepsApart
<1>6. RequestTypes'
  BY <1>1, <1>2, <1>3, <1>4 DEF RequestTypes
<1>7. \A l : Received(l) = ActiveQuantity(receipts, l) /\ ActiveQuantity(receipts, l) \in Nat
  BY <1>3, ReceivedIs, TablesAre
<1>8. reqPrior'[r] \in [DOMAIN qty -> Nat]
  BY <1>4, <1>7
<1>9. \A l \in DOMAIN qty :
        /\ ActiveQuantity(receipts, l) <= reqPrior'[r][l]
        /\ reqPrior'[r][l] + qty[l] <= LineQuantity[l]
  BY <1>1, <1>4, <1>7
<1>10. receipts' = receipts /\ invoice' = invoice
  BY <1>1 DEF RowsKept
<1>11. ReceivingStands(r)'
  BY <1>1, <1>2, <1>8, <1>9, <1>10 DEF ReceivingStands
<1>12. RequestOK(r)'
  BY <1>2, <1>11 DEF RequestOK
<1>. QED
  BY <1>1, <1>5, <1>6, <1>12, Onward

\* The cancellation of a document locks it.
LEMMA BeginCancelKeeps ==
  ASSUME IInv, NEW r \in Requests, NEW d \in Docs, NEW place \in Places, NEW qty,
         Begun(r, place, d, qty), RowsKept, UNCHANGED <<invoiceLock, reqPrior>>,
         docLock[d] = NoRequest, docLock' = [docLock EXCEPT ![d] = r],
         \/ place = "unreceiving" /\ d \in Receipts /\ receipts[d].status = "ACTIVE" /\ qty = receipts[d].qty
         \/ place = "unselling" /\ d \in Sales /\ sales[d].status = "ACTIVE" /\ qty = sales[d].qty
  PROVE  IInv'
<1>1. /\ pc' \in [Requests -> Places] /\ reqDoc' \in [Requests -> SUBSET Docs]
      /\ reqQty' = [x \in Requests |-> reqQty'[x]]
      /\ pc'[r] = place /\ reqDoc'[r] = {d} /\ reqQty'[r] = qty /\ SeenStands(r)'
      /\ \A o \in Requests \ {r} :
           pc'[o] = pc[o] /\ reqDoc'[o] = reqDoc[o] /\ reqQty'[o] = reqQty[o]
  BY BeginIs
<1>2. RequestTypes /\ productLock' = productLock /\ reqSeen' = reqSeen
  BY DEF IInv, Begun
<1>3. docLock' \in [Docs -> Requests \cup {NoRequest}] /\ docLock'[d] = r
  BY <1>2 DEF RequestTypes
<1>4. \A o \in Requests \ {r} : \A x \in Docs : docLock[x] = o => docLock'[x] = o
  BY <1>2, StockValuationAssumption DEF RequestTypes
<1>5. KeepsApart(r)
  BY <1>1, <1>2, <1>4 DEF KeepsApart
<1>6. RequestTypes'
  BY <1>1, <1>2, <1>3 DEF RequestTypes
<1>7. receipts' = receipts /\ sales' = sales
  BY DEF RowsKept
<1>8. \/ place = "unreceiving" /\ CancellingStands(r, receipts, Receipts)'
      \/ place = "unselling" /\ CancellingStands(r, sales, Sales)'
  BY <1>1, <1>3, <1>7 DEF CancellingStands
<1>9. RequestOK(r)'
  BY <1>1, <1>8 DEF RequestOK
<1>. QED
  BY <1>5, <1>6, <1>9, Onward

LEMMA BeginCancelReceiptKeeps ==
  ASSUME IInv, NEW r \in Requests, NEW d \in Receipts, BeginCancelReceipt(r, d)
  PROVE  IInv'
<1>1. /\ Begun(r, "unreceiving", d, receipts[d].qty) /\ RowsKept
      /\ UNCHANGED <<invoiceLock, reqPrior>>
      /\ docLock[d] = NoRequest /\ docLock' = [docLock EXCEPT ![d] = r]
      /\ receipts[d].status = "ACTIVE"
  BY DEF BeginCancelReceipt, Begin, Goto, Begun, rows, RowsKept
<1>. QED
  BY <1>1, BeginCancelKeeps, PlaceIsIn DEF Docs

LEMMA BeginCancelSaleKeeps ==
  ASSUME IInv, NEW r \in Requests, NEW d \in Sales, BeginCancelSale(r, d)
  PROVE  IInv'
<1>1. /\ Begun(r, "unselling", d, sales[d].qty) /\ RowsKept
      /\ UNCHANGED <<invoiceLock, reqPrior>>
      /\ docLock[d] = NoRequest /\ docLock' = [docLock EXCEPT ![d] = r]
      /\ sales[d].status = "ACTIVE"
  BY DEF BeginCancelSale, Begin, Goto, Begun, rows, RowsKept
<1>. QED
  BY <1>1, BeginCancelKeeps, PlaceIsIn DEF Docs

LEMMA BeginSaleKeeps ==
  ASSUME IInv, NEW r \in Requests, NEW d \in Sales, NEW qty \in Quantities(Products, MaxStock),
         BeginSale(r, d, qty)
  PROVE  IInv'
<1>1. Begun(r, "selling", d, qty) /\ RowsKept /\ UNCHANGED <<invoiceLock, docLock, reqPrior>>
  BY DEF BeginSale, Begin, Goto, Begun, rows, locks, RowsKept
<1>2. /\ pc' \in [Requests -> Places] /\ reqDoc' \in [Requests -> SUBSET Docs]
      /\ reqQty' = [x \in Requests |-> reqQty'[x]]
      /\ pc'[r] = "selling" /\ reqDoc'[r] = {d} /\ reqQty'[r] = qty /\ SeenStands(r)'
      /\ \A o \in Requests \ {r} :
           pc'[o] = pc[o] /\ reqDoc'[o] = reqDoc[o] /\ reqQty'[o] = reqQty[o]
  BY <1>1, BeginIs, PlaceIsIn DEF Docs
<1>3. RequestTypes /\ productLock' = productLock /\ reqSeen' = reqSeen
  BY <1>1 DEF IInv, Begun
<1>4. KeepsApart(r)
  BY <1>1, <1>2, <1>3 DEF KeepsApart
<1>5. RequestTypes'
  BY <1>1, <1>2, <1>3 DEF RequestTypes
<1>6. RequestOK(r)'
  BY <1>2 DEF RequestOK
<1>. QED
  BY <1>1, <1>4, <1>5, <1>6, Onward

\* What is read behind the lock is what is there, until the transaction ends.
LEMMA LockProductKeeps ==
  ASSUME IInv, NEW r \in Requests, NEW p \in Products, LockProduct(r, p)
  PROVE  IInv'
<1>1. /\ productLock[p] = NoRequest
      /\ productLock' = [productLock EXCEPT ![p] = r]
      /\ reqSeen' = [reqSeen EXCEPT ![r] = Seeing(r, p)]
      /\ RowsKept
      /\ UNCHANGED <<invoiceLock, docLock, pc, reqDoc, reqQty, reqPrior>>
  BY DEF LockProduct, rows, RowsKept
<1>2. RequestTypes /\ RequestOK(r) /\ SeenStands(r)
  BY DEF IInv, RequestOK
<1>3. /\ productLock' \in [Products -> Requests \cup {NoRequest}]
      /\ \A q \in Products : productLock'[q] = IF q = p THEN r ELSE productLock[q]
  BY <1>1, <1>2 DEF RequestTypes
<1>4. /\ reqSeen' = [x \in Requests |-> reqSeen'[x]]
      /\ reqSeen'[r] = Seeing(r, p)
      /\ \A o \in Requests \ {r} : reqSeen'[o] = reqSeen[o]
  BY <1>1, <1>2 DEF RequestTypes
<1>5. KeepsApart(r)
  <2>1. \A o \in Requests \ {r} : \A q \in Products : productLock[q] = o => productLock'[q] = o
    BY <1>1, <1>3, StockValuationAssumption
  <2>. QED
    BY <1>1, <1>4, <2>1 DEF KeepsApart
<1>6. RequestTypes'
  BY <1>1, <1>2, <1>3, <1>4 DEF RequestTypes
<1>7. pc[r] # "idle"
  <2>1. Pending(r) # {}
    BY DEF LockProduct, NextProducts
  <2>2. reqQty[r] # None
    BY <2>1 DEF Pending, None
  <2>. QED
    BY <1>2, <2>2 DEF RequestOK
<1>8. /\ stock' = stock /\ valuations' = valuations /\ receipts' = receipts
      /\ sales' = sales /\ invoice' = invoice
  BY <1>1 DEF RowsKept
<1>9. SeenStands(r)'
  <2>1. DOMAIN reqSeen'[r] = DOMAIN reqSeen[r] \cup {p}
    BY <1>4 DEF Seeing
  <2>2. /\ productLock'[p] = r
        /\ reqSeen'[r][p].stock = stock[p]
        /\ reqSeen'[r][p].quantity = Pool(p, valuations).quantity
        /\ reqSeen'[r][p].value = Pool(p, valuations).value
    BY <1>3, <1>4 DEF Seeing
  <2>3. ASSUME NEW q \in DOMAIN reqSeen[r], q # p
        PROVE  /\ q \in Products /\ productLock'[q] = r
               /\ reqSeen'[r][q].stock = stock[q]
               /\ reqSeen'[r][q].quantity = Pool(q, valuations).quantity
               /\ reqSeen'[r][q].value = Pool(q, valuations).value
    <3>1. reqSeen'[r][q] = reqSeen[r][q]
      BY <1>4, <2>3 DEF Seeing
    <3>. QED
      BY <1>2, <1>3, <2>3, <3>1 DEF SeenStands
  <2>. QED
    BY <1>8, <2>1, <2>2, <2>3 DEF SeenStands
<1>10. pc[r] = "receiving" => ReceivingStands(r)'
  BY <1>1, <1>2, <1>8 DEF RequestOK, ReceivingStands
<1>11. /\ pc[r] = "unreceiving" => CancellingStands(r, receipts, Receipts)'
       /\ pc[r] = "unselling" => CancellingStands(r, sales, Sales)'
  BY <1>1, <1>2, <1>8 DEF RequestOK, CancellingStands
<1>12. RequestOK(r)'
  BY <1>1, <1>2, <1>7, <1>9, <1>10, <1>11 DEF RequestOK
<1>. QED
  BY <1>1, <1>5, <1>6, <1>12, Onward

-----------------------------------------------------------------------------
(* Tables that only add, or only take *)

LEMMA PoolUntouched ==
  ASSUME NEW T, NEW N, Table(T), Table(N), T \cap N = {},
         NEW p, \A row \in N : row.product # p
  PROVE  /\ Pool(p, T \cup N).quantity = Pool(p, T).quantity
         /\ Pool(p, T \cup N).value = Pool(p, T).value
<1>1. OfProduct(p, T \cup N) = OfProduct(p, T)
  BY DEF OfProduct
<1>2. Units(p, T \cup N) = Units(p, T) /\ Worth(p, T \cup N) = Worth(p, T)
  BY <1>1 DEF Units, Worth
<1>3. Table(T \cup N)
  BY PoolOfBoth
<1>. QED
  BY <1>2, <1>3, PoolIs

LEMMA PoolOfEntries ==
  ASSUME NEW N, Table(N), \A row \in N : Sign(row) = 1, NEW p
  PROVE  Pool(p, N).quantity \in Nat
<1>1. \A row \in OfProduct(p, N) : row \in Valuation /\ Sign(row) = 1
  BY DEF OfProduct, Table
<1>2. Units(p, N) \in [OfProduct(p, N) -> Nat]
  <2>1. \A row \in OfProduct(p, N) : Sign(row) * row.quantity = row.quantity /\ row.quantity \in Nat
    BY <1>1, SignIs DEF Valuation
  <2>. QED
    BY <2>1 DEF Units
<1>3. IsFiniteSet(OfProduct(p, N))
  BY PoolIs DEF Addends
<1>4. SumFunction(Units(p, N)) \in Nat
  BY <1>2, <1>3, SumNat
<1>. QED
  BY <1>4, PoolIs

LEMMA PoolOfExits ==
  ASSUME NEW N, Table(N), \A row \in N : Sign(row) = -1, NEW p
  PROVE  /\ Pool(p, N).quantity = -SumFunction([row \in OfProduct(p, N) |-> row.quantity])
         /\ SumFunction([row \in OfProduct(p, N) |-> row.quantity]) \in Int
<1> DEFINE f == [row \in OfProduct(p, N) |-> row.quantity]
           u == Units(p, N)
<1>1. \A row \in OfProduct(p, N) : row \in Valuation /\ Sign(row) = -1
  BY DEF OfProduct, Table
<1>2. /\ f \in [OfProduct(p, N) -> Int] /\ u \in [OfProduct(p, N) -> Int]
      /\ \A row \in OfProduct(p, N) : u[row] = -f[row]
  <2>1. \A row \in OfProduct(p, N) :
          Sign(row) * row.quantity = -row.quantity /\ row.quantity \in Int
    BY <1>1, SignIs DEF Valuation
  <2>. QED
    BY <2>1 DEF Units
<1>3. IsFiniteSet(OfProduct(p, N))
  BY PoolIs DEF Addends
<1> HIDE DEF f, u
<1>4. SumFunction(u) = -SumFunction(f) /\ SumFunction(f) \in Int
  BY <1>2, <1>3, SumOpposite, SumType
<1>5. Pool(p, N).quantity = SumFunction(u)
  BY PoolIs DEF u
<1>. QED
  BY <1>4, <1>5 DEF f

-----------------------------------------------------------------------------
(* A receipt capitalizes *)

ReceiptRow(d, qty, cost, l) == Row(d, l, LineProduct[l], "ORIGINAL", qty[l], cost[l])

\* The receipt d brings in what qty says, and of the lines in costed a value.
Receives(N, d, qty, cost, costed) ==
  /\ d \in Receipts
  /\ qty \in Quantities(Lines, MaxLine)
  /\ cost \in [DOMAIN qty -> Nat]
  /\ costed \subseteq DOMAIN qty /\ \A l \in costed : LineProduct[l] \in Valued
  /\ N = {ReceiptRow(d, qty, cost, l) : l \in costed}

LEMMA ReceiptRowIs ==
  ASSUME NEW N, NEW d, NEW qty, NEW cost, NEW costed, Receives(N, d, qty, cost, costed)
  PROVE  /\ \A l \in costed :
              /\ l \in Lines /\ ReceiptRow(d, qty, cost, l) \in N
              /\ ReceiptRow(d, qty, cost, l).item = l
              /\ ReceiptRow(d, qty, cost, l).cost = cost[l]
         /\ \A row \in N :
              /\ row \in Valuation /\ row.doc = d /\ row.event = "ORIGINAL" /\ Sign(row) = 1
              /\ row.item \in costed /\ row = ReceiptRow(d, qty, cost, row.item)
              /\ row.product = LineProduct[row.item] /\ row.product \in Valued
         /\ Table(N)
<1>. /\ d \in Receipts
     /\ qty \in Quantities(Lines, MaxLine)
     /\ cost \in [DOMAIN qty -> Nat]
     /\ costed \subseteq DOMAIN qty /\ \A l \in costed : LineProduct[l] \in Valued
     /\ N = {ReceiptRow(d, qty, cost, l) : l \in costed}
  BY DEF Receives
<1>1. DOMAIN qty \subseteq Lines /\ \A l \in DOMAIN qty : qty[l] \in Nat \ {0}
  BY QuantitiesAre
<1>2. \A l \in costed :
        /\ l \in Lines /\ ReceiptRow(d, qty, cost, l) \in N
        /\ ReceiptRow(d, qty, cost, l).item = l
        /\ ReceiptRow(d, qty, cost, l).cost = cost[l]
        /\ ReceiptRow(d, qty, cost, l).doc = d
        /\ ReceiptRow(d, qty, cost, l).event = "ORIGINAL"
        /\ ReceiptRow(d, qty, cost, l).product = LineProduct[l]
  BY <1>1 DEF ReceiptRow, Row
<1>3. \A l \in costed : ReceiptRow(d, qty, cost, l) \in Valuation
  <2>1. ASSUME NEW l \in costed
        PROVE  /\ d \in Docs /\ l \in Products \cup Lines /\ LineProduct[l] \in Products
               /\ qty[l] \in Nat \ {0} /\ cost[l] \in Nat
    BY <1>1, StockValuationAssumption DEF Docs
  <2>. QED
    BY <2>1 DEF ReceiptRow, Row, Valuation
<1>4. ASSUME NEW row \in N
      PROVE  /\ row \in Valuation /\ row.doc = d /\ row.event = "ORIGINAL" /\ Sign(row) = 1
             /\ row.item \in costed /\ row = ReceiptRow(d, qty, cost, row.item)
             /\ row.product = LineProduct[row.item] /\ row.product \in Valued
  <2>1. PICK l \in costed : row = ReceiptRow(d, qty, cost, l)
    OBVIOUS
  <2>2. Sign(row) = 1
    BY <1>2, <2>1 DEF Sign
  <2>. QED
    BY <1>2, <1>3, <2>1, <2>2
<1>5. IsFiniteSet(N)
  <2> DEFINE g == [l \in costed |-> ReceiptRow(d, qty, cost, l)]
  <2>1. IsFiniteSet(costed)
    BY <1>1, FS_Subset, StockValuationAssumption
  <2>2. g \in Surjection(costed, N)
    BY DEF Surjection
  <2>. QED
    BY <2>1, <2>2, FS_Surjection
<1>. QED
  BY <1>2, <1>4, <1>5 DEF Table

CostOf(cost, costed, l) == IF l \in costed THEN cost[l] ELSE 0

\* Rows of a document that has none.
Adds(T, N, d) == Table(T) /\ RowsOf(T, d) = {} /\ T \cap N = {} /\ Table(T \cup N)

\* What is capitalized of a line grows by the cost of the line's row.
LEMMA CapitalGrows ==
  ASSUME NEW T, NEW N, NEW d, NEW qty, NEW cost, NEW costed, Receives(N, d, qty, cost, costed),
         Adds(T, N, d), NEW active, NEW l \in Lines
  PROVE  CapitalizedIn(T \cup N, active \cup {d}, l)
           = CapitalizedIn(T, active, l) + CostOf(cost, costed, l)
<1> DEFINE S == CapitalizedRows(T, active, l)
           row == ReceiptRow(d, qty, cost, l)
<1>. Table(T) /\ RowsOf(T, d) = {} /\ T \cap N = {} /\ Table(T \cup N)
  BY DEF Adds
<1>1. \A x \in T : x.doc # d
  BY DEF RowsOf
<1>2. S \subseteq T \cup N /\ SumFunction(Costs(S)) \in Nat
  BY CostsAre DEF CapitalizedRows
<1>3. CASE l \in costed
  <2>1. row \in N /\ row.item = l /\ row.cost = cost[l]
    BY <1>3, ReceiptRowIs
  <2>2. CapitalizedRows(T \cup N, active \cup {d}, l) = S \cup {row}
    <3>1. \A x \in N : x.doc = d /\ x.event = "ORIGINAL" /\ (x.item = l <=> x = row)
      BY <2>1, ReceiptRowIs
    <3>. QED
      BY <1>1, <2>1, <3>1 DEF CapitalizedRows
  <2>3. row \notin S
    BY <2>1, <1>1 DEF CapitalizedRows
  <2> HIDE DEF S, row
  <2>4. SumFunction(Costs(S \cup {row})) = row.cost + SumFunction(Costs(S))
    BY <1>2, <2>1, <2>3, CostsOfOneMore
  <2>5. cost[l] \in Nat
    BY <1>3 DEF Receives
  <2>6. /\ CapitalizedIn(T \cup N, active \cup {d}, l) = SumFunction(Costs(S \cup {row}))
        /\ CapitalizedIn(T, active, l) = SumFunction(Costs(S))
    BY <2>2 DEF CapitalizedIn, S
  <2>7. SumFunction(Costs(S)) \in Nat
    BY <1>2
  <2>. QED
    BY <1>3, <2>1, <2>4, <2>5, <2>6, <2>7 DEF CostOf
<1>4. CASE l \notin costed
  <2>1. CapitalizedRows(T \cup N, active \cup {d}, l) = S
    <3>1. \A x \in N : x.item # l
      BY <1>4, ReceiptRowIs
    <3>. QED
      BY <1>1, <3>1 DEF CapitalizedRows
  <2>. QED
    BY <1>2, <1>4, <2>1 DEF CapitalizedIn, CostOf
<1>. QED
  BY <1>3, <1>4

LEMMA MaxWithZero ==
  ASSUME NEW a \in Int
  PROVE  Max({a, 0}) = IF a > 0 THEN a ELSE 0
BY DEF Max

\* The cost of a receipt takes the line up to its target, which is no more than
\* the amount, and the amount itself when the line is complete.
LEMMA ReceiptCostIs ==
  ASSUME NEW l \in Lines, NEW prior \in Nat, NEW quantity \in Nat,
         Capitalized(l) \in Nat, Capitalized(l) <= LineAmount[l]
  PROVE  /\ ReceiptCost(l, prior, quantity) \in Nat
         /\ Capitalized(l) + ReceiptCost(l, prior, quantity) <= LineAmount[l]
         /\ prior + quantity >= LineQuantity[l]
              => Capitalized(l) + ReceiptCost(l, prior, quantity) = LineAmount[l]
<1> DEFINE reached == prior + quantity
           target == IF reached >= LineQuantity[l] THEN LineAmount[l]
                     ELSE HalfUp(LineAmount[l] * reached, LineQuantity[l])
<1>1. LineAmount[l] \in Nat /\ LineQuantity[l] \in Nat \ {0} /\ reached \in Nat
  BY StockValuationAssumption
<1>2. target \in Nat /\ target <= LineAmount[l]
  <2>1. CASE reached >= LineQuantity[l]
    BY <1>1, <2>1
  <2>2. CASE reached < LineQuantity[l]
    <3> HIDE DEF reached
    <3>1. reached <= LineQuantity[l]
      BY <1>1, <2>2
    <3>2. /\ HalfUp(LineAmount[l] * reached, LineQuantity[l]) \in Nat
          /\ HalfUp(LineAmount[l] * reached, LineQuantity[l]) <= LineAmount[l]
      BY <1>1, <3>1, ShareIsPart
    <3>3. target = HalfUp(LineAmount[l] * reached, LineQuantity[l])
      BY <1>1, <2>2
    <3>. QED
      BY <3>2, <3>3
  <2>. QED
    BY <1>1, <2>1, <2>2
<1>3. ReceiptCost(l, prior, quantity) = Max({target - Capitalized(l), 0})
  BY DEF ReceiptCost
<1>4. reached >= LineQuantity[l] => target = LineAmount[l]
  OBVIOUS
<1> HIDE DEF target
<1>5. ReceiptCost(l, prior, quantity) =
        IF target - Capitalized(l) > 0 THEN target - Capitalized(l) ELSE 0
  BY <1>2, <1>3, MaxWithZero
<1>. QED
  BY <1>1, <1>2, <1>4, <1>5

\* A sum of what is neither is not disturbed by other documents.
OnlyOf(N, d) == \A row \in N : row.doc = d

LEMMA OthersConsume ==
  ASSUME NEW T, NEW N, NEW d, OnlyOf(N, d), NEW x, x # d
  PROVE  ConsumedIn(T \cup N, x) = ConsumedIn(T, x)
<1>1. RowsOf(T \cup N, x) = RowsOf(T, x)
  BY DEF RowsOf, OnlyOf
<1>. QED
  BY <1>1 DEF ConsumedIn

\* The receipts with d among them are those that were, and d.
LEMMA ReceiptsAfter ==
  ASSUME Shape, NEW d \in Receipts, receipts[d] = NoDocument,
         NEW qty \in Quantities(Lines, MaxLine),
         receipts' = [receipts EXCEPT ![d] = [status |-> "ACTIVE", qty |-> qty]]
  PROVE  /\ receipts' \in [Receipts -> Document(Lines, MaxLine) \cup {NoDocument}]
         /\ receipts'[d] = [status |-> "ACTIVE", qty |-> qty]
         /\ Activates(receipts', receipts, Receipts, d)
         /\ ActiveOf(receipts') = ActiveOf(receipts) \cup {d}
         /\ \A x \in Receipts \ {d} : receipts'[x] = receipts[x]
         /\ \A x \in Docs \ {d} :
              DocumentIn(receipts', sales, x) = DocumentIn(receipts, sales, x)
<1>1. receipts \in [Receipts -> Document(Lines, MaxLine) \cup {NoDocument}] /\ IsFiniteSet(Receipts)
  BY StockValuationAssumption DEF Shape
<1>2. [status |-> "ACTIVE", qty |-> qty] \in Document(Lines, MaxLine)
  BY DEF Document
<1>3. receipts' \in [Receipts -> Document(Lines, MaxLine) \cup {NoDocument}]
  BY <1>1, <1>2
<1>4. /\ receipts'[d] = [status |-> "ACTIVE", qty |-> qty]
      /\ \A x \in Receipts \ {d} : receipts'[x] = receipts[x]
  BY <1>1
<1>5. Tabled(receipts, Receipts) /\ Tabled(receipts', Receipts)
  BY <1>1, <1>3, ReceiptsTabled
<1>6. receipts[d].status = "NONE"
  BY DEF NoDocument
<1>7. Activates(receipts', receipts, Receipts, d)
  BY <1>4, <1>5, <1>6 DEF Activates
<1>8. ActiveOf(receipts') = ActiveOf(receipts) \cup {d}
  BY <1>4 DEF ActiveOf
<1>. QED
  BY <1>3, <1>4, <1>7, <1>8 DEF DocumentIn, Docs

LEMMA CommitReceiptKeeps ==
  ASSUME IInv, NEW r \in Requests, CommitReceipt(r)
  PROVE  IInv'
<1> DEFINE qty == reqQty[r]
           cost == [l \in DOMAIN qty |-> ReceiptCost(l, reqPrior[r][l], qty[l])]
           costed == {l \in DOMAIN qty : LineProduct[l] \in Valued /\ cost[l] > 0}
<1>. RowsStand /\ Shape /\ RequestTypes
  BY DEF IInv, RowsStand
<1>1. /\ pc[r] = "receiving" /\ Pending(r) = {} /\ MoveStock(r, 1) /\ EndTransaction(r)
      /\ UNCHANGED <<manual, invoice, sales, cogs>>
  BY DEF CommitReceipt, Ready
<1>2. ReceivingStands(r)
  BY <1>1 DEF IInv, RequestOK
<1>3. PICK d \in Receipts : reqDoc[r] = {d} /\ receipts[d] = NoDocument
  BY <1>2 DEF ReceivingStands
<1> DEFINE N == {ReceiptRow(d, qty, cost, l) : l \in costed}
<1>4. /\ receipts' = [receipts EXCEPT ![d] = [status |-> "ACTIVE", qty |-> qty]]
      /\ valuations' = valuations \cup N
  BY <1>3, ZenonT(60) DEF CommitReceipt, ReceiptRow
<1>5. /\ qty \in Quantities(Lines, MaxLine) /\ DOMAIN qty \subseteq Lines
      /\ \A l \in DOMAIN qty : qty[l] \in Nat \ {0}
      /\ invoiceLock = r /\ invoice = "CONFIRMED"
      /\ \A l \in DOMAIN qty : /\ reqPrior[r][l] \in Nat
                               /\ ActiveQuantity(receipts, l) <= reqPrior[r][l]
                               /\ reqPrior[r][l] + qty[l] <= LineQuantity[l]
  BY <1>2, QuantitiesAre DEF ReceivingStands
<1>6. \A l \in Lines : Capitalized(l) = CapitalizedIn(valuations, ActiveOf(receipts), l)
  BY CapitalizedIs
<1>7. \A l \in Lines : CapitalizedIn(valuations, ActiveOf(receipts), l) \in Nat
  BY CostsAre DEF Shape, CapitalizedIn, CapitalizedRows
<1>8. ASSUME NEW l \in DOMAIN qty, LineProduct[l] \in Valued
      PROVE  /\ cost[l] \in Nat
             /\ CapitalizedIn(valuations, ActiveOf(receipts), l) + cost[l] <= LineAmount[l]
             /\ reqPrior[r][l] + qty[l] >= LineQuantity[l]
                  => CapitalizedIn(valuations, ActiveOf(receipts), l) + cost[l] = LineAmount[l]
  <2>1. l \in Lines /\ reqPrior[r][l] \in Nat /\ qty[l] \in Nat
    BY <1>5
  <2>2. CapitalizedIn(valuations, ActiveOf(receipts), l) <= LineAmount[l]
    BY <1>8, <2>1 DEF RowsStand, CapitalStands
  <2>. QED
    BY <1>6, <1>7, <2>1, <2>2, ReceiptCostIs
<1> DEFINE paid == [l \in DOMAIN qty |-> IF LineProduct[l] \in Valued THEN cost[l] ELSE 0]
<1>9. N = {ReceiptRow(d, qty, paid, l) : l \in costed}
  <2>1. \A l \in costed : ReceiptRow(d, qty, paid, l) = ReceiptRow(d, qty, cost, l)
    BY DEF ReceiptRow
  <2>. QED
    BY <2>1
<1> HIDE DEF cost
<1>10. Receives(N, d, qty, paid, costed)
  <2>1. paid \in [DOMAIN qty -> Nat]
    BY <1>8
  <2>. QED
    BY <1>5, <1>9, <2>1 DEF Receives
<1> HIDE DEF N
<1>11. /\ receipts' \in [Receipts -> Document(Lines, MaxLine) \cup {NoDocument}]
       /\ receipts'[d] = [status |-> "ACTIVE", qty |-> qty]
       /\ Activates(receipts', receipts, Receipts, d)
       /\ ActiveOf(receipts') = ActiveOf(receipts) \cup {d}
       /\ \A x \in Receipts \ {d} : receipts'[x] = receipts[x]
       /\ \A x \in Docs \ {d} :
            DocumentIn(receipts', sales, x) = DocumentIn(receipts, sales, x)
  BY <1>3, <1>4, <1>5, ReceiptsAfter
<1>12. /\ sales' = sales /\ invoice' = invoice /\ cogs' = cogs /\ manual' = manual
  BY <1>1
<1>13. Opens(valuations, N, receipts, sales, receipts', sales, d)
  <2>1. /\ DocumentIn(receipts, sales, d).status = "NONE"
        /\ DocumentIn(receipts', sales, d).status = "ACTIVE"
        /\ DocumentIn(receipts', sales, d).qty = qty
    BY <1>3, <1>11 DEF DocumentIn, NoDocument
  <2>2. \A row \in N : /\ row.doc = d /\ row.event = "ORIGINAL"
                       /\ row.item \in DOMAIN qty
                       /\ row.product = ItemProduct(d, row.item)
                       /\ row.product \in Valued
    BY <1>10, ReceiptRowIs DEF ItemProduct
  <2>3. Table(N) /\ Table(valuations) /\ RowsFit(valuations, receipts, sales)
    BY <1>10, ReceiptRowIs DEF Shape, RowsStand
  <2>. QED
    BY <1>11, <2>1, <2>2, <2>3 DEF Opens, OnlyChanges
<1>14. /\ valuations \cap N = {} /\ Table(valuations \cup N) /\ RowsOf(valuations, d) = {}
       /\ RowsFit(valuations \cup N, receipts', sales)
       /\ PoolIsLive(valuations, receipts, sales) => PoolIsLive(valuations \cup N, receipts', sales)
  BY <1>13, Opening
<1>15. \A x \in Lines : ActiveQuantity(receipts', x) = ActiveQuantity(receipts, x) + At(qty, x)
  BY <1>11, OneMoreActive
<1>16. \A x \in Lines : ActiveQuantity(receipts, x) \in Nat
  BY TablesAre
<1>17. ASSUME NEW p \in Products
       PROVE  /\ QuantityOf(r, p) \in Int
              /\ Entered(receipts', p) = Entered(receipts, p) + QuantityOf(r, p)
  <2>1. QuantityOf(r, p) = Total(qty, ItemsOf(qty, p))
    BY <1>1, MovedIs DEF InReceipt
  <2>2. DOMAIN receipts'[d].qty \subseteq Lines /\ receipts'[d].qty = qty
    BY <1>5, <1>11
  <2>. QED
    BY <1>11, <2>1, <2>2, OneMoreReceived
<1> HIDE DEF qty, costed
<1>18. ProductsOf(r) = {LineProduct[l] : l \in DOMAIN qty} /\ ProductsOf(r) \subseteq Products
  <2>1. ProductsOf(r) = {LineProduct[l] : l \in DOMAIN qty}
    BY <1>1 DEF ProductsOf, ProductOf, InReceipt, qty
  <2>. QED
    BY <1>5, <2>1, StockValuationAssumption
<1>19. /\ \A p \in ProductsOf(r) : productLock[p] = r
       /\ stock' \in [Products -> 0..MaxStock]
       /\ \A p \in Products : stock'[p] = stock[p] + QuantityOf(r, p)
       /\ \A p \in Products \ ProductsOf(r) : stock'[p] = stock[p]
  <2>1. \A p \in ProductsOf(r) : QuantityOf(r, p) \in Int
    BY <1>17, <1>18
  <2>2. /\ \A p \in ProductsOf(r) : productLock[p] = r
        /\ stock' \in [Products -> 0..MaxStock]
        /\ \A p \in Products : stock'[p] = stock[p] + 1 * QuantityOf(r, p)
        /\ \A p \in Products \ ProductsOf(r) : stock'[p] = stock[p]
    BY <1>1, <2>1, StockMoves
  <2>. QED
    BY <1>17, <2>2
<1>20. Shape'
  BY <1>4, <1>11, <1>12, <1>14, <1>19 DEF Shape
<1>21. StockStands(stock', manual, receipts', sales)
  <2>1. ASSUME NEW p \in Products
        PROVE  stock'[p] = manual[p] - ActiveQuantity(sales, p) + Entered(receipts', p)
    <3>1. stock[p] = manual[p] - ActiveQuantity(sales, p) + Entered(receipts, p)
      BY DEF RowsStand, StockStands
    <3>2. /\ manual[p] \in Int /\ ActiveQuantity(sales, p) \in Int /\ Entered(receipts, p) \in Int
      BY TablesAre, EnteringIs DEF Shape
    <3>. QED
      BY <1>17, <1>19, <3>1, <3>2
  <2>. QED
    BY <2>1 DEF StockStands
<1>22. ReceivedStands(receipts', invoice)
  <2>1. ASSUME NEW l \in Lines
        PROVE  ActiveQuantity(receipts', l) <= LineQuantity[l]
    <3>1. ActiveQuantity(receipts, l) <= LineQuantity[l]
      BY <1>5 DEF RowsStand, ReceivedStands
    <3>2. LineQuantity[l] \in Nat
      BY StockValuationAssumption
    <3>. QED
      BY <1>5, <1>15, <1>16, <3>1, <3>2 DEF At
  <2>. QED
    BY <1>5, <2>1 DEF ReceivedStands
<1>23. CapitalStands(valuations \cup N, receipts')
  <2>1. ASSUME NEW l \in Lines, LineProduct[l] \in Valued
        PROVE  /\ CapitalizedIn(valuations \cup N, ActiveOf(receipts'), l) <= LineAmount[l]
               /\ ActiveQuantity(receipts', l) = LineQuantity[l] =>
                    CapitalizedIn(valuations \cup N, ActiveOf(receipts'), l) = LineAmount[l]
    <3> DEFINE before == CapitalizedIn(valuations, ActiveOf(receipts), l)
               after == CapitalizedIn(valuations \cup N, ActiveOf(receipts'), l)
    <3>1. after = before + IF l \in costed THEN paid[l] ELSE 0
      <4>1. Adds(valuations, N, d)
        BY <1>14 DEF Shape, Adds
      <4> HIDE DEF paid, before, after
      <4>2. CapitalizedIn(valuations \cup N, ActiveOf(receipts) \cup {d}, l)
              = CapitalizedIn(valuations, ActiveOf(receipts), l) + CostOf(paid, costed, l)
        BY <1>10, <4>1, CapitalGrows
      <4>. QED
        BY <1>11, <4>2 DEF before, after, CostOf
    <3>2. /\ before <= LineAmount[l]
          /\ ActiveQuantity(receipts, l) = LineQuantity[l] => before = LineAmount[l]
      BY <2>1 DEF RowsStand, CapitalStands
    <3>3. before \in Nat /\ LineAmount[l] \in Nat /\ LineQuantity[l] \in Nat
      BY <1>7, StockValuationAssumption
    <3> HIDE DEF before, after
    <3>4. CASE l \notin DOMAIN qty
      <4>1. l \notin costed /\ At(qty, l) = 0
        BY <3>4 DEF costed, At
      <4>. QED
        BY <1>15, <1>16, <3>1, <3>2, <3>3, <4>1 DEF after
    <3>5. CASE l \in DOMAIN qty
      <4>1. /\ cost[l] \in Nat /\ before + cost[l] <= LineAmount[l]
            /\ reqPrior[r][l] + qty[l] >= LineQuantity[l] => before + cost[l] = LineAmount[l]
        BY <1>8, <2>1, <3>5 DEF before
      <4>2. after = before + cost[l]
        <5>1. paid[l] = cost[l] /\ (l \notin costed => cost[l] = 0)
          BY <2>1, <3>5, <4>1 DEF costed
        <5>. QED
          BY <3>1, <3>3, <4>1, <5>1
      <4>3. ActiveQuantity(receipts', l) = LineQuantity[l] => reqPrior[r][l] + qty[l] >= LineQuantity[l]
        BY <1>5, <1>15, <1>16, <3>3, <3>5 DEF At
      <4>. QED
        BY <4>1, <4>2, <4>3 DEF after
    <3>. QED
      BY <3>4, <3>5
  <2>. QED
    BY <2>1 DEF CapitalStands
<1>24. PoolStands(valuations \cup N, receipts', sales)
  <2>1. PoolIsLive(valuations, receipts, sales)
    BY DEF RowsStand, PoolStands, PoolIsLive
  <2>2. \A p \in Products : Pool(p, valuations \cup N).quantity >= 0
    <3>1. TAKE p \in Products
    <3>2. Table(N) /\ \A row \in N : Sign(row) = 1
      BY <1>10, ReceiptRowIs
    <3>3. Pool(p, N).quantity \in Nat
      BY <3>2, PoolOfEntries
    <3>4. Table(valuations) /\ Pool(p, valuations).quantity >= 0
      BY DEF Shape, RowsStand, PoolStands
    <3>5. Pool(p, valuations).quantity \in Int
      BY <3>4, PoolIs
    <3>6. Pool(p, valuations \cup N).quantity = Pool(p, valuations).quantity + Pool(p, N).quantity
      BY <1>14, <3>2, <3>4, PoolOfBoth
    <3>. QED
      BY <3>3, <3>4, <3>5, <3>6
  <2>. QED
    BY <1>14, <2>1, <2>2 DEF PoolStands, PoolIsLive
<1>25. CogsStands(valuations \cup N, cogs)
  <2>1. ASSUME NEW x \in Sales
        PROVE  ConsumedIn(valuations \cup N, x) = PostedIn(cogs, x)
    <3>1. x # d /\ OnlyOf(N, d)
      BY <1>10, ReceiptRowIs, StockValuationAssumption DEF OnlyOf
    <3>2. ConsumedIn(valuations \cup N, x) = ConsumedIn(valuations, x)
      BY <3>1, OthersConsume
    <3>. QED
      BY <3>2 DEF RowsStand, CogsStands
  <2>. QED
    BY <2>1 DEF CogsStands
<1>26. RowsStand'
  <2>1. /\ RowsFit(valuations, receipts, sales)' /\ EntriesFit(cogs, sales)'
        /\ StockStands(stock, manual, receipts, sales)'
        /\ ReceivedStands(receipts, invoice)' /\ CapitalStands(valuations, receipts)'
        /\ PoolStands(valuations, receipts, sales)' /\ CogsStands(valuations, cogs)'
    BY <1>4, <1>12, <1>14, <1>21, <1>22, <1>23, <1>24, <1>25 DEF RowsStand
  <2>. QED
    BY <1>20, <2>1 DEF RowsStand
<1>27. KeepsRows(r)
  <2>1. ASSUME NEW o \in Requests \ {r}, NEW p \in Products, productLock[p] = o
        PROVE  /\ stock'[p] = stock[p]
               /\ Pool(p, valuations').quantity = Pool(p, valuations).quantity
               /\ Pool(p, valuations').value = Pool(p, valuations).value
    <3>1. p \notin ProductsOf(r)
      BY <1>19, <2>1
    <3>2. Table(N) /\ Table(valuations) /\ \A row \in N : row.product # p
      BY <1>10, <1>18, <3>1, ReceiptRowIs DEF Shape, costed
    <3>. QED
      BY <1>4, <1>14, <1>19, <3>1, <3>2, PoolUntouched
  <2>2. receipts[d].status # "ACTIVE"
    BY <1>3 DEF NoDocument
  <2>. QED
    BY <1>5, <1>11, <1>12, <2>1, <2>2 DEF KeepsRows
<1>. QED
  BY <1>1, <1>26, <1>27, Ending

-----------------------------------------------------------------------------
(* A receipt is cancelled *)

LEMMA ReceiptClosed ==
  ASSUME Shape, NEW d \in Receipts, receipts[d].status = "ACTIVE",
         receipts' = [receipts EXCEPT ![d].status = "CANCELLED"]
  PROVE  /\ receipts' \in [Receipts -> Document(Lines, MaxLine) \cup {NoDocument}]
         /\ receipts'[d].status = "CANCELLED" /\ receipts'[d].qty = receipts[d].qty
         /\ Activates(receipts, receipts', Receipts, d)
         /\ ActiveOf(receipts') = ActiveOf(receipts) \ {d}
         /\ \A x \in Receipts \ {d} : receipts'[x] = receipts[x]
         /\ \A x \in Docs \ {d} :
              DocumentIn(receipts', sales, x) = DocumentIn(receipts, sales, x)
<1>1. receipts \in [Receipts -> Document(Lines, MaxLine) \cup {NoDocument}]
  BY DEF Shape
<1>2. receipts[d] \in Document(Lines, MaxLine)
  BY <1>1 DEF NoDocument
<1>3. /\ receipts'[d] = [receipts[d] EXCEPT !.status = "CANCELLED"]
      /\ \A x \in Receipts \ {d} : receipts'[x] = receipts[x]
  BY <1>1
<1>4. receipts'[d] \in Document(Lines, MaxLine)
  BY <1>2, <1>3 DEF Document
<1>5. receipts' \in [Receipts -> Document(Lines, MaxLine) \cup {NoDocument}]
  BY <1>1, <1>3, <1>4
<1>6. receipts'[d].status = "CANCELLED" /\ receipts'[d].qty = receipts[d].qty
  BY <1>2, <1>3 DEF Document
<1>7. Tabled(receipts, Receipts) /\ Tabled(receipts', Receipts)
  BY <1>1, <1>5, ReceiptsTabled
<1>8. Activates(receipts, receipts', Receipts, d)
  BY <1>3, <1>6, <1>7 DEF Activates
<1>9. ActiveOf(receipts') = ActiveOf(receipts) \ {d}
  BY <1>3, <1>6 DEF ActiveOf
<1>. QED
  BY <1>3, <1>5, <1>6, <1>8, <1>9 DEF DocumentIn, Docs

\* Reversals of rows of d.
Reverses(T, U, d) ==
  Table(T) /\ Table(T \cup U) /\ \A row \in U : row.doc = d /\ row.event = "REVERSAL"

\* What was capitalized of a line by a receipt is no longer, and nothing else.
LEMMA CapitalShrinks ==
  ASSUME NEW T, NEW U, NEW d, Reverses(T, U, d), NEW active, NEW l
  PROVE  /\ CapitalizedIn(T \cup U, active \ {d}, l) <= CapitalizedIn(T, active, l)
         /\ (\A row \in RowsOf(T, d) : row.item # l)
              => CapitalizedIn(T \cup U, active \ {d}, l) = CapitalizedIn(T, active, l)
<1> DEFINE R == CapitalizedRows(T \cup U, active \ {d}, l)
           S == CapitalizedRows(T, active, l)
<1>1. Table(T) /\ \A row \in U : row.doc = d /\ row.event = "REVERSAL"
  BY DEF Reverses
<1>2. S \subseteq T /\ R \subseteq S
  BY <1>1 DEF CapitalizedRows
<1>3. (\A row \in RowsOf(T, d) : row.item # l) => R = S
  BY <1>1 DEF CapitalizedRows, RowsOf
<1> HIDE DEF R, S
<1>4. SumFunction(Costs(R)) <= SumFunction(Costs(S))
  BY <1>1, <1>2, CostsOfPart
<1>5. /\ CapitalizedIn(T \cup U, active \ {d}, l) = SumFunction(Costs(R))
      /\ CapitalizedIn(T, active, l) = SumFunction(Costs(S))
  BY DEF CapitalizedIn, R, S
<1>. QED
  BY <1>3, <1>4, <1>5

LEMMA CommitCancelReceiptKeeps ==
  ASSUME IInv, NEW r \in Requests, CommitCancelReceipt(r)
  PROVE  IInv'
<1>. RowsStand /\ Shape /\ RequestTypes
  BY DEF IInv, RowsStand
<1>1. /\ pc[r] = "unreceiving" /\ Pending(r) = {} /\ MoveStock(r, -1) /\ EndTransaction(r)
      /\ UNCHANGED <<manual, invoice, sales, cogs>>
  BY DEF CommitCancelReceipt, Ready
<1>2. CancellingStands(r, receipts, Receipts)
  BY <1>1 DEF IInv, RequestOK
<1>3. PICK d \in Receipts : /\ reqDoc[r] = {d} /\ docLock[d] = r
                            /\ receipts[d].status = "ACTIVE" /\ reqQty[r] = receipts[d].qty
  BY <1>2 DEF CancellingStands
<1> DEFINE qty == receipts[d].qty
           T == valuations
           U == {Reversed(row) : row \in RowsOf(T, d)}
<1>4. \A row \in RowsOf(T, d) : row \in Valuation /\ row.event = "ORIGINAL" /\ row.doc = d
  <2>1. \A row \in RowsOf(T, d) : row \in T /\ row \in Valuation /\ row.doc = d
    BY DEF RowsOf, Shape, Table
  <2>2. ASSUME NEW row \in RowsOf(T, d)
        PROVE  row.event = "ORIGINAL"
    <3>1. DocumentIn(receipts, sales, row.doc).status = "ACTIVE"
      BY <1>3, <2>1 DEF DocumentIn
    <3>2. row.event \in {"ORIGINAL", "REVERSAL"}
      BY <2>1 DEF Valuation
    <3>. QED
      BY <2>1, <3>1, <3>2 DEF RowsStand, RowsFit
  <2>. QED
    BY <2>1, <2>2
<1>5. Reversals(r, d) = U
  <2>1. {row \in valuations : row.doc = d /\ row.event = "ORIGINAL"} = RowsOf(T, d)
    BY <1>4 DEF RowsOf
  <2>2. Reversals(r, d) = {Row(d, row.item, row.product, "REVERSAL", row.quantity, row.cost)
                             : row \in RowsOf(T, d)}
    BY <2>1 DEF Reversals
  <2>3. \A row \in RowsOf(T, d) :
          Reversed(row) = Row(d, row.item, row.product, "REVERSAL", row.quantity, row.cost)
    BY <1>4 DEF Reversed
  <2>. QED
    BY <2>2, <2>3
<1>6. /\ receipts' = [receipts EXCEPT ![d].status = "CANCELLED"]
      /\ valuations' = T \cup U
      /\ \A p \in ProductsOf(r) :
           reqSeen[r][p].quantity >=
             SumFunction([row \in {row \in U : row.product = p} |-> row.quantity])
  BY <1>3, <1>5 DEF CommitCancelReceipt
<1>7. DOMAIN qty \subseteq Lines /\ \A l \in DOMAIN qty : qty[l] \in Nat \ {0}
  BY TablesAre
<1>8. /\ receipts' \in [Receipts -> Document(Lines, MaxLine) \cup {NoDocument}]
      /\ receipts'[d].status = "CANCELLED" /\ receipts'[d].qty = receipts[d].qty
      /\ Activates(receipts, receipts', Receipts, d)
      /\ ActiveOf(receipts') = ActiveOf(receipts) \ {d}
      /\ \A x \in Receipts \ {d} : receipts'[x] = receipts[x]
      /\ \A x \in Docs \ {d} :
           DocumentIn(receipts', sales, x) = DocumentIn(receipts, sales, x)
  BY <1>3, <1>6, ReceiptClosed
<1>9. sales' = sales /\ invoice' = invoice /\ cogs' = cogs /\ manual' = manual
  BY <1>1
<1>10. Closes(T, U, receipts, sales, receipts', sales, d)
  BY <1>3, <1>8 DEF Closes, DocumentIn, OnlyChanges, RowsStand, Shape
<1> HIDE DEF U, T
<1>11. /\ ReversalOf(U, RowsOf(T, d)) /\ T \cap U = {} /\ Table(U) /\ Table(T \cup U)
       /\ RowsFit(T \cup U, receipts', sales)
       /\ PoolIsLive(T, receipts, sales) => PoolIsLive(T \cup U, receipts', sales)
  BY <1>10, Closing
<1>12. \A row \in U : /\ row \in Valuation /\ row.doc = d /\ row.event = "REVERSAL"
                      /\ Sign(row) = -1
                      /\ row.item \in DOMAIN qty /\ row.product = LineProduct[row.item]
  <2>1. ASSUME NEW row \in RowsOf(T, d)
        PROVE  row.item \in DOMAIN qty /\ row.product = LineProduct[row.item]
    <3>1. row \in valuations /\ row.doc = d
      BY <2>1 DEF RowsOf, T
    <3>. QED
      BY <3>1 DEF RowsStand, RowsFit, DocumentIn, ItemProduct
  <2>2. ASSUME NEW row \in U
        PROVE  /\ row \in Valuation /\ row.doc = d /\ row.event = "REVERSAL"
               /\ row.item \in DOMAIN qty /\ row.product = LineProduct[row.item]
    <3>1. PICK original \in RowsOf(T, d) : row = Reversed(original)
      BY <2>2 DEF U
    <3>. QED
      BY <1>4, <2>1, <3>1, ReversedIs
  <2>. QED
    BY <2>2 DEF Sign
<1>13. \A x \in Lines : ActiveQuantity(receipts, x) = ActiveQuantity(receipts', x) + At(qty, x)
  BY <1>8, OneMoreActive
<1>14. \A x : ActiveQuantity(receipts, x) \in Nat /\ ActiveQuantity(receipts', x) \in Nat
  BY <1>8, SharesAre DEF Activates
<1>15. ASSUME NEW p \in Products
       PROVE  /\ QuantityOf(r, p) \in Int
              /\ Entered(receipts, p) = Entered(receipts', p) + QuantityOf(r, p)
  <2>1. QuantityOf(r, p) = Total(qty, ItemsOf(qty, p))
    BY <1>1, <1>3, MovedIs DEF InReceipt
  <2>. QED
    BY <1>7, <1>8, <2>1, OneMoreReceived
<1>16. ProductsOf(r) = {LineProduct[l] : l \in DOMAIN qty} /\ ProductsOf(r) \subseteq Products
  <2>1. ProductsOf(r) = {LineProduct[l] : l \in DOMAIN qty}
    BY <1>1, <1>3 DEF ProductsOf, ProductOf, InReceipt
  <2>. QED
    BY <1>7, <2>1, StockValuationAssumption, ZenonT(60)
<1>17. /\ \A p \in ProductsOf(r) :
            productLock[p] = r /\ reqSeen[r][p].quantity = Pool(p, T).quantity
       /\ stock' \in [Products -> 0..MaxStock]
       /\ \A p \in Products : stock'[p] = stock[p] - QuantityOf(r, p)
       /\ \A p \in Products \ ProductsOf(r) : stock'[p] = stock[p]
  <2>1. \A p \in ProductsOf(r) : QuantityOf(r, p) \in Int
    BY <1>15, <1>16
  <2>2. /\ \A p \in ProductsOf(r) :
             productLock[p] = r /\ reqSeen[r][p].quantity = Pool(p, valuations).quantity
        /\ stock' \in [Products -> 0..MaxStock]
        /\ \A p \in Products : stock'[p] = stock[p] + (-1) * QuantityOf(r, p)
        /\ \A p \in Products \ ProductsOf(r) : stock'[p] = stock[p]
    BY <1>1, <2>1, StockMoves
  <2>3. \A p \in Products : stock[p] \in Int
    BY DEF Shape
  <2>. QED
    BY <1>15, <2>2, <2>3 DEF T
<1>18. Shape'
  BY <1>6, <1>8, <1>9, <1>11, <1>17 DEF Shape
<1> HIDE DEF qty
<1>19. StockStands(stock', manual, receipts', sales)
  <2>1. ASSUME NEW p \in Products
        PROVE  stock'[p] = manual[p] - ActiveQuantity(sales, p) + Entered(receipts', p)
    <3>1. stock[p] = manual[p] - ActiveQuantity(sales, p) + Entered(receipts, p)
      BY DEF RowsStand, StockStands
    <3>2. manual[p] \in Int /\ ActiveQuantity(sales, p) \in Int
      BY TablesAre DEF Shape
    <3>3. Entered(receipts', p) \in Int
      BY <1>8, EnteringIs DEF Activates
    <3>. QED
      BY <1>15, <1>17, <3>1, <3>2, <3>3
  <2>. QED
    BY <2>1 DEF StockStands
<1>20. ReceivedStands(receipts', invoice)
  <2>1. ASSUME NEW l \in Lines, NEW most \in Int, ActiveQuantity(receipts, l) <= most
        PROVE  ActiveQuantity(receipts', l) <= most
    <3>1. At(qty, l) \in Nat
      BY <1>7 DEF At
    <3>. QED
      BY <1>13, <1>14, <2>1, <3>1
  <2>2. \A l \in Lines : (IF invoice = "CANCELLED" THEN 0 ELSE LineQuantity[l]) \in Int
    BY StockValuationAssumption
  <2>. QED
    BY <2>1, <2>2 DEF RowsStand, ReceivedStands
<1>21. CapitalStands(T \cup U, receipts')
  <2>1. ASSUME NEW l \in Lines, LineProduct[l] \in Valued
        PROVE  /\ CapitalizedIn(T \cup U, ActiveOf(receipts'), l) <= LineAmount[l]
               /\ ActiveQuantity(receipts', l) = LineQuantity[l] =>
                    CapitalizedIn(T \cup U, ActiveOf(receipts'), l) = LineAmount[l]
    <3> DEFINE before == CapitalizedIn(T, ActiveOf(receipts), l)
               after == CapitalizedIn(T \cup U, ActiveOf(receipts'), l)
    <3>1. Reverses(T, U, d)
      BY <1>11, <1>12 DEF Reverses, Shape, T
    <3>2. /\ after <= before
          /\ (\A row \in RowsOf(T, d) : row.item # l) => after = before
      <4> DEFINE active == ActiveOf(receipts)
      <4> HIDE DEF active
      <4>1. /\ CapitalizedIn(T \cup U, active \ {d}, l) <= CapitalizedIn(T, active, l)
            /\ (\A row \in RowsOf(T, d) : row.item # l)
                 => CapitalizedIn(T \cup U, active \ {d}, l) = CapitalizedIn(T, active, l)
        BY <3>1, CapitalShrinks
      <4>. QED
        BY <1>8, <4>1 DEF active
    <3>3. /\ before <= LineAmount[l]
          /\ ActiveQuantity(receipts, l) = LineQuantity[l] => before = LineAmount[l]
      BY <2>1 DEF RowsStand, CapitalStands, T
    <3>4. before \in Nat /\ after \in Nat /\ LineAmount[l] \in Nat /\ LineQuantity[l] \in Nat
      <4>1. /\ CapitalizedRows(T, ActiveOf(receipts), l) \subseteq T
            /\ CapitalizedRows(T \cup U, ActiveOf(receipts'), l) \subseteq T \cup U
        BY DEF CapitalizedRows
      <4>2. Table(T)
        BY DEF Shape, T
      <4>3. before \in Nat
        BY <4>1, <4>2, CostsAre DEF CapitalizedIn
      <4>4. after \in Nat
        BY <1>11, <4>1, CostsAre DEF CapitalizedIn
      <4>. QED
        BY <4>3, <4>4, StockValuationAssumption
    <3> HIDE DEF before, after
    <3>5. CASE l \in DOMAIN qty
      <4>1. qty[l] \in Nat \ {0} /\ At(qty, l) = qty[l]
        BY <1>7, <3>5 DEF At
      <4>2. ActiveQuantity(receipts, l) <= LineQuantity[l]
        <5>1. ActiveQuantity(receipts, l) <= IF invoice = "CANCELLED" THEN 0 ELSE LineQuantity[l]
          BY DEF RowsStand, ReceivedStands
        <5>. QED
          BY <1>14, <3>4, <5>1
      <4>3. ActiveQuantity(receipts', l) # LineQuantity[l]
        BY <1>13, <1>14, <3>4, <4>1, <4>2
      <4>. QED
        BY <3>2, <3>3, <3>4, <4>3 DEF after
    <3>6. CASE l \notin DOMAIN qty
      <4>1. ActiveQuantity(receipts', l) = ActiveQuantity(receipts, l)
        BY <1>13, <1>14, <3>6 DEF At
      <4>2. \A row \in RowsOf(T, d) : row.item # l
        BY <3>6 DEF RowsOf, T, RowsStand, RowsFit, DocumentIn, qty
      <4>. QED
        BY <3>2, <3>3, <4>1, <4>2 DEF after
    <3>. QED
      BY <3>5, <3>6
  <2>. QED
    BY <2>1 DEF CapitalStands
<1>22. PoolStands(T \cup U, receipts', sales)
  <2>1. PoolIsLive(T, receipts, sales)
    BY DEF RowsStand, PoolStands, PoolIsLive, T
  <2>2. ASSUME NEW p \in Products
        PROVE  Pool(p, T \cup U).quantity >= 0
    <3>1. Table(T) /\ Pool(p, T).quantity >= 0
      BY DEF Shape, RowsStand, PoolStands, T
    <3>2. Pool(p, T).quantity \in Int
      BY <3>1, PoolIs
    <3>3. CASE p \in ProductsOf(r)
      <4>1. /\ Pool(p, U).quantity = -SumFunction([row \in OfProduct(p, U) |-> row.quantity])
            /\ SumFunction([row \in OfProduct(p, U) |-> row.quantity]) \in Int
        BY <1>11, <1>12, PoolOfExits
      <4>2. Pool(p, T).quantity >= SumFunction([row \in OfProduct(p, U) |-> row.quantity])
        BY <1>6, <1>17, <3>3 DEF OfProduct
      <4>3. Pool(p, T \cup U).quantity = Pool(p, T).quantity + Pool(p, U).quantity
        BY <1>11, <3>1, PoolOfBoth
      <4>. QED
        BY <3>2, <4>1, <4>2, <4>3
    <3>4. CASE p \notin ProductsOf(r)
      <4>1. \A row \in U : row.product # p
        BY <1>12, <1>16, <3>4
      <4>. QED
        BY <1>11, <3>1, <4>1, PoolUntouched
    <3>. QED
      BY <3>3, <3>4
  <2>. QED
    BY <1>11, <2>1, <2>2 DEF PoolStands, PoolIsLive
<1>23. CogsStands(T \cup U, cogs)
  <2>1. ASSUME NEW x \in Sales
        PROVE  ConsumedIn(T \cup U, x) = PostedIn(cogs, x)
    <3>1. x # d /\ OnlyOf(U, d)
      BY <1>12, StockValuationAssumption DEF OnlyOf
    <3>2. ConsumedIn(T \cup U, x) = ConsumedIn(T, x)
      BY <3>1, OthersConsume
    <3>. QED
      BY <3>2 DEF RowsStand, CogsStands, T
  <2>. QED
    BY <2>1 DEF CogsStands
<1>24. RowsStand'
  <2>1. /\ RowsFit(valuations, receipts, sales)' /\ EntriesFit(cogs, sales)'
        /\ StockStands(stock, manual, receipts, sales)'
        /\ ReceivedStands(receipts, invoice)' /\ CapitalStands(valuations, receipts)'
        /\ PoolStands(valuations, receipts, sales)' /\ CogsStands(valuations, cogs)'
    BY <1>6, <1>9, <1>11, <1>19, <1>20, <1>21, <1>22, <1>23 DEF RowsStand
  <2>. QED
    BY <1>18, <2>1 DEF RowsStand
<1>25. KeepsRows(r)
  <2>1. ASSUME NEW o \in Requests \ {r}, NEW p \in Products, productLock[p] = o
        PROVE  /\ stock'[p] = stock[p]
               /\ Pool(p, valuations').quantity = Pool(p, valuations).quantity
               /\ Pool(p, valuations').value = Pool(p, valuations).value
    <3>1. p \notin ProductsOf(r)
      BY <1>17, <2>1
    <3>2. Table(T) /\ \A row \in U : row.product # p
      BY <1>12, <1>16, <3>1 DEF Shape, T
    <3>3. /\ Pool(p, T \cup U).quantity = Pool(p, T).quantity
          /\ Pool(p, T \cup U).value = Pool(p, T).value
      BY <1>11, <3>2, PoolUntouched
    <3>. QED
      BY <1>6, <1>17, <3>1, <3>3 DEF T
  <2>2. \A l \in Lines : ActiveQuantity(receipts', l) <= ActiveQuantity(receipts, l)
    <3>1. \A l \in Lines : At(qty, l) \in Nat
      BY <1>7 DEF At
    <3>. QED
      BY <1>13, <1>14, <3>1
  <2>3. \A x \in Receipts : receipts[x] = NoDocument => receipts'[x] = NoDocument
    BY <1>3, <1>8 DEF NoDocument
  <2>4. \A o \in Requests \ {r} : docLock[d] # o
    BY <1>3
  <2>. QED
    BY <1>8, <1>9, <2>1, <2>2, <2>3, <2>4 DEF KeepsRows
<1>. QED
  BY <1>1, <1>24, <1>25, Ending

-----------------------------------------------------------------------------
(* A sale consumes *)

SaleRow(d, qty, cost, p) == Row(d, p, p, "ORIGINAL", qty[p], cost[p])

\* The sale d takes out what qty says, and with it a value.
Sells(N, d, qty, cost) ==
  /\ d \in Sales
  /\ qty \in Quantities(Products, MaxStock)
  /\ cost \in [DOMAIN qty \cap Valued -> Nat]
  /\ N = {SaleRow(d, qty, cost, p) : p \in DOMAIN cost}

LEMMA SaleRowIs ==
  ASSUME NEW N, NEW d, NEW qty, NEW cost, Sells(N, d, qty, cost)
  PROVE  /\ \A p \in DOMAIN cost :
              /\ p \in Products /\ p \in Valued /\ SaleRow(d, qty, cost, p) \in N
              /\ SaleRow(d, qty, cost, p).product = p
              /\ SaleRow(d, qty, cost, p).quantity = qty[p]
              /\ SaleRow(d, qty, cost, p).cost = cost[p]
              /\ qty[p] \in Nat \ {0} /\ cost[p] \in Nat
         /\ \A row \in N :
              /\ row \in Valuation /\ row.doc = d /\ row.event = "ORIGINAL" /\ Sign(row) = -1
              /\ row.item = row.product /\ row.product \in DOMAIN cost
              /\ row = SaleRow(d, qty, cost, row.product)
         /\ Table(N) /\ IsFiniteSet(DOMAIN cost)
<1>. /\ d \in Sales
     /\ qty \in Quantities(Products, MaxStock)
     /\ cost \in [DOMAIN qty \cap Valued -> Nat]
     /\ N = {SaleRow(d, qty, cost, p) : p \in DOMAIN cost}
  BY DEF Sells
<1>1. DOMAIN qty \subseteq Products /\ \A p \in DOMAIN qty : qty[p] \in Nat \ {0}
  BY QuantitiesAre
<1>2. \A p \in DOMAIN cost :
        /\ p \in Products /\ p \in Valued /\ SaleRow(d, qty, cost, p) \in N
        /\ SaleRow(d, qty, cost, p).item = p
        /\ SaleRow(d, qty, cost, p).product = p
        /\ SaleRow(d, qty, cost, p).quantity = qty[p]
        /\ SaleRow(d, qty, cost, p).cost = cost[p]
        /\ SaleRow(d, qty, cost, p).doc = d
        /\ SaleRow(d, qty, cost, p).event = "ORIGINAL"
        /\ qty[p] \in Nat \ {0} /\ cost[p] \in Nat
  BY <1>1 DEF SaleRow, Row
<1>3. \A p \in DOMAIN cost : SaleRow(d, qty, cost, p) \in Valuation
  BY <1>2 DEF SaleRow, Row, Valuation, Docs
<1>4. ASSUME NEW row \in N
      PROVE  /\ row \in Valuation /\ row.doc = d /\ row.event = "ORIGINAL" /\ Sign(row) = -1
             /\ row.item = row.product /\ row.product \in DOMAIN cost
             /\ row = SaleRow(d, qty, cost, row.product)
  <2>1. PICK p \in DOMAIN cost : row = SaleRow(d, qty, cost, p)
    OBVIOUS
  <2>2. Sign(row) = -1
    BY <1>2, <2>1, StockValuationAssumption DEF Sign
  <2>. QED
    BY <1>2, <1>3, <2>1, <2>2
<1>5. IsFiniteSet(DOMAIN cost)
  BY <1>1, FS_Subset, StockValuationAssumption
<1>6. IsFiniteSet(N)
  <2> DEFINE g == [p \in DOMAIN cost |-> SaleRow(d, qty, cost, p)]
  <2>1. g \in Surjection(DOMAIN cost, N)
    BY DEF Surjection
  <2>. QED
    BY <1>5, <2>1, FS_Surjection
<1>. QED
  BY <1>2, <1>4, <1>5, <1>6 DEF Table

\* A product has one row, which takes out its quantity and its cost.
LEMMA PoolOfSale ==
  ASSUME NEW N, NEW d, NEW qty, NEW cost, Sells(N, d, qty, cost), NEW p \in DOMAIN cost
  PROVE  Pool(p, N).quantity = -qty[p] /\ Pool(p, N).value = -cost[p]
<1> DEFINE row == SaleRow(d, qty, cost, p)
           units == Units(p, N)
           worth == Worth(p, N)
<1>1. /\ row \in N /\ row \in Valuation /\ row.product = p
      /\ row.quantity = qty[p] /\ row.cost = cost[p] /\ Sign(row) = -1
      /\ qty[p] \in Nat /\ cost[p] \in Nat
  BY SaleRowIs
<1>2. OfProduct(p, N) = {row}
  BY <1>1, SaleRowIs DEF OfProduct
<1>3. Table(N)
  BY SaleRowIs
<1>4. units \in [{row} -> Int] /\ worth \in [{row} -> Int]
  BY <1>2, <1>3, PoolIs DEF Addends
<1>5. units[row] = -qty[p] /\ worth[row] = -cost[p]
  BY <1>1, <1>2, SignIs DEF Units, Worth
<1>6. Pool(p, N) = [quantity |-> SumFunction(units), value |-> SumFunction(worth)]
  BY <1>3, PoolIs
<1> HIDE DEF row, units, worth
<1>7. SumFunction(units) = units[row] /\ SumFunction(worth) = worth[row]
  BY <1>4, SumOne
<1>. QED
  BY <1>5, <1>6, <1>7

\* What a sale takes is the sum of its costs.
LEMMA TakenBySale ==
  ASSUME NEW N, NEW d, NEW qty, NEW cost, Sells(N, d, qty, cost)
  PROVE  SumFunction(Taken(N)) = SumFunction(cost) /\ SumFunction(cost) \in Nat
<1> DEFINE name == [p \in DOMAIN cost |-> SaleRow(d, qty, cost, p)]
           taken == Taken(N)
<1>1. \A row \in N : -Sign(row) * row.cost = row.cost /\ row.cost \in Nat
  <2>1. \A row \in N : Sign(row) = -1 /\ row.cost \in Nat
    BY SaleRowIs DEF Valuation
  <2>. QED
    BY <2>1
<1>2. taken \in [N -> Int] /\ \A row \in N : taken[row] = row.cost
  BY <1>1 DEF Taken
<1>3. cost \in [DOMAIN cost -> Nat] /\ cost \in [DOMAIN cost -> Int]
  BY DEF Sells
<1>4. IsFiniteSet(N) /\ IsFiniteSet(DOMAIN cost)
  BY SaleRowIs DEF Table
<1>5. \A p \in DOMAIN cost : name[p] \in N /\ taken[name[p]] = cost[p]
  BY <1>2, SaleRowIs
<1>6. \A p, q \in DOMAIN cost : name[p] = name[q] => p = q
  <2>1. \A p \in DOMAIN cost : name[p].product = p
    BY SaleRowIs
  <2>. QED
    BY <2>1
<1>7. \A row \in N : \E p \in DOMAIN cost : name[p] = row
  BY SaleRowIs
<1> HIDE DEF name, taken
<1>8. Renames(taken, N, cost, DOMAIN cost, name)
  BY <1>2, <1>3, <1>4, <1>5, <1>6, <1>7 DEF Renames, Addends
<1>9. SumFunction(taken) = SumFunction(cost)
  BY <1>8, SumRenamed
<1>10. SumFunction(cost) \in Nat
  BY <1>3, <1>4, SumNat
<1>. QED
  BY <1>9, <1>10 DEF taken

LEMMA HalfUpIsInt ==
  ASSUME NEW n \in Int, NEW d \in Nat \ {0}
  PROVE  HalfUp(n, d) \in Int
<1>1. 2 * d \in Nat \ {0} /\ 2 * n + d \in Int /\ 2 * (-n) + d \in Int
  OBVIOUS
<1>2. (2 * n + d) \div (2 * d) \in Int /\ (2 * (-n) + d) \div (2 * d) \in Int
  BY <1>1
<1>. QED
  BY <1>2 DEF HalfUp

LEMMA ConsumptionCostIsInt ==
  ASSUME NEW pool, pool.value \in Int, pool.quantity \in Nat \ {0}, NEW quantity \in Nat \ {0}
  PROVE  ConsumptionCost(pool, quantity) \in Int
<1>1. UnitScale \in Nat \ {0} /\ Lot \in Nat \ {0}
  BY StockValuationAssumption DEF UnitScale
<1>2. pool.value * UnitScale \in Int /\ pool.quantity * Lot \in Nat \ {0}
  <2>1. \A a \in Int, b \in Nat \ {0} : a * b \in Int
    OBVIOUS
  <2>2. \A a, b \in Nat \ {0} : a * b \in Nat \ {0}
    OBVIOUS
  <2>. QED
    BY <1>1, <2>1, <2>2
<1>3. HalfUp(pool.value * UnitScale, pool.quantity * Lot) \in Int
  BY <1>2, HalfUpIsInt
<1>4. HalfUp(pool.value * UnitScale, pool.quantity * Lot) * quantity * Lot \in Int
  <2> DEFINE unitCost == HalfUp(pool.value * UnitScale, pool.quantity * Lot)
  <2> HIDE DEF unitCost
  <2>1. \A a, b, c \in Int : a * b * c \in Int
    OBVIOUS
  <2>. QED
    BY <1>1, <1>3, <2>1 DEF unitCost
<1>5. AverageCost(pool, quantity) \in Int
  BY <1>1, <1>4, HalfUpIsInt DEF AverageCost
<1>. QED
  BY <1>5 DEF ConsumptionCost

\* What CommitSale writes: d is the request's sale, N its rows.
SaleCost(r) ==
  [p \in DOMAIN reqQty[r] \cap Valued |-> ConsumptionCost(reqSeen[r][p], reqQty[r][p])]

SaleRows(r, d) == {SaleRow(d, reqQty[r], SaleCost(r), p) : p \in DOMAIN SaleCost(r)}

SaleWritten(r, d) ==
  /\ sales[d] = NoDocument
  /\ sales' = [sales EXCEPT ![d] = [status |-> "ACTIVE", qty |-> reqQty[r]]]
  /\ valuations' = valuations \cup SaleRows(r, d)
  /\ cogs' = cogs \cup (IF DOMAIN SaleCost(r) = {} THEN {}
                        ELSE {Entry(d, "ORIGINAL", SumFunction(SaleCost(r)))})

LEMMA SaleCommits ==
  ASSUME IInv, NEW r \in Requests, CommitSale(r)
  PROVE  \E d \in Sales :
           /\ reqDoc[r] = {d} /\ SaleWritten(r, d)
           /\ Sells(SaleRows(r, d), d, reqQty[r], SaleCost(r))
           /\ \A p \in DOMAIN SaleCost(r) :
                /\ reqQty[r][p] <= Pool(p, valuations).quantity
                /\ reqQty[r][p] = Pool(p, valuations).quantity
                     => SaleCost(r)[p] = Pool(p, valuations).value
           /\ DOMAIN SaleCost(r) # {} => SumFunction(SaleCost(r)) \in Nat \ {0}
<1> DEFINE qty == reqQty[r]
           cost == SaleCost(r)
           costed == DOMAIN qty \cap Valued
<1>1. /\ pc[r] = "selling" /\ Pending(r) = {} /\ MoveStock(r, -1)
      /\ \A p \in costed : reqSeen[r][p].quantity >= qty[p] /\ cost[p] >= 0
      /\ \A p \in costed : Total(cost, {q \in costed : AccountOf[q] = AccountOf[p]}) > 0
  BY DEF CommitSale, Ready, SaleCost
<1>2. PICK d \in Sales : reqDoc[r] = {d}
  BY <1>1 DEF IInv, RequestOK
<1>3. qty \in Quantities(Products, MaxStock)
  BY <1>1 DEF IInv, RequestOK
<1>4. DOMAIN qty \subseteq Products /\ \A p \in DOMAIN qty : qty[p] \in Nat \ {0}
  BY <1>3, QuantitiesAre
<1>5. ProductsOf(r) = DOMAIN qty
  BY <1>1 DEF ProductsOf, ProductOf, InReceipt
<1>6. \A p \in DOMAIN qty : QuantityOf(r, p) \in Int
  <2>1. ASSUME NEW p \in DOMAIN qty
        PROVE  QuantityOf(r, p) \in Int
    <3>1. pc[r] \notin InReceipt /\ \A x \in DOMAIN reqQty[r] : reqQty[r][x] \in Nat
      BY <1>1, <1>4 DEF InReceipt
    <3>2. QuantityOf(r, p) = At(reqQty[r], p)
      BY <3>1, MovedIs
    <3>. QED
      BY <1>4, <3>2 DEF At
  <2>. QED
    BY <2>1
<1>7. \A p \in DOMAIN qty : /\ reqSeen[r][p].quantity = Pool(p, valuations).quantity
                            /\ reqSeen[r][p].value = Pool(p, valuations).value
  BY <1>1, <1>5, <1>6, StockMoves
<1>8. \A p : Pool(p, valuations).quantity \in Int /\ Pool(p, valuations).value \in Int
  BY PoolIs DEF IInv, RowsStand, Shape
<1>9. ASSUME NEW p \in costed
      PROVE  /\ qty[p] <= Pool(p, valuations).quantity
             /\ qty[p] = Pool(p, valuations).quantity => cost[p] = Pool(p, valuations).value
             /\ cost[p] \in Nat
  <2>1. p \in DOMAIN qty /\ qty[p] \in Nat \ {0}
    BY <1>4
  <2>2. /\ reqSeen[r][p].quantity \in Nat \ {0} /\ reqSeen[r][p].value \in Int
        /\ qty[p] <= Pool(p, valuations).quantity
    BY <1>1, <1>7, <1>8, <2>1
  <2>3. ConsumptionCost(reqSeen[r][p], qty[p]) \in Int
    BY <2>1, <2>2, ConsumptionCostIsInt
  <2>4. cost[p] = ConsumptionCost(reqSeen[r][p], qty[p])
    BY DEF SaleCost
  <2>5. qty[p] = Pool(p, valuations).quantity => cost[p] = Pool(p, valuations).value
    BY <1>7, <2>1, <2>4 DEF ConsumptionCost
  <2>6. cost[p] >= 0
    BY <1>1
  <2>. QED
    BY <2>2, <2>3, <2>4, <2>5, <2>6
<1>10. DOMAIN cost = costed /\ cost \in [costed -> Nat]
  BY <1>9 DEF SaleCost
<1>11. Sells(SaleRows(r, d), d, qty, cost)
  BY <1>3, <1>10 DEF Sells, SaleRows
<1>12. Total(cost, costed) = SumFunction(cost)
  <2>1. Restrict(cost, costed) = cost
    BY <1>10 DEF Restrict
  <2>. QED
    BY <2>1 DEF Total
<1>13. SaleWritten(r, d)
  <2>1. /\ sales[d] = NoDocument
        /\ sales' = [sales EXCEPT ![d] = [status |-> "ACTIVE", qty |-> qty]]
        /\ valuations' = valuations \cup {Row(d, p, p, "ORIGINAL", qty[p], cost[p]) : p \in costed}
        /\ cogs' = cogs \cup
             (IF costed = {} THEN {} ELSE {Entry(d, "ORIGINAL", Total(cost, costed))})
    BY <1>2 DEF CommitSale, SaleCost
  <2>. QED
    BY <1>10, <1>12, <2>1 DEF SaleWritten, SaleRows, SaleRow
<1>14. ASSUME costed # {}
       PROVE  SumFunction(cost) \in Nat \ {0}
  <2>1. PICK p \in costed : TRUE
    BY <1>14
  <2> DEFINE same == {q \in costed : AccountOf[q] = AccountOf[p]}
             part == Restrict(cost, same)
  <2>2. SumFunction(part) > 0
    BY <1>1, <2>1 DEF Total
  <2>3. part \in [same -> Nat] /\ same \subseteq costed /\ \A q \in same : part[q] = cost[q]
    BY <1>10 DEF Restrict
  <2>4. IsFiniteSet(costed)
    BY <1>4, FS_Subset, StockValuationAssumption
  <2> HIDE DEF same, part, costed, cost
  <2>5. Within(part, same, cost, costed)
    BY <1>10, <2>3, <2>4 DEF Within
  <2>6. SumFunction(part) <= SumFunction(cost) /\ SumFunction(part) \in Nat /\ SumFunction(cost) \in Nat
    BY <2>5, SumOfPart
  <2>. QED
    BY <2>2, <2>6
<1>. QED
  BY <1>2, <1>9, <1>10, <1>11, <1>13, <1>14

LEMMA SaleOpened ==
  ASSUME Shape, NEW d \in Sales, sales[d] = NoDocument,
         NEW qty \in Quantities(Products, MaxStock),
         sales' = [sales EXCEPT ![d] = [status |-> "ACTIVE", qty |-> qty]]
  PROVE  /\ sales' \in [Sales -> Document(Products, MaxStock) \cup {NoDocument}]
         /\ sales'[d] = [status |-> "ACTIVE", qty |-> qty]
         /\ Activates(sales', sales, Sales, d)
         /\ \A x \in Sales \ {d} : sales'[x] = sales[x]
         /\ \A x \in Docs \ {d} :
              DocumentIn(receipts, sales', x) = DocumentIn(receipts, sales, x)
<1>1. sales \in [Sales -> Document(Products, MaxStock) \cup {NoDocument}]
  BY DEF Shape
<1>2. [status |-> "ACTIVE", qty |-> qty] \in Document(Products, MaxStock)
  BY DEF Document
<1>3. sales' \in [Sales -> Document(Products, MaxStock) \cup {NoDocument}]
  BY <1>1, <1>2
<1>4. /\ sales'[d] = [status |-> "ACTIVE", qty |-> qty]
      /\ \A x \in Sales \ {d} : sales'[x] = sales[x]
  BY <1>1
<1>5. Tabled(sales, Sales) /\ Tabled(sales', Sales)
  BY <1>1, <1>3, SalesTabled
<1>6. sales[d].status = "NONE"
  BY DEF NoDocument
<1>7. Activates(sales', sales, Sales, d)
  BY <1>4, <1>5, <1>6 DEF Activates
<1>. QED
  BY <1>3, <1>4, <1>7, StockValuationAssumption DEF DocumentIn, Docs

LEMMA SaleClosed ==
  ASSUME Shape, NEW d \in Sales, sales[d].status = "ACTIVE",
         sales' = [sales EXCEPT ![d].status = "CANCELLED"]
  PROVE  /\ sales' \in [Sales -> Document(Products, MaxStock) \cup {NoDocument}]
         /\ sales'[d].status = "CANCELLED" /\ sales'[d].qty = sales[d].qty
         /\ Activates(sales, sales', Sales, d)
         /\ \A x \in Sales \ {d} : sales'[x] = sales[x]
         /\ \A x \in Docs \ {d} :
              DocumentIn(receipts, sales', x) = DocumentIn(receipts, sales, x)
<1>1. sales \in [Sales -> Document(Products, MaxStock) \cup {NoDocument}]
  BY DEF Shape
<1>2. sales[d] \in Document(Products, MaxStock)
  BY <1>1 DEF NoDocument
<1>3. /\ sales'[d] = [sales[d] EXCEPT !.status = "CANCELLED"]
      /\ \A x \in Sales \ {d} : sales'[x] = sales[x]
  BY <1>1
<1>4. sales'[d] \in Document(Products, MaxStock)
  BY <1>2, <1>3 DEF Document
<1>5. sales' \in [Sales -> Document(Products, MaxStock) \cup {NoDocument}]
  BY <1>1, <1>3, <1>4
<1>6. sales'[d].status = "CANCELLED" /\ sales'[d].qty = sales[d].qty
  BY <1>2, <1>3 DEF Document
<1>7. Tabled(sales, Sales) /\ Tabled(sales', Sales)
  BY <1>1, <1>5, SalesTabled
<1>8. Activates(sales, sales', Sales, d)
  BY <1>3, <1>6, <1>7 DEF Activates
<1>. QED
  BY <1>3, <1>5, <1>6, <1>8, StockValuationAssumption DEF DocumentIn, Docs

\* Receipts that stay capitalize what they did: rows of sales are no part of it.
LEMMA CapitalUntouched ==
  ASSUME NEW T, NEW N, NEW active, active \subseteq Receipts,
         NEW d \in Sales, OnlyOf(N, d), NEW l
  PROVE  CapitalizedIn(T \cup N, active, l) = CapitalizedIn(T, active, l)
<1>1. CapitalizedRows(T \cup N, active, l) = CapitalizedRows(T, active, l)
  BY StockValuationAssumption DEF CapitalizedRows, OnlyOf
<1>. QED
  BY <1>1 DEF CapitalizedIn

\* Entries of another sale are no part of it.
OnlyFor(C, d) == \A e \in C : e.sale = d

LEMMA OthersPost ==
  ASSUME NEW C, NEW E, NEW d, OnlyFor(E, d), NEW x, x # d
  PROVE  PostedIn(C \cup E, x) = PostedIn(C, x)
<1>1. EntriesOf(C \cup E, x) = EntriesOf(C, x)
  BY DEF EntriesOf, OnlyFor
<1>. QED
  BY <1>1 DEF PostedIn

\* The sale d has not posted yet.
NotPosted(C, d) == \A e \in C : e.sale # d

LEMMA FirstPosted ==
  ASSUME NEW C, NEW d, NotPosted(C, d), NEW E, NEW amount \in Nat,
         E = IF amount = 0 THEN {} ELSE {Entry(d, "ORIGINAL", amount)}
  PROVE  PostedIn(C \cup E, d) = amount
<1>1. EntriesOf(C \cup E, d) = E
  BY DEF EntriesOf, NotPosted, Entry
<1>2. CASE amount = 0
  <2>1. DOMAIN Posted(E) = {}
    BY <1>2 DEF Posted
  <2>2. SumFunction(Posted(E)) = 0
    BY <2>1, SumNothing
  <2>. QED
    BY <1>1, <1>2, <2>2 DEF PostedIn
<1>3. CASE amount # 0
  <2> DEFINE e == Entry(d, "ORIGINAL", amount)
             f == Posted(E)
  <2>1. E = {e} /\ f \in [{e} -> Int] /\ f[e] = amount
    BY <1>3 DEF Posted, Entry
  <2> HIDE DEF e, f
  <2>2. SumFunction(f) = f[e]
    BY <2>1, SumOne
  <2>. QED
    BY <1>1, <2>1, <2>2 DEF PostedIn, f
<1>. QED
  BY <1>2, <1>3

\* The entry of a sale is of what it took, and there is none if it took nothing.
LEMMA EntryWritten ==
  ASSUME NEW N, NEW d, NEW qty, NEW cost, Sells(N, d, qty, cost),
         DOMAIN cost # {} => SumFunction(cost) \in Nat \ {0}
  PROVE  (IF DOMAIN cost = {} THEN {} ELSE {Entry(d, "ORIGINAL", SumFunction(cost))})
           = IF SumFunction(cost) = 0 THEN {} ELSE {Entry(d, "ORIGINAL", SumFunction(cost))}
<1>1. DOMAIN cost = {} => SumFunction(cost) = 0
  BY SumNothing
<1>. QED
  BY <1>1

LEMMA CommitSaleKeeps ==
  ASSUME IInv, NEW r \in Requests, CommitSale(r)
  PROVE  IInv'
<1> DEFINE qty == reqQty[r]
           cost == SaleCost(r)
           T == valuations
           amount == SumFunction(cost)
<1>. RowsStand /\ Shape /\ RequestTypes
  BY DEF IInv, RowsStand
<1>1. /\ pc[r] = "selling" /\ Pending(r) = {} /\ MoveStock(r, -1) /\ EndTransaction(r)
      /\ UNCHANGED <<manual, invoice, receipts>>
  BY DEF CommitSale, Ready
<1>2. PICK d \in Sales :
        /\ reqDoc[r] = {d} /\ SaleWritten(r, d)
        /\ Sells(SaleRows(r, d), d, qty, cost)
        /\ \A p \in DOMAIN cost : qty[p] <= Pool(p, T).quantity
        /\ DOMAIN cost # {} => amount \in Nat \ {0}
  BY SaleCommits
<1> DEFINE N == SaleRows(r, d)
           E == IF amount = 0 THEN {} ELSE {Entry(d, "ORIGINAL", amount)}
<1>3. /\ sales[d] = NoDocument
      /\ sales' = [sales EXCEPT ![d] = [status |-> "ACTIVE", qty |-> qty]]
      /\ valuations' = T \cup N
      /\ cogs' = cogs \cup E
  BY <1>2, EntryWritten DEF SaleWritten
<1>4. /\ qty \in Quantities(Products, MaxStock) /\ DOMAIN qty \subseteq Products
      /\ \A p \in DOMAIN qty : qty[p] \in Nat \ {0}
      /\ DOMAIN cost \subseteq DOMAIN qty
  BY <1>2, QuantitiesAre DEF Sells
<1>5. /\ sales' \in [Sales -> Document(Products, MaxStock) \cup {NoDocument}]
      /\ sales'[d] = [status |-> "ACTIVE", qty |-> qty]
      /\ Activates(sales', sales, Sales, d)
      /\ \A x \in Sales \ {d} : sales'[x] = sales[x]
      /\ \A x \in Docs \ {d} :
           DocumentIn(receipts, sales', x) = DocumentIn(receipts, sales, x)
  BY <1>3, <1>4, SaleOpened
<1>6. receipts' = receipts /\ invoice' = invoice /\ manual' = manual
  BY <1>1
<1>7. d \notin Receipts /\ d \in Docs
  BY StockValuationAssumption DEF Docs
<1>8. amount \in Nat /\ SumFunction(Taken(N)) = amount
  BY <1>2, TakenBySale
<1> HIDE DEF N, T, cost, amount
<1>9. /\ Table(N)
      /\ \A row \in N : /\ row.doc = d /\ row.event = "ORIGINAL" /\ Sign(row) = -1
                        /\ row.item = row.product /\ row.product \in DOMAIN cost
                        /\ row.product \in Valued
  BY <1>2, SaleRowIs DEF N, cost
<1>10. Opens(T, N, receipts, sales, receipts, sales', d)
  <2>1. /\ DocumentIn(receipts, sales, d).status = "NONE"
        /\ DocumentIn(receipts, sales', d).status = "ACTIVE"
        /\ DocumentIn(receipts, sales', d).qty = qty
    BY <1>3, <1>5, <1>7 DEF DocumentIn, NoDocument
  <2>2. \A row \in N : /\ row.doc = d /\ row.event = "ORIGINAL"
                       /\ row.item \in DOMAIN qty
                       /\ row.product = ItemProduct(d, row.item)
                       /\ row.product \in Valued
    BY <1>4, <1>7, <1>9 DEF ItemProduct
  <2>3. Table(N) /\ Table(T) /\ RowsFit(T, receipts, sales)
    BY <1>9 DEF Shape, RowsStand, T
  <2>. QED
    BY <1>5, <2>1, <2>2, <2>3 DEF Opens, OnlyChanges
<1>11. /\ T \cap N = {} /\ Table(T \cup N) /\ RowsOf(T, d) = {}
       /\ RowsFit(T \cup N, receipts, sales')
       /\ PoolIsLive(T, receipts, sales) => PoolIsLive(T \cup N, receipts, sales')
  BY <1>10, Opening
<1>12. \A x : ActiveQuantity(sales', x) = ActiveQuantity(sales, x) + At(qty, x)
  BY <1>5, OneMoreActive
<1>13. \A p \in Products : QuantityOf(r, p) = At(qty, p) /\ QuantityOf(r, p) \in Nat
  <2>1. pc[r] \notin InReceipt /\ \A x \in DOMAIN reqQty[r] : reqQty[r][x] \in Nat
    BY <1>1, <1>4 DEF InReceipt
  <2>2. \A p \in Products : QuantityOf(r, p) = At(qty, p)
    BY <2>1, MovedIs
  <2>. QED
    BY <1>4, <2>2 DEF At
<1>14. ProductsOf(r) = DOMAIN qty
  BY <1>1 DEF ProductsOf, ProductOf, InReceipt
<1> HIDE DEF qty
<1>15. /\ \A p \in ProductsOf(r) : productLock[p] = r
       /\ stock' \in [Products -> 0..MaxStock]
       /\ \A p \in Products : stock'[p] = stock[p] - At(qty, p)
       /\ \A p \in Products \ ProductsOf(r) : stock'[p] = stock[p]
  <2>1. \A p \in ProductsOf(r) : QuantityOf(r, p) \in Int
    BY <1>4, <1>13, <1>14
  <2>2. /\ \A p \in ProductsOf(r) : productLock[p] = r
        /\ stock' \in [Products -> 0..MaxStock]
        /\ \A p \in Products : stock'[p] = stock[p] + (-1) * QuantityOf(r, p)
        /\ \A p \in Products \ ProductsOf(r) : stock'[p] = stock[p]
    BY <1>1, <2>1, StockMoves
  <2>3. \A p \in Products : stock[p] \in Int
    BY DEF Shape
  <2>. QED
    BY <1>13, <2>2, <2>3
<1>16. Shape'
  <2>1. cogs' \subseteq CogsEntry /\ IsFiniteSet(cogs')
    <3>1. E \subseteq CogsEntry
      BY <1>8 DEF CogsEntry, Entry
    <3>2. IsFiniteSet(E)
      BY FS_EmptySet, FS_Singleton
    <3> HIDE DEF E
    <3>. QED
      BY <1>3, <3>1, <3>2, FS_Union DEF Shape
  <2>. QED
    BY <1>3, <1>5, <1>6, <1>11, <1>15, <2>1 DEF Shape
<1>17. StockStands(stock', manual, receipts, sales')
  <2>1. ASSUME NEW p \in Products
        PROVE  stock'[p] = manual[p] - ActiveQuantity(sales', p) + Entered(receipts, p)
    <3>1. stock[p] = manual[p] - ActiveQuantity(sales, p) + Entered(receipts, p)
      BY DEF RowsStand, StockStands
    <3>2. /\ manual[p] \in Int /\ ActiveQuantity(sales, p) \in Int /\ Entered(receipts, p) \in Int
      BY TablesAre, EnteringIs DEF Shape
    <3>3. At(qty, p) \in Int
      BY <1>4 DEF At
    <3>. QED
      BY <1>12, <1>15, <3>1, <3>2, <3>3
  <2>. QED
    BY <2>1 DEF StockStands
<1>18. OnlyOf(N, d)
  BY <1>9 DEF OnlyOf
<1>19. CapitalStands(T \cup N, receipts)
  <2>1. ActiveOf(receipts) \subseteq Receipts
    BY DEF ActiveOf
  <2>2. \A l \in Lines :
          CapitalizedIn(T \cup N, ActiveOf(receipts), l) = CapitalizedIn(T, ActiveOf(receipts), l)
    BY <1>18, <2>1, CapitalUntouched
  <2>. QED
    BY <2>2 DEF RowsStand, CapitalStands, T
<1>20. PoolStands(T \cup N, receipts, sales')
  <2>1. PoolIsLive(T, receipts, sales)
    BY DEF RowsStand, PoolStands, PoolIsLive, T
  <2>2. ASSUME NEW p \in Products
        PROVE  Pool(p, T \cup N).quantity >= 0
    <3>1. Table(T) /\ Pool(p, T).quantity >= 0
      BY DEF Shape, RowsStand, PoolStands, T
    <3>2. Pool(p, T).quantity \in Int
      BY <3>1, PoolIs
    <3>3. CASE p \in DOMAIN cost
      <4>1. Pool(p, N).quantity = -qty[p] /\ qty[p] <= Pool(p, T).quantity
        BY <1>2, <3>3, PoolOfSale DEF N, cost, T, qty
      <4>2. Pool(p, T \cup N).quantity = Pool(p, T).quantity + Pool(p, N).quantity
        BY <1>9, <1>11, <3>1, PoolOfBoth
      <4>3. qty[p] \in Int
        BY <1>4, <3>3
      <4>. QED
        BY <3>2, <4>1, <4>2, <4>3
    <3>4. CASE p \notin DOMAIN cost
      <4>1. \A row \in N : row.product # p
        BY <1>9, <3>4
      <4>. QED
        BY <1>9, <1>11, <3>1, <4>1, PoolUntouched
    <3>. QED
      BY <3>3, <3>4
  <2>. QED
    BY <1>11, <2>1, <2>2 DEF PoolStands, PoolIsLive
<1>21. EntriesFit(cogs, sales) /\ \A e \in cogs : e.sale \in Sales
  BY DEF RowsStand, Shape, CogsEntry
<1>22. NotPosted(cogs, d)
  BY <1>3, <1>21 DEF NotPosted, EntriesFit, NoDocument
<1>23. EntriesFit(cogs \cup E, sales')
  <2>1. \A e \in cogs : sales'[e.sale] = sales[e.sale]
    BY <1>5, <1>21, <1>22 DEF NotPosted
  <2>2. \A e \in E : sales'[e.sale].status = "ACTIVE" /\ e.event = "ORIGINAL"
    BY <1>5 DEF Entry
  <2> HIDE DEF E
  <2>. QED
    BY <1>21, <2>1, <2>2 DEF EntriesFit
<1>24. CogsStands(T \cup N, cogs \cup E)
  <2>1. OnlyFor(E, d)
    BY DEF OnlyFor, Entry
  <2>2. ASSUME NEW x \in Sales, x # d
        PROVE  ConsumedIn(T \cup N, x) = PostedIn(cogs \cup E, x)
    <3> HIDE DEF E
    <3>1. ConsumedIn(T \cup N, x) = ConsumedIn(T, x)
      BY <1>18, <2>2, OthersConsume
    <3>2. PostedIn(cogs \cup E, x) = PostedIn(cogs, x)
      BY <2>1, <2>2, OthersPost
    <3>. QED
      BY <3>1, <3>2 DEF RowsStand, CogsStands, T
  <2>3. ConsumedIn(T \cup N, d) = amount
    <3>1. RowsOf(T \cup N, d) = N
      BY <1>9, <1>11 DEF RowsOf
    <3>. QED
      BY <1>8, <3>1 DEF ConsumedIn
  <2>4. PostedIn(cogs \cup E, d) = amount
    BY <1>8, <1>22, FirstPosted
  <2>. QED
    BY <2>2, <2>3, <2>4 DEF CogsStands
<1> HIDE DEF E
<1>25. RowsStand'
  <2>1. /\ RowsFit(valuations, receipts, sales)' /\ EntriesFit(cogs, sales)'
        /\ StockStands(stock, manual, receipts, sales)'
        /\ ReceivedStands(receipts, invoice)' /\ CapitalStands(valuations, receipts)'
        /\ PoolStands(valuations, receipts, sales)' /\ CogsStands(valuations, cogs)'
    BY <1>3, <1>6, <1>11, <1>17, <1>19, <1>20, <1>23, <1>24 DEF RowsStand
  <2>. QED
    BY <1>16, <2>1 DEF RowsStand
<1>26. KeepsRows(r)
  <2>1. ASSUME NEW o \in Requests \ {r}, NEW p \in Products, productLock[p] = o
        PROVE  /\ stock'[p] = stock[p]
               /\ Pool(p, valuations').quantity = Pool(p, valuations).quantity
               /\ Pool(p, valuations').value = Pool(p, valuations).value
    <3>1. p \notin ProductsOf(r)
      BY <1>15, <2>1
    <3>2. Table(T) /\ \A row \in N : row.product # p
      BY <1>4, <1>9, <1>14, <3>1 DEF Shape, T
    <3>3. /\ Pool(p, T \cup N).quantity = Pool(p, T).quantity
          /\ Pool(p, T \cup N).value = Pool(p, T).value
      BY <1>9, <1>11, <3>2, PoolUntouched
    <3>. QED
      BY <1>3, <1>15, <3>1, <3>3 DEF T
  <2>2. \A l : ActiveQuantity(receipts, l) \in Nat
    BY TablesAre
  <2>3. sales[d].status # "ACTIVE"
    BY <1>3 DEF NoDocument
  <2>. QED
    BY <1>5, <1>6, <2>1, <2>2, <2>3 DEF KeepsRows
<1>. QED
  BY <1>1, <1>25, <1>26, Ending

-----------------------------------------------------------------------------
(* A sale is cancelled *)

LEMMA CommitCancelSaleKeeps ==
  ASSUME IInv, NEW r \in Requests, CommitCancelSale(r)
  PROVE  IInv'
<1>. RowsStand /\ Shape /\ RequestTypes
  BY DEF IInv, RowsStand
<1>1. /\ pc[r] = "unselling" /\ Pending(r) = {} /\ MoveStock(r, 1) /\ EndTransaction(r)
      /\ UNCHANGED <<manual, invoice, receipts>>
  BY DEF CommitCancelSale, Ready
<1>2. CancellingStands(r, sales, Sales)
  BY <1>1 DEF IInv, RequestOK
<1>3. PICK d \in Sales : /\ reqDoc[r] = {d} /\ docLock[d] = r
                         /\ sales[d].status = "ACTIVE" /\ reqQty[r] = sales[d].qty
  BY <1>2 DEF CancellingStands
<1>4. d \notin Receipts /\ d \in Docs
  BY StockValuationAssumption DEF Docs
<1> DEFINE qty == sales[d].qty
           T == valuations
           U == {Reversed(row) : row \in RowsOf(T, d)}
           C == EntriesOf(cogs, d)
           E == {ReversedEntry(e) : e \in C}
<1>5. \A row \in RowsOf(T, d) : row \in Valuation /\ row.event = "ORIGINAL" /\ row.doc = d
  <2>1. \A row \in RowsOf(T, d) : row \in T /\ row \in Valuation /\ row.doc = d
    BY DEF RowsOf, Shape, Table
  <2>2. ASSUME NEW row \in RowsOf(T, d)
        PROVE  row.event = "ORIGINAL"
    <3>1. DocumentIn(receipts, sales, row.doc).status = "ACTIVE"
      BY <1>3, <1>4, <2>1 DEF DocumentIn
    <3>2. row.event \in {"ORIGINAL", "REVERSAL"}
      BY <2>1 DEF Valuation
    <3>. QED
      BY <2>1, <3>1, <3>2 DEF RowsStand, RowsFit
  <2>. QED
    BY <2>1, <2>2
<1>6. Reversals(r, d) = U
  <2>1. {row \in valuations : row.doc = d /\ row.event = "ORIGINAL"} = RowsOf(T, d)
    BY <1>5 DEF RowsOf
  <2>2. Reversals(r, d) = {Row(d, row.item, row.product, "REVERSAL", row.quantity, row.cost)
                             : row \in RowsOf(T, d)}
    BY <2>1 DEF Reversals
  <2>3. \A row \in RowsOf(T, d) :
          Reversed(row) = Row(d, row.item, row.product, "REVERSAL", row.quantity, row.cost)
    BY <1>5 DEF Reversed
  <2>. QED
    BY <2>2, <2>3
<1>7. CogsReversals(d) = E
  <2>1. CogsReversals(d) = {Entry(d, "REVERSAL", e.amount) : e \in C}
    BY DEF CogsReversals, EntriesOf
  <2>2. \A e \in C : ReversedEntry(e) = Entry(d, "REVERSAL", e.amount)
    BY DEF EntriesOf, ReversedEntry
  <2>. QED
    BY <2>1, <2>2
<1>8. /\ sales' = [sales EXCEPT ![d].status = "CANCELLED"]
      /\ valuations' = T \cup U
      /\ cogs' = cogs \cup E
  BY <1>3, <1>6, <1>7 DEF CommitCancelSale
<1>9. DOMAIN qty \subseteq Products /\ \A p \in DOMAIN qty : qty[p] \in Nat \ {0}
  BY TablesAre
<1>10. /\ sales' \in [Sales -> Document(Products, MaxStock) \cup {NoDocument}]
       /\ sales'[d].status = "CANCELLED" /\ sales'[d].qty = sales[d].qty
       /\ Activates(sales, sales', Sales, d)
       /\ \A x \in Sales \ {d} : sales'[x] = sales[x]
       /\ \A x \in Docs \ {d} :
            DocumentIn(receipts, sales', x) = DocumentIn(receipts, sales, x)
  BY <1>3, <1>8, SaleClosed
<1>11. receipts' = receipts /\ invoice' = invoice /\ manual' = manual
  BY <1>1
<1>12. Closes(T, U, receipts, sales, receipts, sales', d)
  BY <1>3, <1>4, <1>10 DEF Closes, DocumentIn, OnlyChanges, RowsStand, Shape
<1>13. /\ C \subseteq cogs /\ C \subseteq CogsEntry /\ IsFiniteSet(C)
       /\ \A e \in C : e.event = "ORIGINAL" /\ e.sale = d
  <2>1. C \subseteq cogs /\ C \subseteq CogsEntry
    BY DEF EntriesOf, Shape
  <2>2. IsFiniteSet(C)
    BY <2>1, FS_Subset DEF Shape
  <2>3. \A e \in C : e.sale = d /\ e.event \in {"ORIGINAL", "REVERSAL"}
    BY <2>1 DEF EntriesOf, CogsEntry
  <2>4. \A e \in C : e.event = "ORIGINAL"
    BY <1>3, <2>1, <2>3 DEF RowsStand, EntriesFit
  <2>. QED
    BY <2>1, <2>2, <2>3, <2>4
<1> HIDE DEF U, T, C
<1>14. /\ E \subseteq CogsEntry /\ IsFiniteSet(E)
       /\ SumFunction(Posted(C \cup E)) = 0
  BY <1>13, EntriesTakenBack
<1>15. /\ ReversalOf(U, RowsOf(T, d)) /\ T \cap U = {} /\ Table(U) /\ Table(T \cup U)
       /\ RowsFit(T \cup U, receipts, sales')
       /\ PoolIsLive(T, receipts, sales) => PoolIsLive(T \cup U, receipts, sales')
  BY <1>12, Closing
<1>16. \A row \in U : /\ row \in Valuation /\ row.doc = d /\ row.event = "REVERSAL"
                      /\ Sign(row) = 1 /\ row.product \in DOMAIN qty
  <2>1. ASSUME NEW row \in RowsOf(T, d)
        PROVE  row.product \in DOMAIN qty
    <3>1. row \in valuations /\ row.doc = d
      BY <2>1 DEF RowsOf, T
    <3>. QED
      BY <1>4, <3>1 DEF RowsStand, RowsFit, DocumentIn, ItemProduct
  <2>2. ASSUME NEW row \in U
        PROVE  /\ row \in Valuation /\ row.doc = d /\ row.event = "REVERSAL"
               /\ row.product \in DOMAIN qty
    <3>1. PICK original \in RowsOf(T, d) : row = Reversed(original)
      BY <2>2 DEF U
    <3>. QED
      BY <1>5, <2>1, <3>1, ReversedIs
  <2>. QED
    BY <1>4, <2>2 DEF Sign
<1>17. \A x : ActiveQuantity(sales, x) = ActiveQuantity(sales', x) + At(qty, x)
  BY <1>10, OneMoreActive
<1>18. \A p \in Products : QuantityOf(r, p) = At(qty, p) /\ QuantityOf(r, p) \in Nat
  <2>1. pc[r] \notin InReceipt /\ \A x \in DOMAIN reqQty[r] : reqQty[r][x] \in Nat
    BY <1>1, <1>3, <1>9 DEF InReceipt
  <2>2. \A p \in Products : QuantityOf(r, p) = At(qty, p)
    BY <1>3, <2>1, MovedIs
  <2>. QED
    BY <1>9, <2>2 DEF At
<1>19. ProductsOf(r) = DOMAIN qty
  BY <1>1, <1>3 DEF ProductsOf, ProductOf, InReceipt
<1> HIDE DEF qty
<1>20. /\ \A p \in ProductsOf(r) : productLock[p] = r
       /\ stock' \in [Products -> 0..MaxStock]
       /\ \A p \in Products : stock'[p] = stock[p] + At(qty, p)
       /\ \A p \in Products \ ProductsOf(r) : stock'[p] = stock[p]
  <2>1. \A p \in ProductsOf(r) : QuantityOf(r, p) \in Int
    BY <1>9, <1>18, <1>19
  <2>2. /\ \A p \in ProductsOf(r) : productLock[p] = r
        /\ stock' \in [Products -> 0..MaxStock]
        /\ \A p \in Products : stock'[p] = stock[p] + 1 * QuantityOf(r, p)
        /\ \A p \in Products \ ProductsOf(r) : stock'[p] = stock[p]
    BY <1>1, <2>1, StockMoves
  <2>. QED
    BY <1>18, <2>2
<1>21. Shape'
  <2>1. cogs' \subseteq CogsEntry /\ IsFiniteSet(cogs')
    <3> HIDE DEF E
    <3>. QED
      BY <1>8, <1>14, FS_Union DEF Shape
  <2>. QED
    BY <1>8, <1>10, <1>11, <1>15, <1>20, <2>1 DEF Shape
<1>22. StockStands(stock', manual, receipts, sales')
  <2>1. ASSUME NEW p \in Products
        PROVE  stock'[p] = manual[p] - ActiveQuantity(sales', p) + Entered(receipts, p)
    <3>1. stock[p] = manual[p] - ActiveQuantity(sales, p) + Entered(receipts, p)
      BY DEF RowsStand, StockStands
    <3>2. manual[p] \in Int /\ Entered(receipts, p) \in Int
      BY TablesAre, EnteringIs DEF Shape
    <3>3. ActiveQuantity(sales', p) \in Int
      BY <1>10, SharesAre DEF Activates
    <3>4. At(qty, p) \in Int
      BY <1>9 DEF At
    <3>. QED
      BY <1>17, <1>20, <3>1, <3>2, <3>3, <3>4
  <2>. QED
    BY <2>1 DEF StockStands
<1>23. OnlyOf(U, d)
  BY <1>16 DEF OnlyOf
<1>24. CapitalStands(T \cup U, receipts)
  <2>1. ActiveOf(receipts) \subseteq Receipts
    BY DEF ActiveOf
  <2>2. \A l \in Lines :
          CapitalizedIn(T \cup U, ActiveOf(receipts), l) = CapitalizedIn(T, ActiveOf(receipts), l)
    BY <1>23, <2>1, CapitalUntouched
  <2>. QED
    BY <2>2 DEF RowsStand, CapitalStands, T
<1>25. PoolStands(T \cup U, receipts, sales')
  <2>1. PoolIsLive(T, receipts, sales)
    BY DEF RowsStand, PoolStands, PoolIsLive, T
  <2>2. ASSUME NEW p \in Products
        PROVE  Pool(p, T \cup U).quantity >= 0
    <3>1. Table(T) /\ Pool(p, T).quantity >= 0
      BY DEF Shape, RowsStand, PoolStands, T
    <3>2. Pool(p, T).quantity \in Int
      BY <3>1, PoolIs
    <3>3. Pool(p, U).quantity \in Nat
      BY <1>15, <1>16, PoolOfEntries
    <3>4. Pool(p, T \cup U).quantity = Pool(p, T).quantity + Pool(p, U).quantity
      BY <1>15, <3>1, PoolOfBoth
    <3>. QED
      BY <3>1, <3>2, <3>3, <3>4
  <2>. QED
    BY <1>15, <2>1, <2>2 DEF PoolStands, PoolIsLive
<1>26. \A e \in E : e.sale = d /\ e.event = "REVERSAL"
  BY <1>13 DEF ReversedEntry, Entry
<1> HIDE DEF E
<1>27. EntriesFit(cogs \cup E, sales')
  <2>1. ASSUME NEW e \in cogs
        PROVE  sales'[e.sale].status \in
                 IF e.event = "ORIGINAL" THEN {"ACTIVE", "CANCELLED"} ELSE {"CANCELLED"}
    <3>1. e.sale \in Sales
      BY DEF Shape, CogsEntry
    <3>2. sales[e.sale].status \in
            IF e.event = "ORIGINAL" THEN {"ACTIVE", "CANCELLED"} ELSE {"CANCELLED"}
      BY DEF RowsStand, EntriesFit
    <3>. QED
      BY <1>10, <3>1, <3>2
  <2>. QED
    BY <1>10, <1>26, <2>1 DEF EntriesFit
<1>28. CogsStands(T \cup U, cogs \cup E)
  <2>1. OnlyFor(E, d)
    BY <1>26 DEF OnlyFor
  <2>2. ASSUME NEW x \in Sales, x # d
        PROVE  ConsumedIn(T \cup U, x) = PostedIn(cogs \cup E, x)
    <3>1. ConsumedIn(T \cup U, x) = ConsumedIn(T, x)
      BY <1>23, <2>2, OthersConsume
    <3>2. PostedIn(cogs \cup E, x) = PostedIn(cogs, x)
      BY <2>1, <2>2, OthersPost
    <3>. QED
      BY <3>1, <3>2 DEF RowsStand, CogsStands, T
  <2>3. ConsumedIn(T \cup U, d) = 0
    <3>1. RowsOf(T \cup U, d) = RowsOf(T, d) \cup U
      BY <1>16 DEF RowsOf
    <3>2. SumFunction(Taken(RowsOf(T, d) \cup U)) = 0
      BY <1>15, ConsumptionTakenBack
    <3>. QED
      BY <3>1, <3>2 DEF ConsumedIn
  <2>4. PostedIn(cogs \cup E, d) = 0
    <3>1. EntriesOf(cogs \cup E, d) = C \cup E
      BY <1>26 DEF EntriesOf, C
    <3>. QED
      BY <1>14, <3>1 DEF PostedIn
  <2>. QED
    BY <2>2, <2>3, <2>4 DEF CogsStands
<1>29. RowsStand'
  <2>1. /\ RowsFit(valuations, receipts, sales)' /\ EntriesFit(cogs, sales)'
        /\ StockStands(stock, manual, receipts, sales)'
        /\ ReceivedStands(receipts, invoice)' /\ CapitalStands(valuations, receipts)'
        /\ PoolStands(valuations, receipts, sales)' /\ CogsStands(valuations, cogs)'
    BY <1>8, <1>11, <1>15, <1>22, <1>24, <1>25, <1>27, <1>28 DEF RowsStand
  <2>. QED
    BY <1>21, <2>1 DEF RowsStand
<1>30. KeepsRows(r)
  <2>1. ASSUME NEW o \in Requests \ {r}, NEW p \in Products, productLock[p] = o
        PROVE  /\ stock'[p] = stock[p]
               /\ Pool(p, valuations').quantity = Pool(p, valuations).quantity
               /\ Pool(p, valuations').value = Pool(p, valuations).value
    <3>1. p \notin ProductsOf(r)
      BY <1>20, <2>1
    <3>2. Table(T) /\ \A row \in U : row.product # p
      BY <1>16, <1>19, <3>1 DEF Shape, T
    <3>3. /\ Pool(p, T \cup U).quantity = Pool(p, T).quantity
          /\ Pool(p, T \cup U).value = Pool(p, T).value
      BY <1>15, <3>2, PoolUntouched
    <3>. QED
      BY <1>8, <1>20, <3>1, <3>3 DEF T
  <2>2. \A l : ActiveQuantity(receipts, l) \in Nat
    BY TablesAre
  <2>3. \A o \in Requests \ {r} : docLock[d] # o
    BY <1>3
  <2>. QED
    BY <1>10, <1>11, <2>1, <2>2, <2>3 DEF KeepsRows
<1>. QED
  BY <1>1, <1>29, <1>30, Ending

-----------------------------------------------------------------------------
(* Manual movements, and the cancellation of the invoice *)

LEMMA MoveManuallyKeeps ==
  ASSUME IInv, NEW p \in Products, NEW n \in {-1, 1}, MoveManually(p, n)
  PROVE  IInv'
<1>. RowsStand /\ Shape
  BY DEF IInv, RowsStand
<1>1. /\ productLock[p] = NoRequest
      /\ stock[p] + n \in 0..MaxStock
      /\ manual[p] + n \in -MaxManual[p]..MaxManual[p]
      /\ stock' = [stock EXCEPT ![p] = @ + n]
      /\ manual' = [manual EXCEPT ![p] = @ + n]
      /\ UNCHANGED <<invoice, receipts, sales, valuations, cogs>>
      /\ UNCHANGED <<locks, reqs>>
  BY DEF MoveManually
<1>2. /\ \A q \in Products : stock'[q] = IF q = p THEN stock[p] + n ELSE stock[q]
      /\ \A q \in Products : manual'[q] = IF q = p THEN manual[p] + n ELSE manual[q]
      /\ stock' \in [Products -> 0..MaxStock]
      /\ manual' \in [Products -> Int]
  BY <1>1 DEF Shape
<1>3. Shape'
  BY <1>1, <1>2 DEF Shape
<1>4. StockStands(stock', manual', receipts, sales)
  <2>1. ASSUME NEW q \in Products
        PROVE  stock'[q] = manual'[q] - ActiveQuantity(sales, q) + Entered(receipts, q)
    <3>1. stock[q] = manual[q] - ActiveQuantity(sales, q) + Entered(receipts, q)
      BY DEF RowsStand, StockStands
    <3>2. /\ manual[q] \in Int /\ ActiveQuantity(sales, q) \in Int /\ Entered(receipts, q) \in Int
      BY TablesAre, EnteringIs DEF Shape
    <3>. QED
      BY <1>2, <3>1, <3>2
  <2>. QED
    BY <2>1 DEF StockStands
<1>5. RowsStand'
  <2>1. StockStands(stock, manual, receipts, sales)'
    BY <1>1, <1>4
  <2>. QED
    BY <1>1, <1>3, <2>1 DEF RowsStand
<1>6. KeepsRows(NoRequest)
  <2>1. \A l : ActiveQuantity(receipts, l) \in Nat
    BY TablesAre
  <2>2. \A o \in Requests \ {NoRequest}, q \in Products : productLock[q] = o => stock'[q] = stock[q]
    BY <1>1, <1>2
  <2>. QED
    BY <1>1, <2>1, <2>2 DEF KeepsRows
<1>. QED
  BY <1>1, <1>5, <1>6, Aside

LEMMA CancelInvoiceKeeps ==
  ASSUME IInv, CancelInvoice
  PROVE  IInv'
<1>. RowsStand /\ Shape
  BY DEF IInv, RowsStand
<1>1. /\ invoiceLock = NoRequest /\ ActiveReceipts = {} /\ invoice' = "CANCELLED"
      /\ UNCHANGED <<stock, manual, receipts, sales, valuations, cogs>>
      /\ UNCHANGED <<locks, reqs>>
  BY DEF CancelInvoice
<1>2. Shape'
  BY <1>1 DEF Shape
<1>3. ASSUME NEW l \in Lines
      PROVE  ActiveQuantity(receipts, l) = 0
  <2>1. /\ Share(receipts, l) \in [Receipts -> Int]
        /\ ActiveQuantity(receipts, l) = SumFunction(Share(receipts, l))
    BY TablesAre, SharesAre
  <2>2. \A d \in Receipts : Share(receipts, l)[d] = 0
    BY <1>1 DEF Share, ActiveReceipts, Shape
  <2>. QED
    BY <2>1, <2>2, SumZero, StockValuationAssumption
<1>4. ReceivedStands(receipts, invoice')
  BY <1>1, <1>3 DEF ReceivedStands
<1>5. RowsStand'
  <2>1. ReceivedStands(receipts, invoice)'
    BY <1>1, <1>4
  <2>. QED
    BY <1>1, <1>2, <2>1 DEF RowsStand
<1>6. KeepsRows(NoRequest)
  BY <1>1 DEF KeepsRows
<1>. QED
  BY <1>1, <1>5, <1>6, Aside

-----------------------------------------------------------------------------
(* The theorems *)

\* Documents that are not there say nothing.
LEMMA NothingActive ==
  ASSUME NEW ids, IsFiniteSet(ids), NEW x
  PROVE  ActiveQuantity([d \in ids |-> NoDocument], x) = 0
<1> DEFINE docs == [d \in ids |-> NoDocument]
           f == Share(docs, x)
<1>1. f \in [ids -> Int] /\ \A d \in ids : f[d] = 0
  BY DEF Share, NoDocument
<1>2. ActiveQuantity(docs, x) = SumFunction(f)
  BY DEF ActiveQuantity, Share
<1> HIDE DEF f
<1>3. SumFunction(f) = 0
  BY <1>1, SumZero
<1>. QED
  BY <1>2, <1>3

LEMMA NothingEntered ==
  ASSUME NEW p
  PROVE  Entered([d \in Receipts |-> NoDocument], p) = 0
<1> DEFINE f == Entering([d \in Receipts |-> NoDocument], p)
<1>1. IsFiniteSet(LinesOf(p))
  BY FS_Subset, StockValuationAssumption DEF LinesOf
<1>2. f \in [LinesOf(p) -> Int] /\ \A l \in LinesOf(p) : f[l] = 0
  BY NothingActive, StockValuationAssumption DEF Entering
<1> HIDE DEF f
<1>3. SumFunction(f) = 0
  BY <1>1, <1>2, SumZero
<1>. QED
  BY <1>3 DEF Entered, f

LEMMA InitIInv == Init => IInv
<1> SUFFICES ASSUME Init
             PROVE  IInv
  OBVIOUS
<1>1. /\ stock = [p \in Products |-> 0] /\ manual = [p \in Products |-> 0]
      /\ invoice = "CONFIRMED"
      /\ receipts = [d \in Receipts |-> NoDocument] /\ sales = [d \in Sales |-> NoDocument]
      /\ valuations = {} /\ cogs = {}
  BY DEF Init
<1>2. Shape
  <2>1. Table({}) /\ IsFiniteSet({})
    BY FS_EmptySet DEF Table
  <2>2. \A p \in Products : 0 \in -MaxManual[p]..MaxManual[p] /\ 0 \in 0..MaxStock
    BY StockValuationAssumption
  <2>. QED
    BY <1>1, <2>1, <2>2 DEF Shape
<1>3. RowsFit(valuations, receipts, sales) /\ EntriesFit(cogs, sales)
  BY <1>1 DEF RowsFit, EntriesFit
<1>4. \A x : ActiveQuantity(receipts, x) = 0 /\ ActiveQuantity(sales, x) = 0
  BY <1>1, NothingActive, StockValuationAssumption
<1>5. StockStands(stock, manual, receipts, sales)
  <2>1. \A p \in Products : Entered(receipts, p) = 0
    BY <1>1, NothingEntered
  <2>. QED
    BY <1>1, <1>4, <2>1 DEF StockStands
<1>6. ReceivedStands(receipts, invoice)
  BY <1>1, <1>4, StockValuationAssumption DEF ReceivedStands
<1>7. CapitalStands(valuations, receipts)
  <2>1. \A l \in Lines : CapitalizedIn(valuations, ActiveOf(receipts), l) = 0
    <3>1. TAKE l \in Lines
    <3>2. DOMAIN Costs(CapitalizedRows(valuations, ActiveOf(receipts), l)) = {}
      BY <1>1 DEF Costs, CapitalizedRows
    <3>. QED
      BY <3>2, SumNothing DEF CapitalizedIn
  <2>. QED
    BY <1>4, <2>1, StockValuationAssumption DEF CapitalStands
<1>8. PoolStands(valuations, receipts, sales)
  <2>1. LiveRows(valuations, receipts, sales) = valuations
    BY <1>1 DEF LiveRows
  <2>2. \A p : Pool(p, valuations).quantity = 0
    <3>1. TAKE p
    <3>2. DOMAIN Units(p, valuations) = {}
      BY <1>1 DEF Units, OfProduct
    <3>3. SumFunction(Units(p, valuations)) = 0
      BY <3>2, SumNothing
    <3>. QED
      BY <1>2, <3>3, PoolIs DEF Shape
  <2>. QED
    BY <2>1, <2>2 DEF PoolStands
<1>9. CogsStands(valuations, cogs)
  <2>1. ASSUME NEW d \in Sales
        PROVE  ConsumedIn(valuations, d) = PostedIn(cogs, d)
    <3>1. DOMAIN Taken(RowsOf(valuations, d)) = {} /\ DOMAIN Posted(EntriesOf(cogs, d)) = {}
      BY <1>1 DEF Taken, RowsOf, Posted, EntriesOf
    <3>. QED
      BY <3>1, SumNothing DEF ConsumedIn, PostedIn
  <2>. QED
    BY <2>1 DEF CogsStands
<1>10. RowsStand
  BY <1>2, <1>3, <1>5, <1>6, <1>7, <1>8, <1>9 DEF RowsStand
<1>11. RequestTypes
  BY PlaceIsIn DEF Init, RequestTypes
<1>12. ASSUME NEW r \in Requests
       PROVE  RequestOK(r)
  <2>1. pc[r] = "idle" /\ reqSeen[r] = None /\ reqQty[r] = None
    BY DEF Init
  <2>2. SeenStands(r)
    BY <2>1 DEF SeenStands, None
  <2>. QED
    BY <2>1, <2>2 DEF RequestOK
<1>. QED
  BY <1>10, <1>11, <1>12 DEF IInv

LEMMA NextIInv == IInv /\ [Next]_vars => IInv'
<1> SUFFICES ASSUME IInv, [Next]_vars
             PROVE  IInv'
  OBVIOUS
<1>1. CASE \E p \in Products, n \in {-1, 1} : MoveManually(p, n)
  BY <1>1, MoveManuallyKeeps
<1>2. CASE CancelInvoice
  BY <1>2, CancelInvoiceKeeps
<1>3. ASSUME NEW r \in Requests,
             \/ \E d \in Receipts, qty \in Quantities(Lines, MaxLine) : BeginReceipt(r, d, qty)
             \/ \E d \in Receipts : BeginCancelReceipt(r, d)
             \/ \E d \in Sales, qty \in Quantities(Products, MaxStock) : BeginSale(r, d, qty)
             \/ \E d \in Sales : BeginCancelSale(r, d)
             \/ \E p \in Products : LockProduct(r, p)
             \/ CommitReceipt(r)
             \/ CommitCancelReceipt(r)
             \/ CommitSale(r)
             \/ CommitCancelSale(r)
             \/ RollBack(r)
      PROVE  IInv'
  <2>1. CASE \E d \in Receipts, qty \in Quantities(Lines, MaxLine) : BeginReceipt(r, d, qty)
    BY <2>1, BeginReceiptKeeps
  <2>2. CASE \E d \in Receipts : BeginCancelReceipt(r, d)
    BY <2>2, BeginCancelReceiptKeeps
  <2>3. CASE \E d \in Sales, qty \in Quantities(Products, MaxStock) : BeginSale(r, d, qty)
    BY <2>3, BeginSaleKeeps
  <2>4. CASE \E d \in Sales : BeginCancelSale(r, d)
    BY <2>4, BeginCancelSaleKeeps
  <2>5. CASE \E p \in Products : LockProduct(r, p)
    BY <2>5, LockProductKeeps
  <2>6. CASE CommitReceipt(r)
    BY <2>6, CommitReceiptKeeps
  <2>7. CASE CommitCancelReceipt(r)
    BY <2>7, CommitCancelReceiptKeeps
  <2>8. CASE CommitSale(r)
    BY <2>8, CommitSaleKeeps
  <2>9. CASE CommitCancelSale(r)
    BY <2>9, CommitCancelSaleKeeps
  <2>10. CASE RollBack(r)
    BY <2>10, RollBackKeeps
  <2>. QED
    BY <1>3, <2>1, <2>2, <2>3, <2>4, <2>5, <2>6, <2>7, <2>8, <2>9, <2>10
<1>4. CASE UNCHANGED vars
  <2>1. RowsKept /\ UNCHANGED <<locks, reqs>>
    BY <1>4 DEF vars, rows, RowsKept
  <2>. QED
    BY <2>1, Kept, Aside
<1>. QED
  BY <1>1, <1>2, <1>3, <1>4 DEF Next

\* The inductive invariant holds of every state the program reaches.
THEOREM InvariantHolds == Spec => []IInv
<1>1. Init => IInv
  BY InitIInv
<1>2. IInv /\ [Next]_vars => IInv'
  BY NextIInv
<1>. QED
  BY <1>1, <1>2, PTL DEF Spec

\* Rows, locks and requests always have the shape of TypeOK; in particular no
\* stock is ever negative or above its maximum.
THEOREM TypeCorrect == Spec => []TypeOK
<1>1. IInv => TypeOK
  <2> SUFFICES ASSUME IInv
               PROVE  TypeOK
    OBVIOUS
  <2>1. \A row \in valuations :
          /\ row.doc \in Docs /\ row.product \in Valued
          /\ row.event \in {"ORIGINAL", "REVERSAL"}
          /\ row.quantity \in Nat \ {0} /\ row.cost \in Nat
    BY DEF IInv, RowsStand, Shape, Table, Valuation, RowsFit
  <2>2. \A e \in cogs : e.sale \in Sales /\ e.amount \in Nat \ {0}
    BY DEF IInv, RowsStand, Shape, CogsEntry
  <2>3. Places = {"idle"} \cup InReceipt \cup InSale
    BY DEF Places, InReceipt, InSale
  <2>. QED
    BY <2>1, <2>2, <2>3 DEF IInv, RowsStand, Shape, RequestTypes, TypeOK
<1>. QED
  BY <1>1, InvariantHolds, PTL

\* Stock is what active documents and manual movements say, and no more is
\* received of a line than the invoice says, whatever runs at the same time.
THEOREM StockAgrees == Spec => []StockMatchesDocuments
<1>1. IInv => StockMatchesDocuments
  BY StockProperty DEF IInv
<1>. QED
  BY <1>1, InvariantHolds, PTL

\* A line is never capitalized beyond its amount, and to the cent when it is
\* received whole, over any partial receipts and cancellations.
THEOREM LinesCapitalized == Spec => []LineCapitalizedExactly
<1>1. IInv => LineCapitalizedExactly
  BY CapitalProperty DEF IInv
<1>. QED
  BY <1>1, InvariantHolds, PTL

\* Pools are what active documents brought in and took out, and the ledger's
\* cost of goods sold is what sales took from them.
THEOREM ValuationAgrees == Spec => []ValuationMatchesDocuments
<1>1. IInv => ValuationMatchesDocuments
  BY ValuationProperty DEF IInv
<1>. QED
  BY <1>1, InvariantHolds, PTL

-----------------------------------------------------------------------------
(* The last unit *)

LEMMA SaleEmptiesValue ==
  ASSUME IInv, NEW r \in Requests, CommitSale(r)
  PROVE  EmptiesValue
<1>1. PICK d \in Sales :
        /\ SaleWritten(r, d)
        /\ Sells(SaleRows(r, d), d, reqQty[r], SaleCost(r))
        /\ \A p \in DOMAIN SaleCost(r) :
             reqQty[r][p] = Pool(p, valuations).quantity
               => SaleCost(r)[p] = Pool(p, valuations).value
  BY SaleCommits
<1> DEFINE N == SaleRows(r, d)
           T == valuations
           qty == reqQty[r]
           cost == SaleCost(r)
<1>2. valuations' = T \cup N /\ sales[d] = NoDocument
  BY <1>1 DEF SaleWritten
<1>3. Table(T) /\ RowsFit(T, receipts, sales)
  BY DEF IInv, RowsStand, Shape
<1> HIDE DEF N, T, qty, cost
<1>4. Table(N) /\ \A row \in N : row.doc = d /\ row.product \in DOMAIN cost
  BY <1>1, SaleRowIs DEF N, cost
<1>5. T \cap N = {}
  <2>1. \A row \in T : row.doc # d
    BY <1>2, <1>3, StockValuationAssumption DEF RowsFit, DocumentIn, NoDocument
  <2>. QED
    BY <1>4, <2>1
<1>6. ASSUME NEW p \in DOMAIN cost, Pool(p, T \cup N).quantity = 0
      PROVE  Pool(p, T \cup N).value = 0
  <2>1. /\ Pool(p, T \cup N).quantity = Pool(p, T).quantity + Pool(p, N).quantity
        /\ Pool(p, T \cup N).value = Pool(p, T).value + Pool(p, N).value
    BY <1>3, <1>4, <1>5, PoolOfBoth
  <2>2. Pool(p, N).quantity = -qty[p] /\ Pool(p, N).value = -cost[p]
    BY <1>1, PoolOfSale DEF N, qty, cost
  <2>3. Pool(p, T).quantity \in Int /\ Pool(p, T).value \in Int
    BY <1>3, PoolIs
  <2>4. qty[p] \in Int /\ cost[p] \in Int
    BY <1>1, SaleRowIs DEF qty, cost
  <2>5. qty[p] = Pool(p, T).quantity
    BY <1>6, <2>1, <2>2, <2>3, <2>4
  <2>6. cost[p] = Pool(p, T).value
    BY <1>1, <2>5 DEF qty, cost, T
  <2>. QED
    BY <2>1, <2>2, <2>3, <2>4, <2>6
<1>7. ASSUME NEW row \in valuations' \ valuations,
             Pool(row.product, valuations').quantity = 0
      PROVE  Pool(row.product, valuations').value = 0
  <2>1. row \in N
    BY <1>2, <1>7 DEF T
  <2>2. row.product \in DOMAIN cost
    BY <1>4, <2>1
  <2>. QED
    BY <1>2, <1>6, <1>7, <2>2
<1>. QED
  BY <1>7 DEF EmptiesValue

\* No other step writes an original of a sale.
LEMMA OthersEmptyNothing ==
  ASSUME NEW W, valuations' = valuations \cup W,
         \A row \in W : ~(row.doc \in Sales /\ row.event = "ORIGINAL")
  PROVE  EmptiesValue
BY DEF EmptiesValue

LEMMA StepEmptiesValue ==
  ASSUME IInv, [Next]_vars
  PROVE  [EmptiesValue]_vars
<1>1. ASSUME valuations' = valuations
      PROVE  EmptiesValue
  BY <1>1 DEF EmptiesValue
<1>2. ASSUME NEW r \in Requests, CommitReceipt(r)
      PROVE  EmptiesValue
  <2>1. pc[r] = "receiving"
    BY <1>2 DEF CommitReceipt, Ready
  <2>2. PICK d \in Receipts : reqDoc[r] = {d}
    BY <2>1 DEF IInv, RequestOK, ReceivingStands
  <2> DEFINE cost == [l \in DOMAIN reqQty[r] |-> ReceiptCost(l, reqPrior[r][l], reqQty[r][l])]
             capitalized == {l \in DOMAIN reqQty[r] : LineProduct[l] \in Valued /\ cost[l] > 0}
             W == {Row(d, l, LineProduct[l], "ORIGINAL", reqQty[r][l], cost[l]) : l \in capitalized}
  <2>3. valuations' = valuations \cup W
    BY <1>2, <2>2 DEF CommitReceipt
  <2> HIDE DEF cost, capitalized
  <2>4. \A row \in W : row.doc = d
    BY DEF Row
  <2>5. d \notin Sales
    BY <2>2, StockValuationAssumption
  <2> HIDE DEF W
  <2>. QED
    BY <2>3, <2>4, <2>5, OthersEmptyNothing
<1>3. ASSUME NEW r \in Requests, NEW d, valuations' = valuations \cup Reversals(r, d)
      PROVE  EmptiesValue
  <2>1. \A row \in Reversals(r, d) : row.event = "REVERSAL"
    BY DEF Reversals, Row
  <2>. QED
    BY <1>3, <2>1, OthersEmptyNothing
<1>4. ASSUME NEW r \in Requests, CommitCancelReceipt(r) \/ CommitCancelSale(r)
      PROVE  EmptiesValue
  BY <1>3, <1>4 DEF CommitCancelReceipt, CommitCancelSale
<1>5. CASE \E p \in Products, n \in {-1, 1} : MoveManually(p, n)
  BY <1>1, <1>5 DEF MoveManually
<1>6. CASE CancelInvoice
  BY <1>1, <1>6 DEF CancelInvoice
<1>7. ASSUME NEW r \in Requests,
             \/ \E d \in Receipts, qty \in Quantities(Lines, MaxLine) : BeginReceipt(r, d, qty)
             \/ \E d \in Receipts : BeginCancelReceipt(r, d)
             \/ \E d \in Sales, qty \in Quantities(Products, MaxStock) : BeginSale(r, d, qty)
             \/ \E d \in Sales : BeginCancelSale(r, d)
             \/ \E p \in Products : LockProduct(r, p)
             \/ RollBack(r)
      PROVE  EmptiesValue
  BY <1>1, <1>7 DEF BeginReceipt, BeginCancelReceipt, BeginSale, BeginCancelSale, LockProduct,
                    RollBack, rows
<1>8. CASE UNCHANGED vars
  BY <1>8
<1>. QED
  BY <1>2, <1>4, <1>5, <1>6, <1>7, <1>8, SaleEmptiesValue DEF Next

\* A sale that takes the last valued unit of a product takes its last cent too:
\* no value is left in the pool of a product that has no units.
THEOREM Depletion == Spec => DepletionTakesAllValue
<1>1. IInv /\ [Next]_vars => [EmptiesValue]_vars
  BY StepEmptiesValue
<1>. QED
  BY <1>1, InvariantHolds, PTL DEF Spec, DepletionTakesAllValue
=============================================================================
