------------------------------- MODULE Catalog -------------------------------
(***************************************************************************)
(* The catalog: a tree of categories (CategoriesService), units of measure *)
(* (UnitsService) and products (ProductsService), each kept alive by those *)
(* that depend on it, and what each role may see of it.                    *)
(***************************************************************************)
EXTENDS Records

CONSTANTS
  MaxStock,         \* bound on stocks and minimum stocks
  PatchedTogether   \* the sets of columns that an update of a product gives

ASSUME CatalogAssumption ==
  /\ IsFiniteSet(Categories)
  /\ MaxStock \in Nat
  /\ \A S \in PatchedTogether : S # {} /\ S \subseteq {"type", "tracked", "minimum", "category", "unit"}

Parents == Categories \cup {NoRecord}
Children(c) == {d \in Categories : Exists(d) /\ rows[d].parent = c}
ProductsOf(column, i) == {p \in Products : Exists(p) /\ rows[p][column] = i}

\* The categories met on the way up from c, c included.
Above(c) ==
  LET walk[n \in Nat] ==
        IF n = 0 THEN {c}
        ELSE walk[n - 1] \cup {rows[d].parent : d \in walk[n - 1] \ {NoRecord}}
  IN  walk[Cardinality(Categories)] \ {NoRecord}

ReachesRoot(c) == \E d \in Above(c) : rows[d].parent = NoRecord

-----------------------------------------------------------------------------
(* CategoriesService *)

\* assertParentUsable
UsableParent(p) == p # NoRecord => Active(p)

CreateCategory(u, c, p) ==
  /\ UsableParent(p)
  /\ Insert(u, c, [status |-> "ACTIVE", parent |-> p])

\* Mutated form: a descendant is accepted as the parent.
MayMoveUnder(c, p) == p # c /\ UsableParent(p)

\* assertParentUsable and assertNoCycle, which also refuses a cycle of others;
\* becoming a root is always allowed.
MayMove(c, p) ==
  p # NoRecord => UsableParent(p) /\ c \notin Above(p) /\ ReachesRoot(p)

UpdateCategory(u, c, p) ==
  /\ Exists(c)
  /\ MayMove(c, p)
  /\ Decide(u, c, [parent |-> p])

ActivateCategory(u, c) ==
  /\ Exists(c) /\ UsableParent(rows[c].parent)
  /\ Switch(u, c, "INACTIVE", "ACTIVE")

DeactivateCategory(u, c) ==
  /\ \A d \in Children(c) \cup ProductsOf("category", c) : ~Active(d)
  /\ Switch(u, c, "ACTIVE", "INACTIVE")

-----------------------------------------------------------------------------
(* UnitsService *)

CreateUnit(u, n, decimal) == Insert(u, n, [status |-> "ACTIVE", decimal |-> decimal])

UpdateUnit(u, n, decimal) == Exists(n) /\ Decide(u, n, [decimal |-> decimal])

ActivateUnit(u, n) == Switch(u, n, "INACTIVE", "ACTIVE")

DeactivateUnit(u, n) ==
  /\ \A p \in ProductsOf("unit", n) : ~Active(p)
  /\ Switch(u, n, "ACTIVE", "INACTIVE")

-----------------------------------------------------------------------------
(* ProductsService *)

\* assertServiceRules
KindFits(row) == row.type = "SERVICE" => ~row.tracked /\ row.minimum = 0

\* assertCategoryUsable and assertUnitUsable
Usable(row) == Active(row.category) /\ Active(row.unit)

Kinds  == [type : {"PRODUCT", "SERVICE"}, tracked : BOOLEAN, minimum : 0..MaxStock]
Places == [category : Categories, unit : Units]
Patches == {[c \in S |-> row[c]] : S \in PatchedTogether,
                                   row \in {Written(kind, place) : kind \in Kinds, place \in Places}}

\* The minimum of a request without one, 3 or 0 units, is among those of Kinds.
CreateProduct(u, p, kind, place) ==
  /\ KindFits(kind) /\ Usable(place)
  /\ Insert(u, p, Written([status |-> "ACTIVE", stock |-> 0], Written(kind, place)))

\* assertCategoryUsable and assertUnitUsable, of the columns that are given
PlaceFits(patch) ==
  /\ "category" \in DOMAIN patch => Active(patch.category)
  /\ "unit" \in DOMAIN patch => Active(patch.unit)

\* The rules are those of the row as it will be.
UpdateProduct(u, p, patch) ==
  /\ Exists(p)
  /\ PlaceFits(patch)
  /\ KindFits(Written(patch, rows[p]))
  /\ Decide(u, p, patch)

ActivateProduct(u, p) ==
  /\ Exists(p) /\ Usable(rows[p]) /\ KindFits(rows[p])
  /\ Switch(u, p, "INACTIVE", "ACTIVE")

DeactivateProduct(u, p) == Switch(u, p, "ACTIVE", "INACTIVE")

CatalogStep(u) ==
  \/ \E i \in Categories \cup Units \cup Products : UpdateText(u, i)
  \/ \E c \in Categories :
       \/ \E p \in Parents : CreateCategory(u, c, p) \/ UpdateCategory(u, c, p)
       \/ ActivateCategory(u, c) \/ DeactivateCategory(u, c)
  \/ \E n \in Units :
       \/ \E decimal \in BOOLEAN : CreateUnit(u, n, decimal) \/ UpdateUnit(u, n, decimal)
       \/ ActivateUnit(u, n) \/ DeactivateUnit(u, n)
  \/ \E p \in Products :
       \/ \E kind \in Kinds, place \in Places : CreateProduct(u, p, kind, place)
       \/ \E patch \in Patches : UpdateProduct(u, p, patch)
       \/ ActivateProduct(u, p) \/ DeactivateProduct(u, p)

-----------------------------------------------------------------------------
(* Properties *)

\* Whatever one administrator does, and in whatever order: going up from a
\* category ends at a root; what is in use stands on what is in use (a category
\* on its parent, a product on its category and its unit); and a service is
\* never tracked and has no minimum stock.
CatalogStands ==
  /\ \A c \in Categories : Exists(c) =>
       /\ ReachesRoot(c)
       /\ Active(c) => UsableParent(rows[c].parent)
  /\ \A p \in Products : Exists(p) =>
       /\ Active(p) => Usable(rows[p])
       /\ KindFits(rows[p])

=============================================================================
