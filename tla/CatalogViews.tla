---------------------------- MODULE CatalogViews ----------------------------
(***************************************************************************)
(* What each role is shown of the rows: the lists, the pages of one row    *)
(* and the files of images.  Lists are filtered in the database, pages     *)
(* after they are read, and the list of products with little stock by a    *)
(* query of its own.                                                       *)
(***************************************************************************)
EXTENDS Catalog, Parties, ProductImages

CONSTANT NoFilter     \* a filter that is not given

Roles == {"ADMIN", "MANAGEMENT", "SELLER", "WAREHOUSE", "ACCOUNTANT"}
Statuses == {"ACTIVE", "INACTIVE", "BLOCKED"}

ASSUME ViewsAssumption == NoFilter \notin Statuses

Matches(value, filter) == filter \in {NoFilter, value}

-----------------------------------------------------------------------------
(* Categories, units and products: sellers see those that are active. *)

\* The filter on the status, which sellers do not choose.
StatusFilter(role, status) == IF role = "SELLER" THEN "ACTIVE" ELSE status

Listed(role, status, table) ==
  {i \in table : Exists(i) /\ Matches(rows[i].status, StatusFilter(role, status))}

Found(role, i) == Exists(i) /\ (role = "SELLER" => Active(i))

ProductQueries == [status : {"ACTIVE", "INACTIVE", NoFilter}, category : Categories \cup {NoFilter}]

ListedProducts(role, query) ==
  {p \in Listed(role, query.status, Products) : Matches(rows[p].category, query.category)}

LittleStock(p) == rows[p].stock <= rows[p].minimum

\* Mutated form: the query of its own shows sellers every status they ask for.
LowStockForAll(role, query) ==
  {p \in Products :
     /\ Exists(p) /\ rows[p].tracked /\ LittleStock(p)
     /\ Matches(rows[p].status, query.status)
     /\ Matches(rows[p].category, query.category)}

\* lowStockOnly: the conditions of the raw query
LowStockProducts(role, query) ==
  {p \in Products :
     /\ Exists(p) /\ rows[p].tracked /\ LittleStock(p)
     /\ IF role = "SELLER" THEN Active(p) ELSE Matches(rows[p].status, query.status)
     /\ Matches(rows[p].category, query.category)}

\* openImageFile
OpensImage(role, i, p) == Found(role, p) /\ Opens(i, p)

-----------------------------------------------------------------------------
(* Customers, suppliers and payment methods *)

VisibleStatuses(role) ==
  CASE role \in {"ADMIN", "MANAGEMENT"} -> Statuses
    [] role = "SELLER" -> {"ACTIVE", "BLOCKED"}
    [] OTHER -> {}

\* A status that the role does not see gives an empty list, not an error.
ListedCustomers(role, status) ==
  {c \in Customers :
     /\ Exists(c)
     /\ status \in VisibleStatuses(role) \cup {NoFilter}
     /\ Matches(rows[c].status, status)
     /\ rows[c].status \in VisibleStatuses(role)}

FoundCustomer(role, c) == Exists(c) /\ rows[c].status \in VisibleStatuses(role)

SupplierReaders == {"ADMIN", "MANAGEMENT", "ACCOUNTANT"}

ListedSuppliers(role, status) ==
  {s \in Suppliers : role \in SupplierReaders /\ Exists(s) /\ Matches(rows[s].status, status)}

FoundSupplier(role, s) == role \in SupplierReaders /\ Exists(s)

MethodReaders == {"ADMIN", "MANAGEMENT", "SELLER"}

\* Those that are inactive are for the administrator alone, and for payments
\* (PaymentMethodReader), which take none of them.
ListedMethods(role, inactive) ==
  {m \in Methods :
     /\ role \in MethodReaders
     /\ inactive => role = "ADMIN"
     /\ Exists(m) /\ (inactive \/ Active(m))}

-----------------------------------------------------------------------------
(* Properties *)

\* What a role can open is what it can list, over all the filters, so that a
\* row hidden from a list is hidden everywhere, with its images; the query for
\* little stock shows those of the ordinary list that have little stock.
HiddenStaysHidden ==
  \A role \in Roles :
    /\ \A i \in Categories \cup Units \cup Products :
         Found(role, i) <=> \E status \in Statuses \cup {NoFilter} : i \in Listed(role, status, {i})
    /\ \A c \in Customers :
         FoundCustomer(role, c) <=> \E status \in Statuses \cup {NoFilter} : c \in ListedCustomers(role, status)
    /\ \A s \in Suppliers : FoundSupplier(role, s) <=> s \in ListedSuppliers(role, NoFilter)
    /\ \A m \in ListedMethods(role, FALSE) : Active(m)
    /\ \A p \in Products, i \in Images : OpensImage(role, i, p) => p \in Listed(role, NoFilter, Products)
    /\ \A query \in ProductQueries :
         LowStockProducts(role, query)
           = {p \in ListedProducts(role, query) : rows[p].tracked /\ LittleStock(p)}
=============================================================================
