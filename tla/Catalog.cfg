CONSTANTS
  Categories = {c1, c2}
  Units = {n1}
  Products = {p1}
  Customers = {generic, k1}
  Suppliers = {s1}
  Methods = {m1}
  Generic = generic
  Admins = {u1}
  Sellers = {r1}
  NoRecord = none
  MaxStock = 1
  PatchedTogether <- MCPatchedTogether
  Images = {i1, i2}
  Uploads = {q1, q2}
  NoFilter = any
  DocumentTypes = {QUOTE, SALE}
  Writers = {w1, w2}
  MaxNumber = 3
SPECIFICATION Spec
SYMMETRY Symmetry
INVARIANTS
  CatalogStands
  HiddenStaysHidden
  ImagesStand
  NumbersNeverRepeat
PROPERTY SalesFitTheRows
CHECK_DEADLOCK FALSE
