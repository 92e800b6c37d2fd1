SPECIFICATION Spec
CONSTANTS
  k1 = k1
  k2 = k2
  k3 = k3
  s1 = s1
  s2 = s2
  r1 = r1
  r2 = r2
  Products = {1, 2}
  Valued = {1, 2}
  AccountOf <- OneAccount
  Lines = {1, 2}
  LineProduct <- TwoProducts
  LineQuantity <- TwoQuantities
  LineAmount <- TwoAmounts
  Receipts = {k1, k2}
  Sales = {s1}
  Requests = {r1, r2}
  NoRequest = NoRequest
  MaxStock = 2
  Lot = 50000
  MaxManual <- ManualOnFirst
SYMMETRY Symmetry
INVARIANTS
  StockMatchesDocuments
  LineCapitalizedExactly
  ValuationMatchesDocuments
PROPERTY DepletionTakesAllValue
CHECK_DEADLOCK FALSE
