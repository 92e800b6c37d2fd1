SPECIFICATION Spec
CONSTANTS
  o1 = o1
  o2 = o2
  s1 = s1
  s2 = s2
  e1 = e1
  e2 = e2
  i1 = i1
  k1 = k1
  p1 = p1
  p2 = p2
  Operations = {o1, o2}
  Shipments = {s1, s2}
  Expenses = {e1, e2}
  MaxLines = 2
  Contents <- ContentsOf
  Items = {i1}
  Invoiced <- InvoicedOf
  Currencies = {"PEN", "USD"}
  CompanyCurrency = "PEN"
  ExpenseAmounts = {1, 4}
  Portions = {1, 3}
  Methods = {"WEIGHT"}
  ExpenseKeys = {k1}
  NoExpenseKey = NoExpenseKey
  NoItem = NoItem
  Unmeasured = Unmeasured
  MaxBatches = 2
  Importers = {p1, p2}
SYMMETRY Symmetry
INVARIANT FinalizedMayBeCancelled
CHECK_DEADLOCK FALSE
