SPECIFICATION Spec
CONSTANTS
  s1 = s1
  s2 = s2
  p1 = p1
  p2 = p2
  p3 = p3
  p4 = p4
  r1 = r1
  r2 = r2
  Sales = {s1, s2}
  GenericSales = {s2}
  Payments = {p1, p2, p3, p4}
  Amounts = {1, 2}
  Total <- MCTotal
  Requests = {r1, r2}
  NoRequest = NoRequest
SYMMETRY Symmetry
INVARIANTS
  SummaryMatchesPayments
  LedgerMatchesSales
  GenericSaleIsPaid
PROPERTIES
  ImplementsPaymentBook
CHECK_DEADLOCK FALSE
