SPECIFICATION Spec
CONSTANTS
  PEN = PEN
  USD = USD
  i1 = i1
  s1 = s1
  s2 = s2
  q1 = q1
  q2 = q2
  r1 = r1
  r2 = r2
  v1 = v1
  v2 = v2
  Currencies = {PEN, USD}
  Sales = {s1, s2}
  Invoices = {i1}
  Quotes = {q1}
  Revisions = {v1, v2}
  LastDay = 1
  Rates = {1}
  Requests = {r1, r2}
  NoRequest = NoRequest
SYMMETRY Symmetry
INVARIANTS
  SaleAgreesWithQuote
  SalesInCompanyCurrency
CHECK_DEADLOCK FALSE
