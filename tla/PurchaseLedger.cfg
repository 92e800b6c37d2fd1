SPECIFICATION Spec
CONSTANTS
  a1 = a1
  a2 = a2
  payable = payable
  p1 = p1
  p2 = p2
  k1 = k1
  r1 = r1
  r2 = r2
  Accounts = {a1, a2}
  Keys = {payable}
  NoAccount = NoAccount
  Invoices = {1, 2}
  Totals <- TotalsOf
  DaysOverdue <- OverdueOf
  Payments = {p1, p2}
  Amounts = {1}
  IdempotencyKeys = {k1}
  PayableKey = payable
  Requests = {r1, r2}
  NoRequest = NoRequest
SYMMETRY Symmetry
INVARIANTS
  PaidInvoicesStand
  PayablesAgree
  NoCircularWait
PROPERTY ImplementsPayableBook
CHECK_DEADLOCK FALSE
