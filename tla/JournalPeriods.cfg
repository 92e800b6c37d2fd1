SPECIFICATION Spec
CONSTANTS
  sale = sale
  draft = draft
  r1 = r1
  r2 = r2
  r3 = r3
  Sources = {sale, draft}
  Manual = {draft}
  Requests = {r1, r2}
  LastMonth = 2
  MaxClosings = 1
  NoRequest = NoRequest
  NoSource = NoSource
SYMMETRY Symmetry
INVARIANTS
  GapFreeJournal
  ReversedAtMostOnce
PROPERTY ClosedPeriodIsFrozen
CHECK_DEADLOCK FALSE
