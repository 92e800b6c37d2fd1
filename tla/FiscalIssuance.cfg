SPECIFICATION FairSpec
CONSTANTS
  s1 = s1
  s2 = s2
  d1 = d1
  d2 = d2
  x1 = x1
  x2 = x2
  r1 = r1
  r2 = r2
  Sales = {s1, s2}
  Docs = {d1, d2}
  Series = {x1, x2}
  Requests = {r1, r2}
  Billable <- AllPairs
  MaxFiscalNumber = 1
  MaxSubmissions = 2
  NoRequest = NoRequest
  NoSale = NoSale
  NoDoc = NoDoc
  NoSeries = NoSeries
INVARIANTS
  NoLiveDocumentOnCancelledSale
  PrimaryIndexNeverFires
  GapFreeNumbers
  ProcessedAtMostOnce
  AgreesWithProvider
PROPERTIES
  OutcomeIsFinal
  RequestsEnd
CHECK_DEADLOCK FALSE
