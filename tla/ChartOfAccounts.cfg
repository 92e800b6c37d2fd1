SPECIFICATION ChartSpec
CONSTANTS
  a1 = a1
  a2 = a2
  a3 = a3
  a4 = a4
  cash = cash
  bank = bank
  Accounts = {a1, a2, a3, a4}
  Groups = {a3, a4}
  Types = {"ASSET"}
  Keys = {cash, bank}
  SystemAccount <- SeededChart
  SystemType = "ASSET"
  Admins = {"u1"}
  NoAccount = NoAccount
  NoKey = NoKey
SYMMETRY Symmetry
INVARIANTS
  ChartStands
PROPERTY ImplementsMapping
CHECK_DEADLOCK FALSE
