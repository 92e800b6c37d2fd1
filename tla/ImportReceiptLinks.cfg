SPECIFICATION LinksSpec
CONSTANTS
  sl1 = sl1
  sl2 = sl2
  rl1 = rl1
  rl2 = rl2
  rc1 = rc1
  rc2 = rc2
  k1 = k1
  l1 = l1
  l2 = l2
  r1 = r1
  r2 = r2
  ShipmentLines = {sl1, sl2}
  ReceiptLines = {rl1, rl2}
  Receipts = {rc1, rc2}
  ReceiptOf <- MCReceiptOf
  Planned <- MCPlanned
  Received <- MCReceived
  Compatible <- MCCompatible
  ClientKeys = {k1}
  NoKey = NoKey
  Asked = {1, 2}
  Links = {l1, l2}
  Linkers = {r1, r2}
  NoLinker = NoLinker
SYMMETRY Symmetry
INVARIANTS
  LinksFit
CHECK_DEADLOCK FALSE
