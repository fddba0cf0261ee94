SPECIFICATION Spec
CONSTANTS
  s = s
  t1 = t1
  t2 = t2
  NoTx = NoTx
  Txs = {s, t1}
  Sweep0 = s
  Coins = {k1, k2}
  Late = {k2}
  Requests = {r1, r2}
  MaxReorgs = 1
  MayStop = TRUE
SYMMETRY SlotSymmetry
INVARIANTS
  TypeOK
  ColumnsAgree
  ReopenedOnEvidence
  PassSettles
CHECK_DEADLOCK FALSE
