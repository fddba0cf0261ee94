SPECIFICATION Spec
CONSTANTS
  s = s
  t1 = t1
  t2 = t2
  NoTx = NoTx
  Txs = {s, t1, t2}
  Sweep0 = s
  Coins = {k1, k2}
  Late = {k2}
  Requests = {r1}
  MaxReorgs = 1
  MayStop = FALSE
SYMMETRY SlotSymmetry
INVARIANT BuildStateDiscarded
CHECK_DEADLOCK FALSE
