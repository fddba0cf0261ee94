SPECIFICATION Spec
CONSTANTS
  k1 = k1
  k2 = k2
  Unseen = Unseen
  Spent = Spent
  LastVersion = 2
  Chains <- BitcoinOnly
  Coins = {k1, k2}
  ChainOf <- AllOnBitcoin
  Requests = {r1, r2}
  MayStop = FALSE
SYMMETRY SlotSymmetry
INVARIANT CancelClosesSweeps
CHECK_DEADLOCK FALSE
