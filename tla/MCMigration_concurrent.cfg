SPECIFICATION Spec
CONSTANTS
  k1 = k1
  k2 = k2
  Unseen = Unseen
  Spent = Spent
  LastVersion = 2
  Chains <- BothChains
  Coins = {k1, k2}
  ChainOf <- OnePerChain
  Requests = {r1, r2}
  MayStop = TRUE
SYMMETRY SlotSymmetry
CONSTRAINT OneCoinLater
INVARIANTS
  TypeOK
  LineageShape
  InFlightAmendsCurrent
  TargetsStored
  
  FlipsEarned
PROPERTY ActivatedByConsent
CHECK_DEADLOCK FALSE
