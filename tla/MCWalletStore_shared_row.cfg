SPECIFICATION Spec
CONSTANTS
  Requests = {r1, r2}
  Instances = {i1, i2}
  NoInstance = NoInstance
  Deposits = {d}
  Sweeps = {w}
  Mixes <- AllMixes
  MaxHeight = 2
  MaxChange = 1
SYMMETRY SlotSymmetry
INVARIANTS
  TypeOK
  MemoryAccounted
  SkippedForACause
  ChangeScriptPersisted
PROPERTIES
  OnlyOutdatedWritesForget
  SettledRow
CHECK_DEADLOCK FALSE
