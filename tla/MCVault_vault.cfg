SPECIFICATION Spec
CONSTANTS
  u1 = u1
  u2 = u2
  u3 = u3
  j1 = j1
  j2 = j2
  t2 = t2
  NoDevice = NoDevice
  Users <- MCUsers
  Devices <- MCDevices
  DeviceType <- Types
  LastVersion = 3
  MaxCoins = 4
  DepositValue = 2
  A = A
  B = B
  Requests = {A, B}
  Mixes <- MCMixes
  MaxProposals = 2
  Amounts = {1}
INVARIANTS
  TypeOK
  RostersFollow
  SpendableIsFree
  PrivilegeWasHeld
  SeenCoinsAreSwept
  RowsAddUp
CHECK_DEADLOCK FALSE
