SPECIFICATION Spec
CONSTANTS
  c1 = c1
  c2 = c2
  c3 = c3
  NoUser = NoUser
  Cosigners <- MCCosigners
  Trezors <- MCTrezors
  Rejecters <- MCRejecters
  Proposer = c1
  Threshold = 3
  Requests = {r1, r2}
  MayStop = FALSE
SYMMETRY SlotSymmetry
INVARIANT AcceptedWorkKept
