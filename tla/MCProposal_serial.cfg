SPECIFICATION FairSpec
CONSTANTS
  c1 = c1
  c2 = c2
  c3 = c3
  NoUser = NoUser
  Cosigners <- MCCosigners
  Trezors <- MCTrezors
  Rejecters <- MCRejecters
  Proposer = c1
  Threshold = 2
  Requests = {r1}
  MayStop = FALSE
INVARIANTS
  AcceptedWorkKept
  FinalizedHasTx
  CancelledBeforeBroadcast
PROPERTIES
  CancelledStaysCancelled
  ImplementsLifecycle
  ThresholdFinalizes
