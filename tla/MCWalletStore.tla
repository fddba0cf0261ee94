---------------------------- MODULE MCWalletStore ----------------------------
(***************************************************************************)
(* Values for model checking WalletStore.  All operations and faults at    *)
(* once are out of reach, so each behaviour draws from one of these mixes: *)
(* together they pair every operation with a sync and with the faults that *)
(* can catch it half way.                                                  *)
(***************************************************************************)
EXTENDS WalletStore, TLC

Mix(b, m) == [backend |-> b, may |-> m]
AllMixes == {
  Mix("rpc", {"sync", "reveal", "restart"}),
  Mix("rpc", {"sync", "build", "stop"}),
  Mix("rpc", {"sync", "build", "max", "failure"}),
  Mix("rpc", {"sync", "revealFirst", "resweep"}),
  Mix("rpc", {"sync", "rescan", "restart"}),
  Mix("rpc", {"sync", "reveal", "rescan"}),
  Mix("nodeless", {"sync", "reveal", "failure"}),
  Mix("nodeless", {"sync", "revealFirst", "restart"}),
  Mix("nodeless", {"build", "resweep", "restart"})}

SlotSymmetry == Permutations(Requests) \cup Permutations(Instances)

=============================================================================
