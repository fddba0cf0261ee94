----------------------------- MODULE MCReconcile -----------------------------
(***************************************************************************)
(* Values for model checking Reconcile: the migration's sweep and two more *)
(* transactions, which become resweeps or relays; one coin it swept and    *)
(* one that may arrive late.                                               *)
(***************************************************************************)
EXTENDS Reconcile, TLC

CONSTANTS s, t1, t2

SlotSymmetry == Permutations(Requests)

=============================================================================
