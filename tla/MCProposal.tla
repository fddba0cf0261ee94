----------------------------- MODULE MCProposal -----------------------------
(***************************************************************************)
(* Values for model checking Proposal: three cosigners, the first of whom  *)
(* proposes and the second of whom signs with a Trezor.                    *)
(***************************************************************************)
EXTENDS Proposal, TLC

CONSTANTS c1, c2, c3

MCCosigners == {c1, c2, c3}
MCTrezors   == {c2}
MCRejecters == {c3}

\* Slots are interchangeable: a request never looks at its own identity.
SlotSymmetry == Permutations(Requests)

=============================================================================
