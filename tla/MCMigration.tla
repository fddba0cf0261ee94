----------------------------- MODULE MCMigration -----------------------------
(***************************************************************************)
(* Values for model checking Migration: a Bitcoin-only vault or one on     *)
(* both chains, with a deposit or two to sweep.                            *)
(***************************************************************************)
EXTENDS Migration, TLC

CONSTANTS k1, k2

BitcoinOnly  == {"bitcoin"}
BothChains   == {"bitcoin", "elements"}
AllOnBitcoin == [k \in {k1, k2} |-> "bitcoin"]
OnePerChain  == k1 :> "bitcoin" @@ k2 :> "elements"

\* bound: by the time a second migration is stored, one deposit is in play.
OneCoinLater == version[2] = "none" \/ \E k \in Coins : coinAt[k] \in {Unseen, Spent}

SlotSymmetry == Permutations(Requests)

=============================================================================
