-------------------------- MODULE ProposalLifecycle --------------------------
(***************************************************************************)
(* The life cycle documented for transaction_proposals.status, one atomic  *)
(* step per request.  Only an unfinished proposal takes signatures; the    *)
(* last one needed finalizes it; `broadcast' and `cancelled' are final.    *)
(***************************************************************************)
CONSTANTS
  Cosigners,  \* the members who may sign
  Quorums     \* the sets of cosigners that satisfy the federation's script

VARIABLES status, signed

Init ==
  /\ status = "proposed"
  /\ signed = {}

Sign(u) ==
  /\ status \in {"proposed", "signing"}
  /\ u \notin signed
  /\ signed' = signed \cup {u}
  /\ status' = IF signed' \in Quorums THEN "finalized" ELSE "signing"

Broadcast ==
  /\ status = "finalized"
  /\ status' = "broadcast"
  /\ UNCHANGED signed

Cancel ==
  /\ status \in {"proposed", "signing", "finalized"}
  /\ status' = "cancelled"
  /\ UNCHANGED signed

Next == Broadcast \/ Cancel \/ \E u \in Cosigners : Sign(u)

Spec == Init /\ [][Next]_<<status, signed>>

=============================================================================
