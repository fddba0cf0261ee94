--------------------------- MODULE CosignerConsent ---------------------------
(***************************************************************************)
(* What a federation owes its members about one candidate transaction: it  *)
(* reaches the network only with the recorded approval of a quorum of      *)
(* cosigners, and an approval is never taken back.  Nothing is said about  *)
(* how approvals are collected, retried or raced.                          *)
(***************************************************************************)
CONSTANTS
  Cosigners,
  Quorums     \* the sets of cosigners who may spend together

VARIABLES
  approvals,  \* the cosigners who have approved
  settled     \* the approvals behind the transaction sent, {} before

TypeOK ==
  /\ approvals \subseteq Cosigners
  /\ settled \subseteq approvals

Init ==
  /\ approvals = {}
  /\ settled = {}

Approve(u) ==
  /\ approvals' = approvals \cup {u}
  /\ UNCHANGED settled

\* May happen again: a transaction dropped by the network is sent again.
Settle ==
  /\ settled' \in Quorums
  /\ settled' \subseteq approvals
  /\ UNCHANGED approvals

Next == Settle \/ \E u \in Cosigners : Approve(u)

Spec == Init /\ [][Next]_<<approvals, settled>>

=============================================================================
