----------------------------- MODULE SweepRecord -----------------------------
(***************************************************************************)
(* What the migration columns of a base version promise: the sweep that    *)
(* was sent is on record, is seen once it is in a block, and is given up   *)
(* for another only after the chain has lost it.                           *)
(***************************************************************************)
CONSTANTS Txs, NoTx

VARIABLES
  stage,  \* "none", "sent", "seen" or "reopened"
  sweep,  \* the transaction on record
  mined,  \* transactions that have been in a block
  lost    \* transactions that a reorg has taken out of one

vars == <<stage, sweep, mined, lost>>

Init ==
  /\ stage = "none"
  /\ sweep = NoTx
  /\ mined = {}
  /\ lost = {}

Send(t) ==
  /\ stage \in {"none", "reopened"}
  /\ stage' = "sent"
  /\ sweep' = t
  /\ UNCHANGED <<mined, lost>>

See ==
  /\ stage = "sent"
  /\ sweep \in mined
  /\ stage' = "seen"
  /\ UNCHANGED <<sweep, mined, lost>>

Reopen ==
  /\ stage = "seen"
  /\ sweep \in lost
  /\ stage' = "reopened"
  /\ sweep' = NoTx
  /\ UNCHANGED <<mined, lost>>

Mine(t) ==
  /\ mined' = mined \cup {t}
  /\ UNCHANGED <<stage, sweep, lost>>

Lose(t) ==
  /\ t \in mined
  /\ lost' = lost \cup {t}
  /\ UNCHANGED <<stage, sweep, mined>>

Next ==
  \/ See
  \/ Reopen
  \/ \E t \in Txs : Send(t) \/ Mine(t) \/ Lose(t)

Spec == Init /\ [][Next]_vars

=============================================================================
