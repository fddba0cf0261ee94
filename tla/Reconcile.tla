------------------------------ MODULE Reconcile ------------------------------
(***************************************************************************)
(* The columns that say whether a version's funds have landed, and stayed, *)
(* at its successor: federations.migration_status, migration_sweep_txid    *)
(* and migration_sweep_confirmed_height of one superseded base version.    *)
(* proposals::broadcast completes them, WalletManager::sync_lineage        *)
(* (wallet.rs) latches and reverts them against what the wallets see of    *)
(* the chain, and resweep_post (migrations.rs) starts over after a revert. *)
(*                                                                         *)
(* A height is abstracted to whether it is NULL.  How a proposal gets its  *)
(* signatures is Proposal's subject and how versions flip is Migration's:  *)
(* a proposal is inserted with its signatures, and the flip is a flag.     *)
(***************************************************************************)
EXTENDS Naturals

CONSTANTS
  Txs,        \* the transactions that spend the base version's coins
  Sweep0,     \* the migration's own sweep
  Coins,      \* the deposits to the base version
  Late,       \* those that may arrive after the sweep was built
  Requests,   \* slots for requests being served at the same time
  MaxReorgs,  \* bound: blocks of these transactions taken back
  MayStop,    \* can a request be abandoned, and the process be restarted?
  NoTx        \* SQL NULL

ASSUME ReconcileAssumption ==
  /\ Sweep0 \in Txs /\ NoTx \notin Txs
  /\ Late \subseteq Coins /\ Late # Coins
  /\ MaxReorgs \in Nat
  /\ MayStop \in BOOLEAN

VARIABLES
  migrationStatus,  \* migration_status of the base version
  sweepTxid,        \* migration_sweep_txid
  latched,          \* migration_sweep_confirmed_height IS NOT NULL
  enacted,          \* has the migration's version flip been applied?
  proposal,         \* the proposals that spend the base version's coins
  node,             \* where the node has each transaction
  deposited,        \* the coins the base wallet has seen arrive
  graph,            \* where each wallet's transaction graph has them
  hidden,           \* transactions evicted from the base wallet in memory only
  request,          \* the handler instances being executed
  reorgs,           \* bound counter
  everConfirmed,    \* history: transactions that have been in a block
  everLost,         \* history: those that a reorg has taken out of one
  calm              \* history: passes, finished ones too, since whose start
                    \* neither the chain nor, by another's hand, the columns changed

columns  == <<migrationStatus, sweepTxid, latched>>
nodeVars == <<node, deposited, reorgs, everConfirmed, everLost>>
wallets  == <<graph, hidden>>
vars     == <<columns, enacted, proposal, nodeVars, wallets, request, calm>>

Wallets  == {"base", "current"}
Places   == {"unseen", "mempool", "confirmed"}
Proposal == [kind : {"none", "migration", "resweep", "relay"},
             status : {"finalized", "broadcast"}, inputs : SUBSET Coins]
Unused   == [kind |-> "none", status |-> "finalized", inputs |-> {}]

\* A slot: the next statement, the transaction it is about, the inputs of one
\* being built, and what a sync pass has read of its candidate: whether the
\* height was latched, and whether some wallet has the sweep confirmed.
Request == [step : {"idle", "send", "mark", "lookup", "enact", "complete",
                    "syncBase", "syncCurrent", "load", "readBase", "readCurrent", "write",
                    "resync", "build", "evict", "insert"},
            tx : Txs \cup {NoTx}, inputs : SUBSET Coins,
            wasLatched : BOOLEAN, seen : BOOLEAN]
Idle == [step |-> "idle", tx |-> NoTx, inputs |-> {}, wasLatched |-> FALSE, seen |-> FALSE]

TypeOK ==
  /\ migrationStatus \in {"not_applicable", "pending", "complete"}
  /\ sweepTxid \in Txs \cup {NoTx}
  /\ latched \in BOOLEAN
  /\ enacted \in BOOLEAN
  /\ proposal \in [Txs -> Proposal]
  /\ node \in [Txs -> Places]
  /\ deposited \subseteq Coins
  /\ graph \in [Wallets -> [Txs -> Places]]
  /\ hidden \subseteq Txs
  /\ request \in [Requests -> Request]
  /\ reorgs \in 0..MaxReorgs
  /\ everConfirmed \subseteq Txs
  /\ everLost \subseteq Txs
  /\ calm \subseteq Requests

Free(r)       == request[r].step = "idle"
Goto(r, step) == request' = [request EXCEPT ![r].step = step]
Finish(r)     == request' = [request EXCEPT ![r] = Idle]
Start(r, step, tx) ==
  /\ Free(r)
  /\ request' = [request EXCEPT ![r] = [Idle EXCEPT !.step = step, !.tx = tx]]

Init ==
  /\ migrationStatus = "not_applicable"
  /\ sweepTxid = NoTx
  /\ latched = FALSE
  /\ enacted = FALSE
  /\ proposal = [t \in Txs |->
       IF t = Sweep0
       THEN [kind |-> "migration", status |-> "finalized", inputs |-> Coins \ Late]
       ELSE Unused]
  /\ node = [t \in Txs |-> "unseen"]
  /\ deposited = Coins \ Late
  /\ graph = [w \in Wallets |-> node]
  /\ hidden = {}
  /\ request = [r \in Requests |-> Idle]
  /\ reorgs = 0
  /\ everConfirmed = {}
  /\ everLost = {}
  /\ calm = {}

-----------------------------------------------------------------------------
(* proposals::broadcast *)

RequestBroadcast(r, t) ==
  /\ proposal[t].kind # "none" /\ proposal[t].status = "finalized"
  /\ Start(r, "send", t)
  /\ UNCHANGED <<columns, enacted, proposal, nodeVars, wallets, calm>>

\* The transactions the node has that spend an input of t.
Conflicts(t) == {u \in Txs \ {t} :
  node[u] # "unseen" /\ proposal[u].inputs \cap proposal[t].inputs # {}}

\* broadcast_raw: the node takes a transaction that conflicts with nothing it
\* has mined; unmined conflicts are replaced if the new fee is high enough.
AcceptTx(r) ==
  /\ request[r].step = "send"
  /\ LET t == request[r].tx
     IN  /\ node[t] # "confirmed"
         /\ \A u \in Conflicts(t) : node[u] = "mempool"
         /\ node' = [u \in Txs |-> IF u = t THEN "mempool"
                                   ELSE IF u \in Conflicts(t) THEN "unseen" ELSE node[u]]
  /\ Goto(r, "mark")
  /\ calm' = {}
  /\ UNCHANGED <<columns, enacted, proposal, deposited, reorgs, everConfirmed, everLost,
                 wallets>>

RefuseTx(r) ==
  /\ request[r].step = "send"
  /\ node[request[r].tx] = "confirmed" \/ Conflicts(request[r].tx) # {}
  /\ Finish(r)
  /\ UNCHANGED <<columns, enacted, proposal, nodeVars, wallets, calm>>

\* Mutant: the proposal gets the status of a migration.
MarkComplete(r) ==
  /\ request[r].step = "mark"
  /\ proposal' = [proposal EXCEPT ![request[r].tx].status = "complete"]
  /\ Goto(r, "lookup")
  /\ UNCHANGED <<columns, enacted, nodeVars, wallets, calm>>

\* db::mark_proposal_broadcast.
MarkBroadcast(r) ==
  /\ request[r].step = "mark"
  /\ proposal' = [proposal EXCEPT ![request[r].tx].status = "broadcast"]
  /\ Goto(r, "lookup")
  /\ UNCHANGED <<columns, enacted, nodeVars, wallets, calm>>

\* Mutant: the re-completion does not ask for a pending base version.
LookupAnyResweep(r) ==
  /\ request[r].step = "lookup"
  /\ LET kind == proposal[request[r].tx].kind
     IN  IF kind = "migration" /\ ~enacted
         THEN Goto(r, "enact")
         ELSE IF kind = "resweep" THEN Goto(r, "complete") ELSE Finish(r)
  /\ UNCHANGED <<columns, enacted, proposal, nodeVars, wallets, calm>>

\* db::migration_enactment_for_proposal for a migration not yet enacted, then
\* db::resweep_recompletion_for_proposal for a resweep of a pending base.
Lookup(r) ==
  /\ request[r].step = "lookup"
  /\ LET kind == proposal[request[r].tx].kind
     IN  IF kind = "migration" /\ ~enacted
         THEN Goto(r, "enact")
         ELSE IF kind = "resweep" /\ migrationStatus = "pending"
              THEN Goto(r, "complete")
              ELSE Finish(r)
  /\ UNCHANGED <<columns, enacted, proposal, nodeVars, wallets, calm>>

\* db::enact_version_transition.
Enact(r) ==
  /\ request[r].step = "enact"
  /\ enacted' = TRUE
  /\ Goto(r, "complete")
  /\ UNCHANGED <<columns, proposal, nodeVars, wallets, calm>>

\* db::set_migration_complete: unconditional, and the height stays.
CompleteMigration(r) ==
  /\ request[r].step = "complete"
  /\ migrationStatus' = "complete"
  /\ sweepTxid' = request[r].tx
  /\ Finish(r)
  /\ calm' = {}
  /\ UNCHANGED <<latched, enacted, proposal, nodeVars, wallets>>

-----------------------------------------------------------------------------
(* sync_lineage *)

Read(w) == [graph EXCEPT ![w] = node]

\* Any page of a version syncs its wallet, with no reconciliation.
SyncWallet(w) ==
  /\ graph' = Read(w)
  /\ UNCHANGED <<columns, enacted, proposal, nodeVars, hidden, request, calm>>

\* Mutant: the pass reconciles before it has synced.
PassUnsynced(r) ==
  /\ Start(r, "load", NoTx)
  /\ calm' = calm \cup {r}
  /\ UNCHANGED <<columns, enacted, proposal, nodeVars, wallets>>

\* federation_manage, which runs sync_lineage.
RequestPass(r) ==
  /\ Start(r, "syncBase", NoTx)
  /\ calm' = calm \cup {r}
  /\ UNCHANGED <<columns, enacted, proposal, nodeVars, wallets>>

SyncBase(r) ==
  /\ request[r].step = "syncBase"
  /\ graph' = Read("base")
  /\ Goto(r, "syncCurrent")
  /\ UNCHANGED <<columns, enacted, proposal, nodeVars, hidden, calm>>

SyncCurrent(r) ==
  /\ request[r].step = "syncCurrent"
  /\ graph' = Read("current")
  /\ Goto(r, "load")
  /\ UNCHANGED <<columns, enacted, proposal, nodeVars, hidden, calm>>

\* reconcile_reverted_migrations: the candidate of this base version, if any.
LoadCandidate(r) ==
  /\ request[r].step = "load"
  /\ IF migrationStatus = "complete" /\ sweepTxid # NoTx
     THEN request' = [request EXCEPT ![r] =
            [@ EXCEPT !.step = "readBase", !.tx = sweepTxid, !.wasLatched = latched]]
     ELSE Finish(r)
  /\ UNCHANGED <<columns, enacted, proposal, nodeVars, wallets, calm>>

\* txids_confirmed, united over the wallets of the lineage.
ReadGraph(r, step, w, next) ==
  /\ request[r].step = step
  /\ LET found == graph[w][request[r].tx] = "confirmed"
     IN  request' = [request EXCEPT ![r] = [request[r] EXCEPT !.step = next,
                                                              !.seen = @ \/ found]]
  /\ UNCHANGED <<columns, enacted, proposal, nodeVars, wallets, calm>>
ReadBase(r)    == ReadGraph(r, "readBase", "base", "readCurrent")
ReadCurrent(r) == ReadGraph(r, "readCurrent", "current", "write")

Recorded(r) == migrationStatus = "complete" /\ sweepTxid = request[r].tx

\* db::latch_migration_sweep_height: the first confirmation seen.
Latch(r) ==
  /\ request[r].step = "write"
  /\ ~request[r].wasLatched /\ request[r].seen
  /\ latched' = (latched \/ Recorded(r))
  /\ calm' = IF latched' = latched THEN calm ELSE calm \cap {r}
  /\ Finish(r)
  /\ UNCHANGED <<migrationStatus, sweepTxid, enacted, proposal, nodeVars, wallets>>

\* Mutant: the statement does not ask for a latched height.
RevertUnlatched(r) ==
  /\ request[r].step = "write"
  /\ ~request[r].seen
  /\ IF Recorded(r)
     THEN migrationStatus' = "pending" /\ sweepTxid' = NoTx /\ latched' = FALSE
     ELSE UNCHANGED columns
  /\ calm' = calm \cap {r}
  /\ Finish(r)
  /\ UNCHANGED <<enacted, proposal, nodeVars, wallets>>

\* Mutant: the height is not reset with the txid.
RevertKeepsHeight(r) ==
  /\ request[r].step = "write"
  /\ request[r].wasLatched /\ ~request[r].seen
  /\ IF Recorded(r) /\ latched
     THEN migrationStatus' = "pending" /\ sweepTxid' = NoTx
     ELSE UNCHANGED <<migrationStatus, sweepTxid>>
  /\ calm' = calm \cap {r}
  /\ Finish(r)
  /\ UNCHANGED <<latched, enacted, proposal, nodeVars, wallets>>

\* db::reconcile_migration: a confirmation seen once and lost since.
Revert(r) ==
  /\ request[r].step = "write"
  /\ request[r].wasLatched /\ ~request[r].seen
  /\ IF Recorded(r) /\ latched
     THEN /\ migrationStatus' = "pending"
          /\ sweepTxid' = NoTx
          /\ latched' = FALSE
          /\ calm' = calm \cap {r}
     ELSE UNCHANGED <<columns, calm>>
  /\ Finish(r)
  /\ UNCHANGED <<enacted, proposal, nodeVars, wallets>>

\* Neither: never confirmed so far, or still confirmed.
LeaveAlone(r) ==
  /\ request[r].step = "write"
  /\ request[r].wasLatched = request[r].seen
  /\ Finish(r)
  /\ UNCHANGED <<columns, enacted, proposal, nodeVars, wallets, calm>>

-----------------------------------------------------------------------------
(* resweep_post and relay_post *)

RequestResweep(r) ==
  /\ migrationStatus = "pending"
  /\ enacted
  /\ Start(r, "resync", NoTx)
  /\ UNCHANGED <<columns, enacted, proposal, nodeVars, wallets, calm>>

ResyncBase(r) ==
  /\ request[r].step = "resync"
  /\ graph' = Read("base")
  /\ Goto(r, "build")
  /\ UNCHANGED <<columns, enacted, proposal, nodeVars, hidden, calm>>

\* What the base wallet takes for unspent, given what it has evicted.
Spent(t, evicted) ==
  \/ graph["base"][t] = "confirmed"
  \/ graph["base"][t] = "mempool" /\ t \notin evicted
Spendable(evicted) == {k \in deposited :
  \A t \in Txs : k \in proposal[t].inputs => ~Spent(t, evicted)}

\* Unconfirmed transactions that spend the base wallet's own coins.
Stranded == {t \in Txs : graph["base"][t] = "mempool" /\ t \notin hidden}

\* build_migration_resweep evicts a stranded transaction, whichever comes
\* first, and drains what that frees.  It fails when there is none, or when
\* the coins do not pay the fee, and then keeps the eviction.
BuildResweep(r) ==
  /\ request[r].step = "build"
  /\ \/ Stranded = {} /\ Finish(r) /\ UNCHANGED hidden
     \/ \E t \in Stranded :
          /\ hidden' = hidden \cup {t}
          /\ \/ Finish(r)
             \/ /\ Spendable(hidden') # {}
                /\ request' = [request EXCEPT ![r] =
                     [@ EXCEPT !.step = "evict", !.inputs = Spendable(hidden')]]
  /\ UNCHANGED <<columns, enacted, proposal, nodeVars, graph, calm>>

\* evict_cache: the next load reads what was persisted.
EvictCache(r) ==
  /\ request[r].step = "evict"
  /\ hidden' = {}
  /\ Goto(r, "insert")
  /\ UNCHANGED <<columns, enacted, proposal, nodeVars, graph, calm>>

Insert(t, kind, inputs) ==
  /\ proposal[t].kind = "none"
  /\ proposal' = [proposal EXCEPT ![t] =
       [kind |-> kind, status |-> "finalized", inputs |-> inputs]]

\* db::insert_resweep_proposal.
InsertResweep(r) ==
  /\ request[r].step = "insert"
  /\ \E t \in Txs : Insert(t, "resweep", request[r].inputs)
  /\ Finish(r)
  /\ UNCHANGED <<columns, enacted, nodeVars, wallets, calm>>

\* relay_post: drains a superseded version; broadcasting it completes nothing.
ProposeRelay(t) ==
  /\ enacted
  /\ Spendable(hidden) # {}
  /\ Insert(t, "relay", Spendable(hidden))
  /\ UNCHANGED <<columns, enacted, nodeVars, wallets, request, calm>>

-----------------------------------------------------------------------------
(* The chain, and what ends a request *)

Mine(t) ==
  /\ node[t] = "mempool"
  /\ node' = [node EXCEPT ![t] = "confirmed"]
  /\ everConfirmed' = everConfirmed \cup {t}
  /\ calm' = {}
  /\ UNCHANGED <<columns, enacted, proposal, deposited, reorgs, everLost, wallets, request>>

\* A reorg takes the transaction out of its block: it floats unconfirmed, or
\* the node does not have it any more.
Reorg(t) ==
  /\ reorgs < MaxReorgs
  /\ node[t] = "confirmed"
  /\ \E place \in {"mempool", "unseen"} : node' = [node EXCEPT ![t] = place]
  /\ reorgs' = reorgs + 1
  /\ everLost' = everLost \cup {t}
  /\ calm' = {}
  /\ UNCHANGED <<columns, enacted, proposal, deposited, everConfirmed, wallets, request>>

Deposit(k) ==
  /\ deposited' = deposited \cup {k}
  /\ UNCHANGED <<columns, enacted, proposal, node, reorgs, everConfirmed, everLost,
                 wallets, request, calm>>

\* The browser disconnects or a statement fails.
Stop(r) ==
  /\ MayStop
  /\ ~Free(r)
  /\ Finish(r)
  /\ calm' = calm \ {r}
  /\ UNCHANGED <<columns, enacted, proposal, nodeVars, wallets>>

\* The process is restarted: the wallets are loaded again.
Restart ==
  /\ MayStop
  /\ request' = [r \in Requests |-> Idle]
  /\ hidden' = {}
  /\ calm' = {}
  /\ UNCHANGED <<columns, enacted, proposal, nodeVars, graph>>

Broadcasting(r) ==
  \/ AcceptTx(r)
  \/ RefuseTx(r)
  \/ MarkBroadcast(r)
  \/ Lookup(r)
  \/ Enact(r)
  \/ CompleteMigration(r)

Reconciling(r) ==
  \/ SyncBase(r)
  \/ SyncCurrent(r)
  \/ LoadCandidate(r)
  \/ ReadBase(r)
  \/ ReadCurrent(r)
  \/ Latch(r)
  \/ Revert(r)
  \/ LeaveAlone(r)

Resweeping(r) ==
  \/ ResyncBase(r)
  \/ BuildResweep(r)
  \/ EvictCache(r)
  \/ InsertResweep(r)

Receive(r) ==
  \/ RequestPass(r)
  \/ RequestResweep(r)
  \/ \E t \in Txs : RequestBroadcast(r, t)

Next ==
  \/ \E r \in Requests :
       Receive(r) \/ Broadcasting(r) \/ Reconciling(r) \/ Resweeping(r) \/ Stop(r)
  \/ \E t \in Txs : Mine(t) \/ Reorg(t) \/ ProposeRelay(t)
  \/ \E w \in Wallets : SyncWallet(w)
  \/ \E k \in Late : Deposit(k)
  \/ Restart

Spec == Init /\ [][Next]_vars

-----------------------------------------------------------------------------
(* Properties *)

\* The sweeps of the migration itself, as opposed to relays.
SweepKinds   == {"migration", "resweep"}
SentSweeps   == {t \in Txs : proposal[t].kind \in SweepKinds
                             /\ proposal[t].status = "broadcast"}

\* The three columns never contradict one another: a sweep is recorded just
\* while the version is complete, it is one the broadcast handler has marked as
\* sent, and a confirmation is latched only of a complete version
\* (set_migration_complete, latch_migration_sweep_height, reconcile_migration).
ColumnsAgree ==
  /\ migrationStatus = "complete" <=> sweepTxid # NoTx
  /\ sweepTxid # NoTx => sweepTxid \in SentSweeps
  /\ latched => migrationStatus = "complete"

\* A version is reopened for a resweep only on the evidence of a sweep that
\* was sent and has been in a block, never for one that is slow to confirm
\* (reconcile_reverted_migrations).
ReopenedOnEvidence ==
  latched \/ migrationStatus = "pending" => SentSweeps \cap everConfirmed # {}

\* When a sync pass ends and nothing has moved since it began, a complete
\* version has its confirmation latched just if its sweep is in a block, however
\* other passes and broadcasts were interleaved with it (sync_lineage).
PassSettles ==
  \A r \in calm :
    Free(r) /\ migrationStatus = "complete" =>
      (latched <=> node[sweepTxid] = "confirmed")

\* The columns, the handlers interleaved one at a time, are a record of sweeps:
\* sent, then seen in a block, then reopened when the block is lost.
Record ==
  INSTANCE SweepRecord WITH
    stage <- IF migrationStatus = "complete"
             THEN IF latched THEN "seen" ELSE "sent"
             ELSE IF migrationStatus = "pending" THEN "reopened" ELSE "none",
    sweep <- sweepTxid, mined <- everConfirmed, lost <- everLost
ImplementsSweepRecord == Record!Spec

\* What a resweep hides from the base wallet while it builds is gone when its
\* request has ended: migrations.rs drops the cached wallet "so no handler
\* observes that build-only state".
BuildStateDiscarded == hidden # {} => \E r \in Requests : request[r].step = "evict"

=============================================================================
