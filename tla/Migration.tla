------------------------------ MODULE Migration ------------------------------
(***************************************************************************)
(* One lineage of federation versions and the migrations that move it      *)
(* forward: migrate_post and cancel_post of src/handlers/migrations.rs,    *)
(* and what proposals.rs does when a migration's sweep is broadcast, with  *)
(* the unique indexes of the database as the only mutual exclusion.        *)
(*                                                                         *)
(* UNIQUE (lineage_id, version_index) makes the index of a version its     *)
(* identity, and since every migration of base b mints version b + 1, a    *)
(* stored migration is identified by the version it mints.  How a sweep    *)
(* collects its signatures is Proposal's subject: here a submission writes *)
(* a full or a partial PSBT, as it may, over whatever the row has become.  *)
(***************************************************************************)
EXTENDS Integers

CONSTANTS
  LastVersion,  \* bound: no migration is started from this version
  Chains,       \* {"bitcoin"}, {"elements"}, or both for a dual-chain vault
  Coins,        \* the deposits that may reach the lineage
  ChainOf,      \* the chain each deposit is on
  Requests,     \* slots for requests being served at the same time
  MayStop,      \* can a request be abandoned between two of its awaits?
  Unseen,       \* where a coin is before its deposit
  Spent         \* where a coin is once an ordinary send has spent it

ASSUME MigrationAssumption ==
  /\ LastVersion \in Nat
  /\ Chains \in {{"bitcoin"}, {"elements"}, {"bitcoin", "elements"}}
  /\ ChainOf \in [Coins -> Chains]
  /\ MayStop \in BOOLEAN
  /\ Unseen \notin Nat /\ Spent \notin Nat /\ Unseen # Spent

Versions  == 0..LastVersion
DualChain == Chains = {"bitcoin", "elements"}

VARIABLES
  version,    \* federations.status by version_index, "none" before the insert
  migration,  \* federation_migrations.status by the version it mints
  sweep,      \* the kind = 'migration' proposals, by version minted and chain
  sweptVia,   \* the chain of federations.migration_sweep_txid, {} for NULL
  coinAt,     \* the version whose wallet holds each coin
  request,    \* the handler instances being executed
  sent        \* history: by version, the chains whose sweep the node accepted

dbVars    == <<version, migration, sweep, sweptVia>>
chainVars == <<coinAt, sent>>
vars      == <<dbVars, chainVars, request>>

\* "open" stands for proposed and signing; extracted tells whether
\* finalized_tx_hex is set, which no later write of a status clears.
Sweep   == [status : {"none", "open", "finalized", "broadcast", "cancelled"},
            extracted : BOOLEAN, inputs : SUBSET Coins]
NoSweep == [status |-> "none", extracted |-> FALSE, inputs |-> {}]

\* A slot: the next statement, the version being minted, the chains whose
\* sweep is still to be inserted or is being worked on, and the coins that
\* sweep was built from.
Steps == {"idle", "create", "insert", "bump", "update", "extract", "cancel",
          "send", "mark", "lookup", "enact", "complete"}
Request == [step : Steps, target : Versions, todo : SUBSET Chains, inputs : SUBSET Coins]
Idle == [step |-> "idle", target |-> 0, todo |-> {}, inputs |-> {}]

TypeOK ==
  /\ version \in [Versions -> {"none", "pending", "active", "superseded", "abandoned"}]
  /\ migration \in [Versions -> {"none", "proposed", "enacted", "cancelled"}]
  /\ sweep \in [Versions -> [Chains -> Sweep]]
  /\ sweptVia \in [Versions -> SUBSET Chains]
  /\ coinAt \in [Coins -> Versions \cup {Unseen, Spent}]
  /\ request \in [Requests -> Request]
  /\ sent \in [Versions -> SUBSET Chains]

Free(r)       == request[r].step = "idle"
Goto(r, step) == request' = [request EXCEPT ![r].step = step]
Finish(r)     == request' = [request EXCEPT ![r] = Idle]

\* The coins a wallet drains: those of the base version on one chain.
Held(v, c) == {k \in Coins : coinAt[k] = v /\ ChainOf[k] = c}

Init ==
  /\ version = [v \in Versions |-> IF v = 0 THEN "active" ELSE "none"]
  /\ migration = [v \in Versions |-> "none"]
  /\ sweep = [v \in Versions |-> [c \in Chains |-> NoSweep]]
  /\ sweptVia = [v \in Versions |-> {}]
  /\ coinAt = [k \in Coins |-> Unseen]
  /\ request = [r \in Requests |-> Idle]
  /\ sent = [v \in Versions |-> {}]

-----------------------------------------------------------------------------
(* migrate_post *)

NoneInFlight == \A v \in Versions : migration[v] # "proposed"

\* Mutant: load_active_current does not look at the status.
RequestFromAny(r, b) ==
  /\ Free(r)
  /\ b < LastVersion
  /\ NoneInFlight
  /\ DualChain \/ \E c \in Chains : Held(b, c) # {}
  /\ request' = [request EXCEPT ![r] =
       [step |-> "create", target |-> b + 1, todo |-> {c \in Chains : Held(b, c) # {}},
        inputs |-> IF DualChain THEN {} ELSE {k \in Coins : coinAt[k] = b}]]
  /\ UNCHANGED <<dbVars, chainVars>>

\* load_active_current and ensure_no_inflight, then the balances.  A vault on
\* one chain builds its sweep here, and stops if there is nothing to sweep.
RequestMigration(r, b) ==
  /\ Free(r)
  /\ b < LastVersion
  /\ version[b] = "active"
  /\ NoneInFlight
  /\ LET funded == {c \in Chains : Held(b, c) # {}}
     IN  /\ DualChain \/ funded # {}
         /\ request' = [request EXCEPT ![r] =
              [step |-> "create", target |-> b + 1, todo |-> funded,
               inputs |-> IF DualChain THEN {}
                          ELSE {k \in Coins : coinAt[k] = b}]]
  /\ UNCHANGED <<dbVars, chainVars>>

\* Mutant: no UNIQUE (lineage_id, version_index).
CreateAgain(r) ==
  /\ request[r].step = "create"
  /\ NoneInFlight
  /\ version' = [version EXCEPT ![request[r].target] = "pending"]
  /\ migration' = [migration EXCEPT ![request[r].target] = "proposed"]
  /\ Goto(r, IF request[r].todo = {} THEN "bump" ELSE "insert")
  /\ UNCHANGED <<sweep, sweptVia, chainVars>>

\* db::create_pending_migration.  The insert is refused if the lineage has a
\* migration in flight or a version of this index already.
CreatePending(r) ==
  /\ request[r].step = "create"
  /\ LET v == request[r].target
     IN  IF NoneInFlight /\ version[v] = "none"
         THEN /\ version' = [version EXCEPT ![v] = "pending"]
              /\ migration' = [migration EXCEPT ![v] = "proposed"]
              /\ Goto(r, IF request[r].todo = {} THEN "bump" ELSE "insert")
         ELSE /\ Finish(r)
              /\ UNCHANGED <<version, migration>>
  /\ UNCHANGED <<sweep, sweptVia, chainVars>>

\* The dual-chain path inserts the Elements sweep first.
NextChain(todo) == IF "elements" \in todo THEN "elements" ELSE "bitcoin"

\* Mutant: the sweep of one chain is built from the coins of both.
InsertAnyChain(r) ==
  /\ request[r].step = "insert"
  /\ LET v == request[r].target
         c == NextChain(request[r].todo)
     IN  /\ sweep' = [sweep EXCEPT ![v][c] =
                        [status |-> "open", extracted |-> FALSE,
                         inputs |-> {k \in Coins : coinAt[k] = v - 1}]]
         /\ IF request[r].todo = {c}
            THEN Finish(r)
            ELSE request' = [request EXCEPT ![r].todo = @ \ {c}]
  /\ UNCHANGED <<version, migration, sweptVia, chainVars>>

\* db::insert_migration_proposal.  A dual-chain vault builds each sweep only
\* now, from what the base version still holds.
InsertSweep(r) ==
  /\ request[r].step = "insert"
  /\ LET v == request[r].target
         c == NextChain(request[r].todo)
         inputs == IF DualChain THEN Held(v - 1, c) ELSE request[r].inputs
     IN  /\ inputs # {}
         /\ sweep' = [sweep EXCEPT ![v][c] =
                        [status |-> "open", extracted |-> FALSE, inputs |-> inputs]]
         /\ IF request[r].todo = {c}
            THEN Finish(r)
            ELSE request' = [request EXCEPT ![r].todo = @ \ {c}]
  /\ UNCHANGED <<version, migration, sweptVia, chainVars>>

\* A build of a dual-chain vault that finds nothing left to drain, or less
\* than fee and dust, ends the request; what it inserted before stays.
BuildFails(r) ==
  /\ request[r].step = "insert"
  /\ DualChain
  /\ Finish(r)
  /\ UNCHANGED <<dbVars, chainVars>>

-----------------------------------------------------------------------------
(* The version flip *)

\* Mutants: no one-active-per-lineage index; the vocabulary of another column.
ActivateBlindly(v) == TRUE
ActivateComplete(v) ==
  /\ version' = [version EXCEPT ![v - 1] = "superseded", ![v] = "active"]
  /\ migration' = [migration EXCEPT ![v] = "complete"]

\* db::enact_version_transition, one transaction.  It reads no status; the
\* one-active-per-lineage index rolls it back if another version is active.
CanActivate(v) == \A u \in Versions \ {v - 1, v} : version[u] # "active"
Activate(v) ==
  /\ version' = [version EXCEPT ![v - 1] = "superseded", ![v] = "active"]
  /\ migration' = [migration EXCEPT ![v] = "enacted"]
EnactTransition(v) == IF CanActivate(v) THEN Activate(v) ELSE UNCHANGED <<version, migration>>

\* migrate_post's last step for a dual-chain vault with no funds at all.
EnactUnfunded(r) ==
  /\ request[r].step = "bump"
  /\ EnactTransition(request[r].target)
  /\ Finish(r)
  /\ UNCHANGED <<sweep, sweptVia, chainVars>>

-----------------------------------------------------------------------------
(* The sweep proposals *)

\* submit_signature and submit_partial_psbt, up to the merge.
RequestSign(r, v, c) ==
  /\ Free(r)
  /\ sweep[v][c].status = "open"
  /\ request' = [request EXCEPT ![r] =
       [step |-> "update", target |-> v, todo |-> {c}, inputs |-> sweep[v][c].inputs]]
  /\ UNCHANGED <<dbVars, chainVars>>

\* The chain of the one sweep a request works on.
Working(r, v, c) == v = request[r].target /\ c \in request[r].todo

\* An UPDATE of that sweep's row whose WHERE clause looks at the id only.
WriteSweep(r, status, extracted) ==
  sweep' = [v \in Versions |-> [c \in Chains |->
              IF Working(r, v, c)
              THEN [sweep[v][c] EXCEPT !.status = status, !.extracted = extracted \/ @]
              ELSE sweep[v][c]]]

\* db::update_proposal_psbt, with a merge that is full or not.
UpdatePsbt(r) ==
  /\ request[r].step = "update"
  /\ \/ WriteSweep(r, "open", FALSE) /\ Finish(r)
     \/ WriteSweep(r, "finalized", FALSE) /\ Goto(r, "extract")
  /\ UNCHANGED <<version, migration, sweptVia, chainVars>>

\* finalize_and_extract and db::finalize_proposal.
FinalizeSweep(r) ==
  /\ request[r].step = "extract"
  /\ WriteSweep(r, "finalized", TRUE)
  /\ Finish(r)
  /\ UNCHANGED <<version, migration, sweptVia, chainVars>>

\* proposals::cancel on a sweep, up to its guard: the migration record is not
\* looked at.
RequestCancelSweep(r, v, c) ==
  /\ Free(r)
  /\ sweep[v][c].status \in {"open", "finalized"}
  /\ request' = [request EXCEPT ![r] =
       [step |-> "cancel", target |-> v, todo |-> {c}, inputs |-> sweep[v][c].inputs]]
  /\ UNCHANGED <<dbVars, chainVars>>

\* db::cancel_proposal.
CancelSweep(r) ==
  /\ request[r].step = "cancel"
  /\ WriteSweep(r, "cancelled", FALSE)
  /\ Finish(r)
  /\ UNCHANGED <<version, migration, sweptVia, chainVars>>

\* Mutant: the version flips before the sweep is sent.
BroadcastFlipsFirst(r, v, c) ==
  /\ Free(r)
  /\ sweep[v][c].status = "finalized" /\ sweep[v][c].extracted
  /\ request' = [request EXCEPT ![r] =
       [step |-> "lookup", target |-> v, todo |-> {c}, inputs |-> sweep[v][c].inputs]]
  /\ UNCHANGED <<dbVars, chainVars>>

\* proposals::broadcast, up to its guards.
RequestBroadcast(r, v, c) ==
  /\ Free(r)
  /\ sweep[v][c].status = "finalized" /\ sweep[v][c].extracted
  /\ request' = [request EXCEPT ![r] =
       [step |-> "send", target |-> v, todo |-> {c}, inputs |-> sweep[v][c].inputs]]
  /\ UNCHANGED <<dbVars, chainVars>>

\* broadcast_raw: the node takes a sweep whose inputs are unspent, or one it
\* still has in its mempool.
BroadcastSweep(r) ==
  /\ request[r].step = "send"
  /\ LET v == request[r].target
     IN  /\ \/ \A k \in request[r].inputs : coinAt[k] = v - 1
            \/ \A k \in request[r].inputs : coinAt[k] = v
         /\ coinAt' = [k \in Coins |-> IF k \in request[r].inputs THEN v ELSE coinAt[k]]
         /\ sent' = [sent EXCEPT ![v] = @ \cup request[r].todo]
  /\ Goto(r, "mark")
  /\ UNCHANGED dbVars

\* The node refuses a sweep with a spent input, or one already mined.
RefuseSweep(r) ==
  /\ request[r].step = "send"
  /\ \E k \in request[r].inputs : coinAt[k] # request[r].target - 1
  /\ Finish(r)
  /\ UNCHANGED <<dbVars, chainVars>>

\* Mutant: broadcasting a sweep is treated like an ordinary send.
MarkOnly(r) ==
  /\ request[r].step = "mark"
  /\ WriteSweep(r, "broadcast", FALSE)
  /\ Finish(r)
  /\ UNCHANGED <<version, migration, sweptVia, chainVars>>

\* db::mark_proposal_broadcast.
MarkBroadcast(r) ==
  /\ request[r].step = "mark"
  /\ WriteSweep(r, "broadcast", FALSE)
  /\ Goto(r, "lookup")
  /\ UNCHANGED <<version, migration, sweptVia, chainVars>>

\* Mutant: the status condition is negated.
LookupEnacted(r) ==
  /\ request[r].step = "lookup"
  /\ IF migration[request[r].target] = "enacted" THEN Goto(r, "enact") ELSE Finish(r)
  /\ UNCHANGED <<dbVars, chainVars>>

\* db::migration_enactment_for_proposal: only a proposed migration is enacted.
LookupEnactment(r) ==
  /\ request[r].step = "lookup"
  /\ IF migration[request[r].target] = "proposed" THEN Goto(r, "enact") ELSE Finish(r)
  /\ UNCHANGED <<dbVars, chainVars>>

\* Mutant: set_migration_complete is not called.
EnactUnrecorded(r) ==
  /\ request[r].step = "enact"
  /\ EnactTransition(request[r].target)
  /\ Finish(r)
  /\ UNCHANGED <<sweep, sweptVia, chainVars>>

\* Back in proposals::broadcast: a rolled back transition ends the request.
EnactBroadcast(r) ==
  /\ request[r].step = "enact"
  /\ EnactTransition(request[r].target)
  /\ IF CanActivate(request[r].target) THEN Goto(r, "complete") ELSE Finish(r)
  /\ UNCHANGED <<sweep, sweptVia, chainVars>>

\* db::set_migration_complete on the base version, with this sweep's txid.
CompleteMigration(r) ==
  /\ request[r].step = "complete"
  /\ sweptVia' = [sweptVia EXCEPT ![request[r].target - 1] = request[r].todo]
  /\ Finish(r)
  /\ UNCHANGED <<version, migration, sweep, chainVars>>

-----------------------------------------------------------------------------

\* Mutant: without cancelling the sweeps.
CancelKeepsSweeps(r, v) ==
  /\ Free(r)
  /\ migration[v] # "none"
  /\ version' = [version EXCEPT ![v] = IF @ = "pending" THEN "abandoned" ELSE @]
  /\ migration' = [migration EXCEPT ![v] = "cancelled"]
  /\ UNCHANGED <<sweep, sweptVia, chainVars, request>>

\* cancel_post: db::cancel_migration in one transaction, for a migration in
\* any status.
CancelMigration(r, v) ==
  /\ Free(r)
  /\ migration[v] # "none"
  /\ version' = [version EXCEPT ![v] = IF @ = "pending" THEN "abandoned" ELSE @]
  /\ sweep' = [sweep EXCEPT ![v] = [c \in Chains |->
                 IF sweep[v][c].status \in {"open", "finalized"}
                 THEN [sweep[v][c] EXCEPT !.status = "cancelled"]
                 ELSE sweep[v][c]]]
  /\ migration' = [migration EXCEPT ![v] = "cancelled"]
  /\ UNCHANGED <<sweptVia, chainVars, request>>

\* The browser disconnects, the process dies, or a statement fails.
Stop(r) ==
  /\ MayStop
  /\ ~Free(r)
  /\ Finish(r)
  /\ UNCHANGED <<dbVars, chainVars>>

\* Somebody pays an address of a stored version: those of a version in
\* preparation, or given up, are shown to its members too.
Deposit(k, v) ==
  /\ coinAt[k] = Unseen
  /\ version[v] # "none"
  /\ coinAt' = [coinAt EXCEPT ![k] = v]
  /\ UNCHANGED <<dbVars, request, sent>>

\* An ordinary send from the version that holds the coin reaches the network.
Spend(k) ==
  /\ coinAt[k] \in Versions
  /\ coinAt' = [coinAt EXCEPT ![k] = Spent]
  /\ UNCHANGED <<dbVars, request, sent>>

Advance(r) ==
  \/ CreatePending(r)
  \/ InsertSweep(r)
  \/ BuildFails(r)
  \/ EnactUnfunded(r)
  \/ UpdatePsbt(r)
  \/ FinalizeSweep(r)
  \/ CancelSweep(r)
  \/ BroadcastSweep(r)
  \/ RefuseSweep(r)
  \/ MarkBroadcast(r)
  \/ LookupEnactment(r)
  \/ EnactBroadcast(r)
  \/ CompleteMigration(r)

Receive(r) ==
  \E v \in Versions :
    \/ RequestMigration(r, v)
    \/ CancelMigration(r, v)
    \/ \E c \in Chains :
         RequestSign(r, v, c) \/ RequestCancelSweep(r, v, c) \/ RequestBroadcast(r, v, c)

Next ==
  \/ \E r \in Requests : Receive(r) \/ Advance(r) \/ Stop(r)
  \/ \E k \in Coins : Spend(k) \/ \E v \in Versions : Deposit(k, v)

Spec == Init /\ [][Next]_vars

\* The runtime keeps polling a handler that nobody abandons.
FairSpec == Spec /\ \A r \in Requests : WF_vars(Advance(r))

-----------------------------------------------------------------------------
(* What holds with any number of requests at once, abandoned anywhere *)

\* Exactly one version is current, every earlier one is superseded, and at
\* most one later version exists: the one being prepared, or given up.  Stale
\* reads, late enactments and cancellations never break the succession.
LineageShape ==
  \E current \in Versions :
    \A v \in Versions :
      /\ version[v] = "active" <=> v = current
      /\ version[v] = "superseded" <=> v < current
      /\ v > current + 1 => version[v] = "none"

\* A migration in flight amends the current version, though its request read
\* that version as current only several awaits before storing the migration.
InFlightAmendsCurrent ==
  \A v \in Versions :
    migration[v] = "proposed" =>
      v # 0 /\ version[v] = "pending" /\ version[v - 1] = "active"

\* A version becomes current only when the members of the previous one have
\* signed a sweep to it that the node accepted, or nothing was to be swept,
\* whatever late submissions and cancellations made of the sweep's row since.
ActivatedByConsent ==
  [][\A v \in Versions :
       version[v] # "active" /\ version'[v] = "active" =>
         \/ \E c \in sent[v] : sweep[v][c].extracted
         \/ DualChain /\ \A c \in Chains : sweep[v][c].status = "none"]_vars

\* Until the node accepts a sweep, each coin it was built from is still in the
\* wallet of the base version or was spent by an ordinary send; from then on
\* none of them is ever held by the base version or an earlier one again.
\* Builds from stale reads, late sends and second acceptances keep to this.
SweepsAndCoinsAgree ==
  \A v \in Versions \ {0}, c \in Chains : \A k \in sweep[v][c].inputs :
    coinAt[k] # Spent => coinAt[k] \in (IF c \in sent[v] THEN v..LastVersion ELSE {v - 1})

\* Why the succession survives stale requests: whatever a handler goes on to
\* store was minted on a version that is, or once was, the current one.
RowsStored ==
  \A v \in Versions :
    migration[v] # "none" \/ (\E c \in Chains : sweep[v][c].status # "none")
      => v # 0 /\ version[v] # "none"
SlotsStored ==
  \A r \in Requests :
    LET v == request[r].target
    IN  /\ request[r].step = "create" =>
             v # 0 /\ version[v - 1] \in {"active", "superseded"}
        /\ request[r].step \notin {"idle", "create"} => v # 0 /\ version[v] # "none"
TargetsStored == RowsStored /\ SlotsStored

\* Why a flip has consent: only the request that minted a version inserts its
\* sweeps, each once, only an extracted transaction is sent, and only a sent
\* sweep leads a request to the flip.
Minting(r) == request[r].step \in {"insert", "bump"}
SlotEarned(r) ==
  LET v == request[r].target
      todo == request[r].todo
  IN  /\ request[r].step = "create" => DualChain \/ todo # {}
      /\ request[r].step \notin {"idle", "create", "bump"} => todo # {}
      /\ request[r].step = "insert" => \A c \in todo : sweep[v][c].status = "none"
      /\ request[r].step \in {"update", "extract", "cancel", "send", "mark"} =>
           \A c \in todo : sweep[v][c].status # "none"
      /\ request[r].step = "send" => \A c \in todo : sweep[v][c].extracted
      /\ request[r].step \in {"mark", "lookup", "enact", "complete"} => todo \subseteq sent[v]
      /\ request[r].step = "bump" =>
           DualChain /\ \A c \in Chains : sweep[v][c].status = "none"
SentExtracted ==
  \A v \in Versions, c \in Chains :
    /\ sweep[v][c].status = "broadcast" => c \in sent[v]
    /\ c \in sent[v] => sweep[v][c].extracted
    /\ sweep[v][c].extracted => sweep[v][c].status # "none"
OneMinter ==
  \A r, s \in Requests :
    r # s /\ Minting(r) /\ Minting(s) => request[r].target # request[s].target
FlipsEarned == OneMinter /\ SentExtracted /\ \A r \in Requests : SlotEarned(r)

-----------------------------------------------------------------------------
(* What holds when requests are served one at a time and none is abandoned *)

AtRest == \A r \in Requests : Free(r)

\* A migration is abandoned before broadcast: no sweep to an abandoned version
\* has reached the network.
AbandonedBeforeBroadcast ==
  \A v \in Versions : version[v] = "abandoned" => sent[v] = {}

\* An `enacted' migration is one whose transaction was broadcast: between
\* requests, no sweep is with the node and its version not current or past.
BroadcastIsEnacted ==
  AtRest => \A v \in Versions : sent[v] # {} => version[v] \in {"active", "superseded"}

\* Once a sweep was sent, the version it left is recorded as swept, which is
\* what a later reconciliation with the chain starts from.
SentSweepIsRecorded ==
  AtRest => \A v \in Versions : sent[v] # {} => sweptVia[v - 1] # {}

\* The node's acceptance of a sweep is always followed by the version flip.
AcceptedSweepIsEnacted ==
  \A v \in Versions \ {0} :
    (\E r \in Requests : request[r].step = "mark" /\ request[r].target = v)
      ~> version[v] \in {"active", "superseded"}

-----------------------------------------------------------------------------
(* What the repository says and the code does not do *)

\* Cancelling a migration cancels its sweep proposals: once no request is
\* under way, none of them can be signed or sent any more.
CancelClosesSweeps ==
  AtRest => \A v \in Versions, c \in Chains :
    migration[v] = "cancelled" => sweep[v][c].status \notin {"open", "finalized"}

\* Cancelling a migration frees the lineage to start a new one: the version
\* that migration would mint does not exist yet.
CancelFreesLineage ==
  AtRest /\ NoneInFlight =>
    \A v \in Versions \ {0} : version[v - 1] = "active" => version[v] = "none"

=============================================================================
