# A formal model of test-app-xpub

test-app-xpub is an Axum server for multisig federations: members register
hardware wallets, a federation of them owns a Bitcoin wallet, an Elements wallet
or both, and spending is proposed, signed in browsers, merged on the server and
broadcast. A federation's membership changes by *migration*: a new version is
minted, the old version's coins are swept to it, and the version flips when the
sweep is broadcast.

Every handler is an `async fn` that runs a sequence of single SQL statements,
wallet operations under a mutex, and calls to a node. Almost none of it is one
database transaction, and a handler whose client disconnects is dropped at its
next `.await`. What this development asks is therefore mostly one question:
*what do the rows say when requests interleave between two statements, or stop
between them?*

## Inventory

| Part | State | Operations | What is hard, and what makes it correct |
|---|---|---|---|
| **Candidate-send proposals** `handlers/proposals.rs`, `db.rs`, `0003_proposals.sql` | `transaction_proposals` (status, PSBT, final transaction), `transaction_signatures`, `transaction_rejections` | sign-data, submit (Trezor signatures, or a Jade/Ledger PSBT), reject, cancel, broadcast | Read, merge in memory, unconditional overwrite; insert and rewrite are two statements. No signature is used that is not recorded, nothing under the threshold is stored or sent, accepted work is kept, final states are final. |
| **Versions and migrations** `handlers/migrations.rs`, `db.rs`, `0005`–`0007` | `federations` (lineage, index, status), `federation_migrations`, sweep proposals | start (one chain or two), broadcast-and-enact, cancel | Stale reads guarded only by unique indexes; sweep stored after its migration; enactment after acceptance by the node. One current version, a succession, no flip without a sent sweep, no sweep sent to a version that is given up, every chain swept. |
| **Reorg reconciliation, relays, resweeps** `wallet.rs` `sync_lineage`, `migrations.rs`, `0008`–`0010` | `migration_status`, `migration_sweep_txid`, `migration_sweep_confirmed_height`; wallet graphs | latch, revert, relay, resweep, re-completion | Blocks and reorgs between the reads of a pass; two passes at once; in-memory eviction. The columns agree, reopening has evidence, a pass ends with the truth. |
| **Bitcoin wallet manager** `wallet.rs` | per-version cache of BDK wallets, an aggregate changeset each, the row it is persisted to | `load_or_init`, `sync` (merge or replace), reveal, `persist_delta`, `rescan`, `evict_cache` | Two instances over one row, writes out of order, an address handed out but not persisted. No address reused, no persisted knowledge lost. |
| **Coin selection and creation** `proposals.rs`, `wallet.rs`, `db.rs`, `federations.rs`, `addresses.rs` | unspent outputs, inputs of open proposals | create, send-max, `sum_inflight_inputs_for_federation`, the pages that subtract it | Nothing reserves a coin: two proposals may share one, and a page reads total, rows and balance under different locks. No page promises a coin that a proposal in flight holds. |
| **Elements wallet manager** `elements_wallet.rs`, `0004`, `0011`, `0012` | LWK wallets, address index | load, sync, balances, next address, build, combine and finalize a PSET | Several assets, one of which pays for all; a send stores no total. A sweep takes every asset. |
| **Visibility and rosters** `db.rs`, `handlers/federations.rs`, `home.rs` | `federation_members`, `migration_changes` | `visible_versions_for_user`, `current_signer_status`, `find_signer_for_user_at_path`, roster plans | Each page asks several queries while versions flip. Nobody sees or sends more than a version that was current while the request was served let them; whoever stays keeps one device. |
| **New federation, onboarding** `new_federation.rs`, `onboard.rs` | users, signers, federations, members | one transaction, or one insert | What they leave is what every later migration resolves. A threshold its members' devices can meet. |
| **Sessions and authentication, configuration, error mapping, device payloads and browser code** | sessions, none | – | Library calls, formatting, user interface: not modelled. |

Components interact in four ways. Handlers share the PostgreSQL rows. Broadcast
is the single place where the proposal machinery calls the migration machinery
(`proposals::broadcast` looks up an enactment, flips the versions and completes
the base version's columns). The Federation page calls `sync_lineage`, which
reads all wallets of a lineage and writes the columns back. And wallets are
shared through a cache, so what one handler does to one in memory is seen by the
others.

The hazards are listed, each at its line and with the properties aimed at it, in
`PROJECT.json`.

## Modules

| Module | What it is |
|---|---|
| `Proposal` | one row of `transaction_proposals`, all handlers that write it |
| `CosignerConsent` | what a federation promises about one transaction: it goes out only with a quorum's recorded consent |
| `ProposalLifecycle` | the status life cycle, one atomic step per request |
| `Migration` | one lineage of versions, its migrations and their sweeps |
| `Reconcile` | the migration columns of one base version against a chain that reorganises |
| `SweepRecord` | what those columns promise: sent, seen, reopened |
| `WalletStore` | one federation's Bitcoin wallet: its instances in memory, their aggregates, and the row they share |
| `Roster` | signers, versions and their members, and the queries asked of them |
| `Coins` | what the versions own on both chains, what their wallets last saw of it, and what may be selected |
| `Vault` | composes `Roster` and `Coins`: a lineage from its first key on, its proposals and its pages |
| `MCProposal`, `MCMigration`, `MCReconcile`, `MCWalletStore`, `MCVault` | values for model checking |
| `ProposalProofs` | theorems about `Proposal`: consent under any interleaving, the life cycle when requests are served one at a time |
| `MigrationProofs` | theorems about `Migration`: the succession of versions; where the coins are |
| `ReconcileProofs` | theorems about `Reconcile`: the columns, the evidence, undisturbed passes, the refinement of `SweepRecord` |
| `WalletStoreProofs`, `WalletRowProofs` | theorems about `WalletStore`: what an instance remembers; what the row keeps, and which coins it may lack |
| `VaultProofs`, `VaultRequestProofs`, `VaultPageProofs` | theorems about `Vault`: rosters; privileges and swept coins; the sums a page shows |

The component modules have one shape. A set of **request slots** (`Requests`)
holds the handler instances being served; a slot is a record of the next
statement (`step`) and what the handler carries over its awaits (a merged PSBT,
a transaction, the inputs of a sweep). A handler's guards and reads are one
action that fills a slot; each later statement that writes is an action of its
own, in source order; an early return frees the slot. With two slots any two
handlers interleave; with one they run one at a time. `MayStop` adds the
abandonment of a request between any two statements. Nothing in a slot survives
it, as nothing of a dropped handler does.

Definitions called *Mutant* are the plausible bugs against which each property
is tested; no action of a specification uses them.

### Proposal

A PSBT is the set of cosigners whose signatures it carries, so combining is
union; the probe that decides on finalizing asks for `Threshold` signatures. A
raw transaction is the set it was extracted from, `{}` for NULL. `served` holds
every PSBT a browser was given, since a Jade or Ledger returns *that* PSBT with
a signature added, however old it is, while a Trezor's signatures are injected
into the PSBT the handler has just read (`Partial`). That the posted PSBT
carries its user's signature and no other is assumed of the browser: the handler
does not look (`proposals.rs:753-756`), and a browser that returned something
else would be recorded as having signed. `SubmitSignature` covers both endpoints
up to the merge; then `InsertSignature`, `UpdatePsbt` and `FinalizeProposal`
follow as in the code. `RequestCancel`/`CancelProposal` and
`RequestBroadcast`/`BroadcastRaw`/`MarkBroadcast` split the checks of those
handlers from their unconditional writes. The node may take, refuse, mine or
drop the transaction, or learn of a conflict.

### Migration

The unique `(lineage_id, version_index)` lets a version be its index, and a
migration the version it mints. `RequestMigration` is `migrate_post` up to its
first write, including the single-chain sweep, which is built there;
`CreatePending` succeeds or fails by the indexes of the database; `InsertSweep`
stores one sweep per funded chain, Elements first, each built only then for a
dual-chain vault, whose request ends where a build does not succeed
(`BuildFails`); `EnactUnfunded` is the flip without a sweep of an empty
dual-chain vault.

A sweep is signed and cancelled as any proposal is, and the writes look at no
status: `RequestSign`, `UpdatePsbt` and `FinalizeSweep` are a submission,
`RequestCancelSweep` and `CancelSweep` the proposer's cancel, so either may set
back what another request has done meanwhile, the mark of a broadcast included.
`RequestBroadcast`, `BroadcastSweep`, `MarkBroadcast`, `LookupEnactment`,
`EnactBroadcast` and `CompleteMigration` are `proposals::broadcast`. Since the
row may be overwritten, what the properties say of sending they say of `sent`, a
history variable: the chains on which the node accepted a version's sweep.
`CancelMigration` is one database transaction in the code and one action here.
Ordinary sends (`Spend`) happen at any time, and so do deposits, to any stored
version: the addresses of a version in preparation, or of one given up, are
shown to its members like any other.

### Reconcile

One superseded base version and its successor. A transaction is in no place, in
the mempool or in a block, and each wallet's graph is a copy of that taken when
it last synced. A pass is `sync_lineage`: `SyncBase`, `SyncCurrent`,
`LoadCandidate`, `ReadBase`, `ReadCurrent`, then `Latch`, `Revert` or
`LeaveAlone`, whose `WHERE` clauses are evaluated against the row as it then is.
A resweep is `ResyncBase`, `BuildResweep` (evict a stranded transaction from the
cached wallet, drain what that frees), `EvictCache`, `InsertResweep`; `hidden`
is the in-memory eviction. Heights are abstracted to NULL or not, because the
code compares them with nothing. `everConfirmed`, `everLost` and `calm` are
history variables that no action reads.

### WalletStore

A changeset is a set of facts (the descriptor, checkpoints, coins, revealed
addresses) and merging is union. An **instance** is a `FederationWallet`: its
wallet, the stage BDK fills, the aggregate changeset. Every operation is the
same chain of steps, each under a lock or a statement of its own: `load_or_init`
(`Arrive`, `ReadRow`, `WriteInitial`, `InsertCache`), the wallet under its lock
(`Sync`, `SyncRebuilt`, `SyncFails`, `Reveal`, `RevealFirst`, `Build`,
`BuildFails`, `ComputeDrain`, `BuildResweep`), the aggregate (`Merge` or
`Replace`), the `UPDATE` (`Write`, `WriteFails`), and what follows
(`InsertProposal`, `EvictCache`). `RescanWalk` and `RescanWrite` are
`examples/rescan_federation.rs`, a process of its own with a cache of its own.
An instance nobody refers to is freed, so that its identity can be used again.
What `emvault-core` computes from the node is external: `Walk` (RPC: block by
block from the wallet's tip), `Scan` (nodeless: the scripts revealed so far) and
`Rebuild`. `behind`, `late`, `lost`, `overtaken`, `dropped` (coins a request let
go of before they reached the row: it ended before its write, or it was a
preview or a resweep that threw the stage away) and `rescanned` are history that
no action reads.

### Roster, Coins and Vault

`Roster` holds the rows of `signers`, `federations` and `federation_members` for
one lineage, the queries as operators, and onboarding, founding and the drafting
of a successor as actions. `Coins` holds the outputs: owner, asset, keychain,
value, and what the owner's wallet last made of each (`seen`). A sync copies the
truth into `seen`; everything a page or a build uses is computed from `seen`,
which is how cached wallets go stale. BDK's and LWK's algorithms are a choice
among the selections that suffice. `Vault` puts handlers on top. `create` is
`RequestCreate`, `CheckStatus`, `Build`, `Describe`, `InsertProposal`;
`migrate_post` is `Migrate`, `Describe` and `Store`, then `BuildSweep`,
`Describe` and `OpenSweep` for each funded chain of a dual-chain vault, or
`FlipUnfunded`; a build may fail between them (`SweepFails`) and a browser hang
up anywhere (`Stop`), which leaves the version and the sweeps stored so far. The
send, receive and federation pages are chains of the same reads (`ReserveTotal`,
`SyncPage`, `ReadBalance`, `ReadVisible`, `ListVersions`, `LockRecipient`,
`Panel`, `ExternalRows`, `ChangeRows`) in the order each handler makes them;
`Show` and `MaxSpend` sync and answer, `OpenSend` syncs before it reads
anything, and `Detail` asks no wallet. `Restart` forgets every request under
way; a Bitcoin wallet then reloads what it persisted, while an Elements wallet
is rebuilt from its descriptor and has seen nothing. What `Proposal` and
`Migration` follow statement by statement is one action here (`Broadcast` with
its flip, `CancelProposal`, `CancelMigration`), because the question is another
one: what a request makes of rosters and coins it read a while ago. A refused
request changes nothing and is not a step unless it was already under way.
`heads`, `counted`, `moved`, `known` and `cutShort` are history: the versions
that were current while a request was served, the proposals its total covers,
the coins its wallet changed its mind about, the coins a migration had seen, and
the funded chains whose sweep its request ended without opening.

## Runs

| Run | Instance | States | Shows |
|---|---|---|---|
| `proposal_concurrent` | 2-of-3, one Trezor, 2 slots, stops | 67,328 | consent: what is stored or sent has a recorded quorum behind it |
| `proposal_serial` | 1 slot, no stops, fair | 576 | the documented life cycle, no accepted work lost, threshold leads to extraction |
| `lost_signature` | 3-of-3, 2 slots | – | finding 1 |
| `migration_concurrent` | 3 versions, two chains, a deposit on each, 2 slots, stops | 2,563,437 | versions stay a succession; every flip has been earned, whatever became of the sweep's row; sweeps agree with where their coins are |
| `migration_serial` | 3 versions, Bitcoin, 2 deposits, 1 slot, fair | 2,225 | a sent sweep is enacted and recorded; no sweep to an abandoned version is sent |
| `open_after_cancel`, `wedged` | 3 versions, Bitcoin, 2 deposits, 2 and 1 slots | – | findings 2 and 3 |
| `reconcile_concurrent` | 2 transactions, a late deposit, 1 reorg, 2 slots, stops, restarts | 1,053,941 | columns agree, reopening has evidence, a pass tells the truth |
| `reconcile_serial` | 3 transactions, a late deposit, 2 reorgs, 1 slot | 1,491,664 | the columns implement `SweepRecord` |
| `failed_build` | 1 slot, 1 reorg | – | finding 4 |
| `shared_row` | 2 instances, 2 slots, 2 blocks, 9 mixes | 1,628,582 | what a wallet learned is lost only for a named cause; the row forgets only by a write that is out of date, and lacks a coin only for a cause |
| `vault` | 3 members, 3 versions, 4 coins, 2 proposals, 2 slots, 8 mixes | 1,605,012 | no page promises a coin in flight, privileges were held, opened sweeps are complete, rosters follow |

**Bounds.** Two slots are what every race in this code needs: each guard reads
rows once and each handler writes them from its own reads, so two handlers
already show every order of a read and another's write; the theorems have no
such bound. Three cosigners with a threshold of two leave one signature to
spare, one page to go stale and a device of each kind. In `Migration`,
`LastVersion` = 2 allows two migrations in a row, hence a late enactment of the
first after the second. A dual-chain vault with a deposit on each chain sends
two sweeps, and a version in preparation can be paid; the constraint
`OneCoinLater` leaves one of the two deposits in play by the time a second
migration is stored, because what two sweeps of one migration add is seen with
the first. In the serial run, two deposits let a single-chain sweep be built
before the second arrives; what two requests make of a single-chain vault is
left to the theorems and to the runs that show the findings. Three transactions
are a sweep and two more, the second displacing the first; with two slots there
are two transactions, and more would add orders of resweeps, not of statements.
Two reorgs revert a sweep and then its resweep. Symmetry is used only over
slots, which no action tells apart, and never where liveness is checked.

`WalletStore` and `Vault` have too many operations to let all of them meet in
one behaviour, so an initial state draws a **mix** that says what may happen in
it; `may` and `serves` are bounds like any other, and no action reads anything
else of a mix but the sets it draws its inputs from. The mixes of `shared_row`
pair each operation with a sync, on each backend that can run it, and with the
fault that can catch it half way, and a rescan with the receive page. Two
instances are needed because an evicted one lives on in the request that holds
it; two blocks give a coin below the tip and a block to replace; one change
address suffices because a second one behaves like the first. The mixes of
`vault` are

| Mix | For |
|---|---|
| `Origins` | from the first key to a second migration, Bitcoin and dual-chain |
| `OldSigner` | a member sends, and looks, while a migration removes her |
| `Readers` | pages are read while a migration brings back a former member |
| `TwoSends` | a page is read while proposals are made, sent and cancelled |
| `Late` | a superseded version that is still paid, and forwarded |
| `Liquid` | both assets of an Elements wallet |
| `Rows` | rows and balance of one page under different locks |
| `Swept` | sweeps of both chains, with deposits, sends, failed builds and hang-ups in between |

All but `Origins`, in which nobody cancels a migration, start from states that
founding, a migration and deposits leave behind; what they assume of rosters is
what is proved from the start. `DepositValue` = 2 and `Amounts` = {1} make a
spend leave change, so that a total can differ from an amount; four coins are a
deposit on each chain or two on one and what a spend of them leaves; `paidUpTo`
keeps deposits from using up that room; two proposals can share a coin. Three
versions let a late request meet two flips.

**Deadlock** is not checked: a proposal that was cancelled, a lineage at
`LastVersion`, a chain at `MaxHeight` and a vault out of coins may rest forever.

**Fairness.** The `FairSpec`s assume weak fairness of a slot's next statement
and nothing else: the runtime keeps polling a handler nobody abandons, and each
statement returns or fails. No member is assumed to sign, no block to be mined,
no page to be opened. They are used with one slot and `MayStop` false, because a
stopped handler is not resumed by anything in the code.

### What holds only when requests are served one at a time

Some properties are checked in the serial runs because the code does not give
them under concurrency or abandonment. That is the main lesson of the model.
These shorter counterexamples can be reproduced by changing a constant:

- `FinalizedHasTx` with `MayStop` true: the request ends between the two
  statements and the proposal is `finalized` without a transaction; broadcast
  refuses it, and signing is over.
- `CancelledBeforeBroadcast` and `CancelledStaysCancelled` with two slots:
  cancel races broadcast, or a slow submission sets a cancelled row back.
- `AbandonedBeforeBroadcast` with two slots: a cancel between the node's
  acceptance of a sweep (`proposals.rs:1051`) and the flip finds no status in
  its way, and the coins have moved to a version that was given up, although a
  migration is documented as `abandoned before broadcast`
  (`0006_migrations.sql:25`).
- `BroadcastIsEnacted` with `MayStop` true: the node has the sweep, the version
  never flips.
- `SentSweepIsRecorded` with `MayStop` true: the flip commits and the txid is
  never recorded.
- `ImplementsSweepRecord` with two slots: two resweeps pass the check for a
  pending base; the second completion keeps the first one's latched height, so a
  sweep that never confirmed can be reverted.

The new questions of `Vault` have exceptions too, which its properties name: on
Elements a send stores no total (`elements_wallet.rs:925`), so `SpendableIsFree`
counts only drains and sweeps there, although `federations.rs:102-104` expects
otherwise; an Elements page has no row for change, so `RowsAddUp` bounds it from
one side; and `SeenCoinsAreSwept` leaves out issued assets without L-BTC, which
stay behind a dual-chain migration, and the chains whose sweep the migration's
request has yet to open or ended without opening (`Unopened`), because the sweep
of the other chain alone makes the version current: a Bitcoin build that fails
on fee or dust (`migrations.rs:273`), or a hang-up, comes after the version and
the Elements sweep were stored, and the Bitcoin coins stay behind in no sweep.
`SkippedForACause` names what makes a wallet miss a coin for good: the birthday
of `wallet.rs:420`, which its comment calls always safe, is behind a successor's
first address when the sweep arrives before anyone opens the new wallet; a
rescan starts at the height its operator names; a sync that fails leaves coins
in the stage, which the next preview throws away (`compute_drain_amount`), and
the wallet in memory, which has them, walks on; and a request that ends between
the locks takes with it what it had taken. A coin skipped for none of these is
being carried to the row.

Also met and not kept as runs: the proposer can cancel a sweep as a proposal and
leave its migration `proposed`; a cancel or a submission that was slow can set a
sweep that was broadcast back to `cancelled`, `signing` or `finalized`; coins
paid to a version that is then abandoned leave it by an ordinary send only;
after a revert, a sweep that is mined again by itself leaves its version
`pending` for good; a resweep may take a relay for the stranded sweep; and
`migrations.rs:150-152` says that "a vault funded on both at once is rejected",
while the code below it opens two sweeps.

### Findings

1. `proposals.rs:791`. Two submissions at once: the second overwrite drops the
   first one's signature, whose row makes every retry a no-op. With a 3-of-3
   policy the proposal can never be completed.
2. `migrations.rs:450`. A cancel between the two inserts of a migration leaves
   an open sweep to an abandoned version, which can be signed and sent.
3. `db.rs:1763`. A cancelled migration keeps its version row; every later
   migration of that lineage computes the same index and is refused.
4. `migrations.rs:892`. A resweep that cannot be built returns before the cached
   wallet is dropped, so the eviction stays in the shared wallet.

## Abstract specifications

`Proposal` implements `CosignerConsent` under any interleaving
(`ImplementsConsent`, checked and proved), with `sigRows` as approvals and
`acceptedTx` as what was settled. With one slot it implements
`ProposalLifecycle`; there a submission that has met the threshold takes effect
when the extracted transaction is stored. With one slot `Reconcile` implements
`SweepRecord`: a sweep is put on record only when none is, seen only if mined,
and given up only if that very sweep lost its block.

## Theorems

The proofs hold for every value of the constants that satisfies the named
assumptions (`ThresholdAssumption`, `UsersAssumption`, `StopAssumption`,
`MigrationAssumption`, `ReconcileAssumption`, `WalletStoreAssumption`,
`RosterAssumption`, `VaultAssumption`), which ask no more than that the
threshold is positive and within the federation, the sets fit each other, there
are members and finitely many, NULLs are distinct and a chain may have a block.
In particular they hold for any number of requests.

Nearly every property needed a stronger invariant, and nearly always for one
reason: the property says what a *row* holds, and a handler will later write
there what it read long ago. The invariant has to say what a slot may carry.

Properties that hold only one request at a time are theorems with the hypothesis
`OneAtATime`: there is at most one slot, and no request is abandoned. It is the
hypothesis under which the serial runs check them, and the section above shows
what breaks without it.

- **Proposal**, any interleaving: `TypeCorrect`, `SignaturesAreRecorded`,
  `StoredTxIsSpendable`, `OnlyAcceptedIsBroadcast`, `CosignerWritesOnce`,
  `ConsentImplemented`. `InFlightInv` adds that carried PSBTs are recorded
  before use, that a slot about to store a transaction meets the threshold, and
  that pages served are below the recorded signatures.
- **Proposal**, one at a time: `AcceptedWorkIsKept`, `FinalizedIsReady`,
  `CancellationPrecedesBroadcast`, `CancellationIsFinal`,
  `LifecycleImplemented`. `SerialInv` says of each statement what the one
  request at work still has to do: before `update_psbt` the row lacks exactly
  the signature that was inserted, before the extraction the stored PSBT has
  just met the threshold and had not before. In the refinement that extraction
  is when the submission happens (`StatusSoFar`, `SignedSoFar`): until then, the
  submission that met the threshold has not counted.
- **Migration**, any interleaving: `TypeCorrect`; `SuccessionHolds`, with
  `InFlightIsOnCurrent` and `SlotsHaveTargets`; `FlipsAreEarned` and
  `FlipsHaveConsent`; `SweptCoinsMove`. A request stores a migration long after
  it read its base version as current; what survives in between
  (`TargetsStored`) is that the base is current *or superseded*, and in the
  second case the index of the new version is taken. `FlipsEarned` adds that one
  request at most mints a version and inserts each sweep once, that a sweep is
  sent only when extracted, and that a slot on its way to the flip works on a
  sweep in `sent`; it says nothing of the status a sweep has by then, which may
  have been overwritten. `FundsInv` adds that what a slot is about to send are
  the inputs of the sweep it read, and that what it is about to insert is at the
  base version or spent.
- **Migration**, one at a time, on one chain or two: `AbandonedNeverSent`,
  `SentIsEnacted`, `SentIsRecorded`. `SerialParts` says that a pending version's
  migration is in flight, that an abandoned one has no sweep that was or could
  still be sent, and that a sent sweep without its flip, or a flip without its
  record, belongs to the request at work.
- **Reconcile**, any interleaving: `TypeCorrect`, `ColumnsNeverDisagree`,
  `ReopeningHasEvidence`, `PassesSettle`. `EvidenceInv` adds what slots carry
  (`SlotsSound`: the transaction to be recorded was marked as sent, a
  confirmation a pass has read was real) and that wallets know only
  confirmations the chain has had (`ChainSeen`). `HistoryKept` (no proposal,
  sending or confirmation is taken back) carries every slot that does not move.
  For an undisturbed pass, `PassInv` follows the truth along it: the graphs are
  the node's after the two syncs, the candidate is what the columns say, what it
  has seen is what the node confirms; and after the last statement the columns
  are settled.
- **Reconcile**, one at a time: `SweepRecordImplemented`. A latch may be
  reverted because the base wallet no longer finds the recorded sweep after its
  sync, and then that sweep has lost its block, which is what the abstract
  specification asks; and `set_migration_complete` never meets a version that is
  complete already.
- **WalletStore**: `TypeCorrect`; `MemoryIsAccounted`;
  `ChangeScriptsArePersisted`, `OnlyOutdatedForget`, `SoleSyncsSettleTheRow`;
  `SkippedHaveACause`. `WalletInv` says fact by fact where a fact of a wallet is
  (`FactsAccounted`), and that a slot under the lock of a wallet, or carrying
  what it took from one, holds an instance (`SlotsHold`), so that freeing an
  instance forgets only what nobody can reach (`FreeingIsSound`). `RowInv`
  relates instances to the row: of an instance that is not `behind`, by a
  request that is not `late`, the aggregate with what is being carried to it
  covers the row, except for what the chain will give back. This is where
  backends differ. Over RPC an aggregate is the row and more; a nodeless rewrite
  drops coins and keeps addresses, with which its next scan finds every coin
  again. `CoinInv` follows the coins over RPC. The row is written from many
  places, so the invariant says of each set of facts it may be written from that
  it misses a coin only for a cause (`Fine`): the row, the wallet and the
  aggregate of an instance that is not behind, and what a loader, a writer or a
  rescan carries. A merge is the hard step, because an aggregate with a delta is
  a wallet *without* its stage: that misses no other coin, because staged coins
  lie above every block that was taken before (`StageAhead`, `PartIsFine`). What
  is lost from an instance is in its aggregate or was recorded as dropped
  (`LostExcused`), and a coin on its way stays on its way until it is written or
  dropped (`Onward`), so that a cause, once named, remains one. A birthday is
  seeded only into a row without a block, and then the receive page, if shown,
  was shown over such a row (`ShownInTime`).
- **Vault, rosters**: `RostersFollowFromTheStart` and, more generally,
  `SoundRostersStaySound`. A migration stores a successor long after it resolved
  its members and planned from its base; `RosterInv` adds that every draft still
  under way is sound by today's keys and explained by today's base
  (`DraftSound`). It is kept because a member's oldest key at the path stays the
  oldest (`OnboardingKeepsSigners`), because flips and cancellations rewrite
  statuses only (`SameRosters`), and because a draft is stored only on top of
  its own base (`StoringIsSound`). That a validated threshold is within the
  *devices*, not only the members, is where the builder's refusal of a repeated
  key is needed (`AcceptedHaveQuorum`).
- **Vault, requests**: `PrivilegesWereHeld` and `SeenIsSwept`, from any state
  whose rosters are sound and whose versions, if any, include a current one
  (`Headed`). `PrivilegeInv`: a slot's `heads` hold every version that has been
  current since the request arrived, so what its reads found, at whatever
  moment, is a version in it. `SweptInv`: coins keep owner and asset and are
  never unspent again (`CoinsFollow`). It says of each step of a migration what
  its slot carries (`SlotsSee`): a draft only coins of its base, each on a chain
  it counts as funded (`Funds`), a sweep about to be opened every coin of its
  chain that the migration had seen and nobody has spent (`Covers`). And it says
  of each coin a stored version's migration had seen that it is handled: spent,
  in a sweep, on a chain not opened, or issued and alone (`KnownSwept`). The
  step that would break it is the end of a request, which has to leave what it
  had still to open in `cutShort` (`EndsKept`).
- **Vault, pages**: `LineageStaysTyped`, `SpendableStaysFree`,
  `RowsStayAddedUp`, from any state whose rosters are sound, whose coins are
  typed and whose wallets take no unspent coin for spent (`CoinsSound`; a wallet
  sees a coin as spent only after it was). `PageInv` says what each value that a
  page has read still means of the coins as they are now. A stored total covers
  the coins its proposal selected, as long as their wallet has not seen them
  spent (`Covering`): for Bitcoin always, for Elements if the proposal stores
  one; and so does the total of a sweep that a slot is about to open. What a
  page counted fits in its total, and what it calls spendable in the coins no
  counted proposal has selected (`SlotPromises`). Its rows are those of *some*
  set of coins, equal to what the wallet holds but for what it learned since
  (`RowsMatch`). This survives what others do because coins only grow and keep
  owner, asset and value (`CoinsGrow`), and proposals keep what they selected
  (`ProposalsGrow`). The sums are folds that pick elements in an order nobody
  knows; that two folds agree where their values do, and split over disjoint
  sets (`FoldInAnyOrder`, `TotalAgrees`, `TotalOfUnion`), is proved by induction
  stated as a fact about sets of numbers (`NatSetInduction`), which needs no
  operator as a parameter.

Only model-checked, of all the properties the passing runs check:

- Liveness (`ThresholdFinalizes`, `AcceptedSweepIsEnacted`): fairness is outside
  what the proof system handles.

## Not modelled

Contents of PSBTs, fees, addresses, heights and amounts, beyond what the
properties tell apart. The SQL server's isolation: each statement is atomic,
each database transaction one action, as READ COMMITTED gives for single-row
statements. Descriptors, beyond the refusal of a repeated key. What happens to a
proposal whose deposit is itself reorganised away. The Elements half of a
dual-chain migration after the flip: its txid is recorded in a column only
Bitcoin wallets are compared with. A sync reads the node at one instant in
`Reconcile` and `Vault`, although it takes many calls. `Vault` leaves out reorgs
and evictions, which `Reconcile` has for sweeps. Two Electrum scans of one
wallet started from the same state, where applying the second fails. Of the
Elements wallet: `load_or_init`, the address index of `next_external_index`,
which is only ever raised, and PSET combination, which follows `Proposal`. The
home page, which is one query, and the contents of the address-detail page.
Authentication, configuration, rendering, device payloads and browser code
(`PROJECT.json` gives the reason for each).

## Plan

Done: `Proposal`, `Migration`, `Reconcile`, `WalletStore`; and, as `Roster`,
`Coins` and `Vault`, what was planned as reservation of coins and visibility,
with onboarding and founding; and the theorems above.

Left: an Elements wallet store beside `WalletStore`, with the LWK cache and the
address index, if its column gets a second writer.
