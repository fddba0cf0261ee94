-------------------------------- MODULE Vault --------------------------------
(***************************************************************************)
(* One lineage from its first key to its last version: the rosters of its  *)
(* versions, the coins they own on both chains, the proposals that spend   *)
(* them and the pages that show them.  The handlers create, send, receive, *)
(* federation_manage, show, detail, max_spend and migrate_post take one    *)
(* step for each statement and each lock of a wallet whose order matters,  *)
(* and interleave with one another, with versions that flip and with       *)
(* broadcasts.                                                             *)
(*                                                                         *)
(* What Proposal and Migration follow statement by statement is one action *)
(* here: a proposal's signatures and broadcast.  A rejected request leaves *)
(* no trace, so it is a request not made, except where it was already      *)
(* under way.                                                              *)
(***************************************************************************)
EXTENDS Roster, Coins

CONSTANTS
  Requests,      \* slots for requests being served at the same time
  Mixes,         \* bound: for one behaviour, where it starts and what may happen
  MaxProposals,  \* bound: proposals
  Amounts        \* amounts a form asks for

Activities == {"onboard", "found", "cancelMigration", "broadcast", "cancel", "max",
               "deposit", "confirm", "restart", "stop"}
Handlers   == {"create", "migrate", "send", "receive", "manage", "show", "detail"}

ASSUME VaultAssumption ==
  /\ MaxProposals \in Nat /\ Amounts \subseteq Nat \ {0}
  /\ \A m \in Mixes :
       /\ m.may \subseteq Activities /\ m.serves \in [Requests -> SUBSET Handlers]
       /\ m.users \subseteq Users /\ m.assets \subseteq Assets
       /\ m.reach \in [Users -> SUBSET Devices] /\ m.paidUpTo \in 0..MaxCoins
       /\ \A plan \in m.plans :
            plan.add \subseteq Users /\ plan.remove \subseteq Users /\ plan.m \in Nat

VARIABLES
  mix,        \* what may happen in this behaviour
  proposals,  \* the rows of transaction_proposals, oldest first
  request,    \* the requests being served
  known,      \* history: coins of its base that a version's migration had seen
  cutShort    \* history: by version, funded chains whose sweep was never opened

history == <<known, cutShort>>
vars    == <<mix, rosterVars, coins, proposals, request, history>>

\* A proposal: what it spends, the total_input_sat it was stored with (0 for
\* NULL), what it pays (amount 0: all it selects) to which version (0: someone
\* else's address), and the version it is a sweep for.
Proposal == [version : Nat, chain : Chains, by : Users, inputs : SUBSET Nat, total : Nat,
             asset : Assets, amount : Nat, to : Nat, sweeps : Nat,
             status : {"open", "broadcast", "cancelled"}]

Pages == {"send", "receive", "manage", "show", "detail"}

\* A slot: who asked for what, and what the handler has read so far.  current
\* is the active version it read; a page has the total it subtracts, the coins
\* behind the balance, its rows, its versions and the panels it still has to
\* fill.  history: the versions that have been current meanwhile, the proposals
\* the total covers, the coins the wallet changed its mind about between a
\* page's rows and its balance.
Request == [op : Pages \cup {"none", "create", "migrate"},
            step : {"idle", "status", "build", "describe", "insert", "store", "sweep",
                    "open", "flip", "sync", "panel", "external", "change", "reserve",
                    "balance", "visible", "list", "lock", "answer"},
            user : Users, version : Nat, chain : Chains, asset : Assets, amount : Nat,
            to : Nat, current : Nat, inputs : SUBSET Nat, total : Nat,
            basis : SUBSET Nat, spendable : Nat, balance : Nat, rows : Nat,
            listed : SUBSET Nat, left : SUBSET Nat,
            draft : Seq(Version), funded : SUBSET Chains,
            heads : SUBSET Nat, counted : SUBSET Nat, moved : SUBSET Nat]
Idle == [op |-> "none", step |-> "idle", user |-> CHOOSE u \in Users : TRUE, version |-> 0,
         chain |-> "bitcoin", asset |-> "BTC", amount |-> 0, to |-> 0, current |-> 0,
         inputs |-> {}, total |-> 0, basis |-> {}, spendable |-> 0, balance |-> 0,
         rows |-> 0, listed |-> {}, left |-> {}, draft |-> <<>>, funded |-> {},
         heads |-> {}, counted |-> {}, moved |-> {}]

TypeOK ==
  /\ RosterTypeOK /\ CoinsTypeOK
  /\ mix \in Mixes
  /\ proposals \in Seq(Proposal) /\ Len(proposals) <= MaxProposals
  /\ request \in [Requests -> Request]
  /\ known \in [1..LastVersion -> SUBSET Nat]
  /\ cutShort \in [1..LastVersion -> SUBSET Chains]

Init ==
  /\ mix \in Mixes
  /\ signers = mix.signers /\ versions = mix.versions /\ coins = mix.coins
  /\ proposals = <<>>
  /\ request = [r \in Requests |-> Idle]
  /\ known = [v \in 1..LastVersion |-> {}]
  /\ cutShort = [v \in 1..LastVersion |-> {}]

-----------------------------------------------------------------------------
(* What the steps share *)

Holds(r, step)  == request[r].step = step
May(activity)   == activity \in mix.may
MayServe(r, op) == op \in mix.serves[r] /\ Holds(r, "idle")

\* The other requests live through a sync and through a version flip.
RowsTaken == {"change", "reserve", "balance"}
Noticing(now) == [r \in Requests |->
  IF request[r].op = "receive" /\ request[r].step \in RowsTaken
  THEN [request[r] EXCEPT !.moved = @ \cup
          {c \in Wallet(request[r].version, request[r].chain) : now[c].seen # coins[c].seen}]
  ELSE request[r]]
CurrentOf(vs) == {v \in DOMAIN vs : vs[v].status = "active"}
Witnessing(vs) == [r \in Requests |->
  IF Holds(r, "idle") THEN Idle ELSE [request[r] EXCEPT !.heads = @ \cup CurrentOf(vs)]]

Step(r, next) == request' = [request EXCEPT ![r] = next]
SyncAnd(r, now, next) ==
  /\ coins' = now
  /\ request' = [Noticing(now) EXCEPT ![r] = next]

Slot(r, op, u, v, chain, step) ==
  [Idle EXCEPT !.op = op, !.step = step, !.user = u, !.version = v, !.chain = chain,
               !.asset = Policy(chain), !.heads = CurrentOf(versions)]

\* resolve_active_chain.
Active(v, chain) == chain = "elements" => versions[v].elements

\* sum_inflight_inputs_for_federation: per version and chain; NULL adds nothing.
InFlightOn(v, chain) ==
  {p \in DOMAIN proposals : /\ proposals[p].version = v /\ proposals[p].chain = chain
                            /\ proposals[p].status = "open"}
Reserved(v, chain) == MapThenSumSet(LAMBDA p : proposals[p].total, InFlightOn(v, chain))

\* Mutant: the subtraction is not checked.
SpendableUnchecked(total, reserved) == total - reserved

\* checked_sub, or nothing.
Spendable(total, reserved) == IF reserved > total THEN 0 ELSE total - reserved

-----------------------------------------------------------------------------
(* Keys, founding, migrations *)

OnboardSigner(u, d, atPath) ==
  /\ May("onboard") /\ d \in mix.reach[u]
  /\ Onboard(u, d, atPath)
  /\ UNCHANGED <<mix, coins, proposals, request, history>>

Found(u, picked, m, taproot) ==
  /\ May("found")
  /\ NewFederation(u, picked, m, taproot)
  /\ UNCHANGED <<mix, coins, proposals, request, history>>

\* migrate_post up to the draft.  A Bitcoin-only vault has its sweep built from
\* what the cached wallet last saw; a dual-chain one syncs both wallets first
\* and notes which of them holds its chain's policy asset.
Migrate(r, u, base, add, remove, m) ==
  /\ MayServe(r, "migrate")
  /\ MayMigrate(u, base)
  /\ \E draft \in Drafts(base, add, remove, m) :
       LET slot   == [Slot(r, "migrate", u, base, "bitcoin", "describe") EXCEPT
                        !.draft = <<draft>>]
           synced == [c \in DOMAIN coins |-> Synced(base, Chain(coins[c].asset))[c]]
           seen(a) == {c \in DOMAIN coins : /\ synced[c].owner = base /\ synced[c].asset = a
                                            /\ synced[c].seen \in {"untrusted", "trusted"}}
       IN  IF versions[base].elements
           THEN SyncAnd(r, synced, [slot EXCEPT
                  !.step = "store", !.inputs = UNION {seen(a) : a \in Assets},
                  !.funded = {chain \in Chains : seen(Policy(chain)) # {}}])
           ELSE \E inputs \in Drains(Held(base, "BTC")) :
                  /\ Step(r, [slot EXCEPT !.inputs = inputs, !.funded = {"bitcoin"}])
                  /\ UNCHANGED coins
  /\ UNCHANGED <<mix, rosterVars, proposals, history>>

\* create_pending_migration, or the transaction refuses.
Store(r) ==
  /\ Holds(r, "store")
  /\ LET q    == request[r]
         next == q.version + 1
     IN  \/ /\ Storable(q.version)
            /\ versions' = Append(versions, q.draft[1])
            /\ known' = [known EXCEPT ![next] = q.inputs]
            /\ Step(r, [q EXCEPT !.to = next,
                 !.step = IF q.funded = {} THEN "flip"
                          ELSE IF versions[q.version].elements THEN "sweep" ELSE "open"])
         \/ /\ q.version # Len(versions) \/ InFlight
            /\ Step(r, Idle)
            /\ UNCHANGED <<versions, known>>
  /\ UNCHANGED <<mix, signers, coins, proposals, cutShort>>

\* The next sweep of a dual-chain vault, Elements first, from what its wallet
\* holds by now.
BuildSweep(r) ==
  /\ Holds(r, "sweep")
  /\ LET q    == request[r]
         lbtc == Held(q.version, "L-BTC")
     IN  \/ /\ "elements" \in q.funded
            /\ \E inputs \in MigrationPset(q.version) :
                 Step(r, [q EXCEPT !.chain = "elements", !.inputs = inputs,
                            !.total = Value(inputs \cap lbtc), !.step = "open"])
         \/ /\ "elements" \notin q.funded
            /\ \E inputs \in Drains(Held(q.version, "BTC")) :
                 Step(r, [q EXCEPT !.chain = "bitcoin", !.inputs = inputs, !.step = "describe"])
  /\ UNCHANGED <<mix, rosterVars, coins, proposals, history>>

\* insert_migration_proposal; it was the last one, or there is another chain.
Sweep(q) ==
  [version |-> q.version, chain |-> q.chain, by |-> q.user, inputs |-> q.inputs,
   total |-> q.total, asset |-> Policy(q.chain), amount |-> 0, to |-> q.to,
   sweeps |-> q.to, status |-> "open"]
OpenSweep(r) ==
  /\ Holds(r, "open")
  /\ Len(proposals) < MaxProposals
  /\ LET q    == request[r]
         left == q.funded \ {q.chain}
     IN  /\ proposals' = Append(proposals, Sweep(q))
         /\ Step(r, IF left = {} THEN Idle ELSE [q EXCEPT !.funded = left, !.step = "sweep"])
  /\ UNCHANGED <<mix, rosterVars, coins, history>>

\* enact_version_transition on a dual-chain vault with nothing to sweep.
FlipUnfunded(r) ==
  /\ Holds(r, "flip")
  /\ versions' = Flipped(versions, request[r].to)
  /\ request' = [Witnessing(versions') EXCEPT ![r] = Idle]
  /\ UNCHANGED <<mix, signers, coins, proposals, history>>

\* The chains whose sweep a request still has to open for a version it stored.
Opening(r, v) ==
  IF request[r].op = "migrate" /\ request[r].to = v THEN request[r].funded ELSE {}
EndingAll(ended) ==
  cutShort' = [v \in 1..LastVersion |-> cutShort[v] \cup UNION {Opening(r, v) : r \in ended}]

\* A build fails, because there is nothing left, or less than fee and dust: the
\* version and the sweeps stored before stay.
SweepFails(r) ==
  /\ Holds(r, "sweep")
  /\ Step(r, Idle) /\ EndingAll({r})
  /\ UNCHANGED <<mix, rosterVars, coins, proposals, known>>

\* The browser hangs up while a handler awaits.
Stop(r) ==
  /\ May("stop") /\ ~Holds(r, "idle")
  /\ Step(r, Idle) /\ EndingAll({r})
  /\ UNCHANGED <<mix, rosterVars, coins, proposals, known>>

\* cancel_post.
CancelMigration(u, v) ==
  /\ May("cancelMigration")
  /\ v \in Indices /\ versions[v].migration # "none" /\ MemberOf(u) # {}
  /\ versions' = Cancelled(v)
  /\ proposals' = [p \in DOMAIN proposals |->
       IF proposals[p].sweeps = v /\ proposals[p].status # "broadcast"
       THEN [proposals[p] EXCEPT !.status = "cancelled"] ELSE proposals[p]]
  /\ UNCHANGED <<mix, signers, coins, request, history>>

-----------------------------------------------------------------------------
(* Proposals *)

\* create: a member asks, and the wallet syncs.
RequestCreate(r, u, v, asset, amount, to) ==
  /\ MayServe(r, "create")
  /\ v \in Indices /\ IsMember(u, v) /\ Active(v, Chain(asset))
  /\ asset = "issued" => amount # 0
  /\ to \in Indices \cup {0}
  /\ SyncAnd(r, Synced(v, Chain(asset)),
       [Slot(r, "create", u, v, Chain(asset), IF asset = "BTC" THEN "status" ELSE "build")
          EXCEPT !.asset = asset, !.amount = amount, !.to = to])
  /\ UNCHANGED <<mix, rosterVars, proposals, history>>

\* current_signer_status.
CheckStatus(r) ==
  /\ Holds(r, "status")
  /\ Step(r, [request[r] EXCEPT !.current = Current, !.step = "build"])
  /\ UNCHANGED <<mix, rosterVars, coins, proposals, history>>

\* An old signer sends to an address of the version that was current.
ForwardOnly(r) == request[r].current = 0 \/ request[r].to = request[r].current

\* What the build may select, by who asks and for what.
Selectable(r) ==
  LET q    == request[r]
      pool == Held(q.version, q.asset)
  IN  IF q.asset = "issued" THEN AssetSelections(q.version, q.amount)
      ELSE IF q.asset = "BTC" /\ ~IsCurrentSigner(q.user, q.current)
           THEN IF ForwardOnly(r) THEN Drains(pool) ELSE {}
           ELSE IF q.amount = 0 THEN Drains(pool) ELSE Selections(pool, q.amount)

\* build_proposal, build_drain_tx, build_migration_tx and their LWK likes.
Build(r) ==
  /\ Holds(r, "build")
  /\ LET q == request[r]
         drained == q.asset = "BTC" /\ ~IsCurrentSigner(q.user, q.current)
     IN  \/ \E inputs \in Selectable(r) :
              Step(r, [q EXCEPT
                !.inputs = inputs, !.amount = IF drained THEN 0 ELSE @,
                !.total = IF q.chain = "elements" /\ q.amount = 0 THEN Value(inputs) ELSE 0,
                !.step = IF q.chain = "bitcoin" THEN "describe" ELSE "insert"])
         \/ Selectable(r) = {} /\ Step(r, Idle)
  /\ UNCHANGED <<mix, rosterVars, coins, proposals, history>>

\* What follows the description: of a proposal, of the sweep of a Bitcoin-only
\* vault, of one sweep of a dual-chain vault.
Described(q) == CASE q.op = "create" -> "insert"
                  [] q.op # "create" /\ q.to = 0 -> "store"
                  [] OTHER -> "open"

\* Mutant: the total is what the recipient gets.
DescribeAmount(r) ==
  /\ Holds(r, "describe")
  /\ Step(r, [request[r] EXCEPT
       !.total = IF request[r].amount = 0 THEN Value(request[r].inputs) ELSE request[r].amount,
       !.step = Described(request[r])])
  /\ UNCHANGED <<mix, rosterVars, coins, proposals, history>>

\* proposal_view_models, under the lock once more: an input the wallet has come
\* to see spent is not counted.
Describe(r) ==
  /\ Holds(r, "describe")
  /\ Step(r, [request[r] EXCEPT
       !.total = Value(request[r].inputs \cap Held(request[r].version, "BTC")),
       !.step = Described(request[r])])
  /\ UNCHANGED <<mix, rosterVars, coins, proposals, history>>

InsertProposal(r) ==
  /\ Holds(r, "insert")
  /\ Len(proposals) < MaxProposals
  /\ LET q == request[r]
     IN  proposals' = Append(proposals,
           [version |-> q.version, chain |-> q.chain, by |-> q.user, inputs |-> q.inputs,
            total |-> q.total, asset |-> q.asset, amount |-> q.amount, to |-> q.to,
            sweeps |-> 0, status |-> "open"])
  /\ Step(r, Idle)
  /\ UNCHANGED <<mix, rosterVars, coins, history>>

\* What a proposal pays, by asset.
Pays(p) ==
  [a \in Assets |->
     LET selected == {c \in proposals[p].inputs : coins[c].asset = a}
     IN  IF proposals[p].amount = 0 THEN Value(selected)
         ELSE IF a = proposals[p].asset THEN proposals[p].amount ELSE 0]

\* broadcast: the node takes it if no input is spent; a sweep flips the version
\* of a migration still proposed.
Broadcast(p) ==
  /\ May("broadcast")
  /\ proposals[p].status = "open"
  /\ \A c \in proposals[p].inputs : ~coins[c].spent
  /\ LET outputs == Outputs(proposals[p].version, proposals[p].inputs, proposals[p].to, Pays(p))
         target  == proposals[p].sweeps
     IN  /\ Len(coins) + Len(outputs) <= MaxCoins
         /\ coins' = Spending(proposals[p].inputs, outputs)
         /\ versions' = IF target # 0 /\ versions[target].migration = "proposed"
                        THEN Flipped(versions, target) ELSE versions
  /\ proposals' = [proposals EXCEPT ![p].status = "broadcast"]
  /\ request' = Witnessing(versions')
  /\ UNCHANGED <<mix, signers, history>>

CancelProposal(p) ==
  /\ May("cancel")
  /\ proposals[p].status = "open"
  /\ proposals' = [proposals EXCEPT ![p].status = "cancelled"]
  /\ UNCHANGED <<mix, rosterVars, coins, request, history>>

-----------------------------------------------------------------------------
(* Pages *)

\* The receive page and the federation page: load_header lets members in.
OpenPage(r, op, u, v, chain) ==
  /\ MayServe(r, op)
  /\ v \in Indices /\ IsMember(u, v) /\ Active(v, chain)
  /\ Step(r, Slot(r, op, u, v, chain, IF op = "receive" THEN "visible" ELSE "reserve"))
  /\ UNCHANGED <<mix, rosterVars, coins, proposals, history>>

\* send: for members as well, but it syncs at once.
OpenSend(r, u, v, chain) ==
  /\ MayServe(r, "send")
  /\ v \in Indices /\ IsMember(u, v) /\ Active(v, chain)
  /\ SyncAnd(r, Synced(v, chain), Slot(r, "send", u, v, chain, "reserve"))
  /\ UNCHANGED <<mix, rosterVars, proposals, history>>

\* show, the page of an address: a member, or a current signer of the lineage.
Show(r, u, v, chain) ==
  /\ MayServe(r, "show")
  /\ v \in Indices /\ Active(v, chain)
  /\ IsMember(u, v) \/ IsCurrentSigner(u, Current)
  /\ SyncAnd(r, Synced(v, chain),
             [Slot(r, "show", u, v, chain, "answer") EXCEPT !.listed = {v}])
  /\ UNCHANGED <<mix, rosterVars, proposals, history>>

\* detail, the page of a proposal: the same readers, and it asks no wallet.
Detail(r, u, p) ==
  /\ MayServe(r, "detail")
  /\ LET v == proposals[p].version
     IN  /\ IsMember(u, v) \/ IsCurrentSigner(u, Current)
         /\ Step(r, [Slot(r, "detail", u, v, proposals[p].chain, "answer") EXCEPT
                       !.listed = {v}])
  /\ UNCHANGED <<mix, rosterVars, coins, proposals, history>>

\* max_spend computes and forgets, but it syncs.
MaxSpend(u, v, chain) ==
  /\ May("max")
  /\ v \in Indices /\ IsMember(u, v) /\ Active(v, chain)
  /\ coins' = Synced(v, chain)
  /\ request' = Noticing(coins')
  /\ UNCHANGED <<mix, rosterVars, proposals, history>>

\* current_version_for_lineage, the first query of visible_versions_for_user;
\* the federation page has just synced every version of the lineage.
ReadVisible(r) ==
  /\ Holds(r, "visible")
  /\ LET lineage == [c \in DOMAIN coins |-> IF Chain(coins[c].asset) = "bitcoin"
                       THEN Synced(coins[c].owner, "bitcoin")[c] ELSE coins[c]]
     IN  SyncAnd(r, IF request[r].op = "manage" /\ request[r].chain = "bitcoin"
                    THEN lineage ELSE coins,
                 [request[r] EXCEPT !.current = Current, !.step = "list"])
  /\ UNCHANGED <<mix, rosterVars, proposals, history>>

\* Its second query, and on the send page the proposals of those versions.
ListVersions(r) ==
  /\ Holds(r, "list")
  /\ LET listed == Visible(request[r].user, request[r].current)
     IN  Step(r, [request[r] EXCEPT
           !.listed = listed, !.current = 0,
           !.left = IF request[r].op = "receive" THEN listed ELSE {},
           !.step = CASE request[r].op = "send" -> "lock"
                      [] request[r].op = "receive" -> "panel"
                      [] OTHER -> "answer"])
  /\ UNCHANGED <<mix, rosterVars, coins, proposals, history>>

\* The send page locks an old signer's recipient to the current version's first
\* address.
LockRecipient(r) ==
  /\ Holds(r, "lock")
  /\ Step(r, [request[r] EXCEPT
       !.to = IF IsCurrentSigner(request[r].user, Current) THEN 0 ELSE Current,
       !.step = "answer"])
  /\ UNCHANGED <<mix, rosterVars, coins, proposals, history>>

\* The receive page fills one panel per version, the newest first; of the panel
\* of the version it was asked for it keeps the rows and the balance.
Panel(r) ==
  /\ Holds(r, "panel") /\ request[r].left # {}
  /\ LET v == CHOOSE w \in request[r].left : \A x \in request[r].left : x <= w
     IN  SyncAnd(r, Synced(v, request[r].chain),
           [request[r] EXCEPT !.left = @ \ {v},
                              !.step = IF v = request[r].version THEN "external" ELSE "panel"])
  /\ UNCHANGED <<mix, rosterVars, proposals, history>>

\* reveal_addresses; on Elements address_activity_map_by_asset, which leaves
\* out change.
ExternalRows(r) ==
  /\ Holds(r, "external")
  /\ Step(r, [request[r] EXCEPT
       !.rows = UnspentRows(request[r].version, request[r].asset, FALSE),
       !.step = IF request[r].chain = "bitcoin" THEN "change" ELSE "reserve"])
  /\ UNCHANGED <<mix, rosterVars, coins, proposals, history>>

\* change_addresses.
ChangeRows(r) ==
  /\ Holds(r, "change")
  /\ Step(r, [request[r] EXCEPT
       !.rows = @ + UnspentRows(request[r].version, request[r].asset, TRUE),
       !.step = "reserve"])
  /\ UNCHANGED <<mix, rosterVars, coins, proposals, history>>

ReserveTotal(r) ==
  /\ Holds(r, "reserve")
  /\ LET v     == request[r].version
         chain == request[r].chain
     IN  Step(r, [request[r] EXCEPT
           !.total = Reserved(v, chain),
           !.counted = {p \in InFlightOn(v, chain) :
                          chain = "elements" => proposals[p].amount = 0},
           !.step = IF request[r].op = "manage" THEN "sync" ELSE "balance"])
  /\ UNCHANGED <<mix, rosterVars, coins, proposals, history>>

\* The federation page syncs after it has the total.
SyncPage(r) ==
  /\ Holds(r, "sync")
  /\ SyncAnd(r, Synced(request[r].version, request[r].chain),
             [request[r] EXCEPT !.step = "balance"])
  /\ UNCHANGED <<mix, rosterVars, proposals, history>>

\* from_balance and from_lbtc_sat.
ReadBalance(r) ==
  /\ Holds(r, "balance")
  /\ LET q     == request[r]
         basis == Baseline(q.version, q.chain)
     IN  Step(r, [q EXCEPT
           !.basis = basis, !.spendable = Spendable(Value(basis), q.total),
           !.balance = Value(Held(q.version, q.asset)), !.total = 0,
           !.step = IF q.op = "receive" THEN "panel" ELSE "visible"])
  /\ UNCHANGED <<mix, rosterVars, coins, proposals, history>>

\* The page is complete, and then gone.
Complete(r) == Holds(r, "answer") \/ (Holds(r, "panel") /\ request[r].left = {})
Reply(r) ==
  /\ Complete(r)
  /\ Step(r, Idle)
  /\ UNCHANGED <<mix, rosterVars, coins, proposals, history>>

-----------------------------------------------------------------------------

\* Someone who has seen an address of the version pays it.
Deposit(v, a) ==
  /\ May("deposit") /\ a \in mix.assets
  /\ v \in Indices /\ Active(v, Chain(a)) /\ Len(coins) < mix.paidUpTo
  /\ coins' = Deposited(v, a)
  /\ UNCHANGED <<mix, rosterVars, proposals, request, history>>

Confirm(c) ==
  /\ May("confirm") /\ ~coins[c].confirmed
  /\ coins' = Confirmed(c)
  /\ UNCHANGED <<mix, rosterVars, proposals, request, history>>

\* The server stops and starts again: whatever it was serving is gone.
Restart ==
  /\ May("restart")
  /\ coins' = Reloaded
  /\ request' = [r \in Requests |-> Idle] /\ EndingAll(Requests)
  /\ UNCHANGED <<mix, rosterVars, proposals, known>>

Rosters ==
  \/ \E u \in mix.users, d \in Devices, atPath \in BOOLEAN : OnboardSigner(u, d, atPath)
  \/ \E u \in mix.users, picked \in SUBSET mix.users, m \in 1..Cardinality(Users),
        taproot \in BOOLEAN : Found(u, picked, m, taproot)
  \/ \E r \in Requests, u \in mix.users, base \in Indices, plan \in mix.plans :
       Migrate(r, u, base, plan.add, plan.remove, plan.m)
  \/ \E u \in mix.users, v \in Indices : CancelMigration(u, v)
Sweeping(r) ==
  \/ Store(r) \/ BuildSweep(r) \/ OpenSweep(r) \/ FlipUnfunded(r) \/ SweepFails(r) \/ Stop(r)
Creation(r) ==
  \/ \E u \in mix.users, v \in Indices, a \in mix.assets, amount \in Amounts \cup {0},
        to \in Indices \cup {0} : RequestCreate(r, u, v, a, amount, to)
  \/ CheckStatus(r) \/ Build(r) \/ Describe(r) \/ InsertProposal(r)
Viewing(r) ==
  \/ \E op \in {"receive", "manage"}, u \in mix.users, v \in Indices, chain \in Chains :
       OpenPage(r, op, u, v, chain)
  \/ \E u \in mix.users, v \in Indices, chain \in Chains :
       OpenSend(r, u, v, chain) \/ Show(r, u, v, chain)
  \/ \E u \in mix.users, p \in DOMAIN proposals : Detail(r, u, p)
  \/ ReadVisible(r) \/ ListVersions(r) \/ LockRecipient(r) \/ Panel(r) \/ ExternalRows(r)
  \/ ChangeRows(r) \/ ReserveTotal(r) \/ SyncPage(r) \/ ReadBalance(r) \/ Reply(r)
Money ==
  \/ \E p \in DOMAIN proposals : Broadcast(p) \/ CancelProposal(p)
  \/ \E u \in mix.users, v \in Indices, chain \in Chains : MaxSpend(u, v, chain)
  \/ \E v \in Indices, a \in Assets : Deposit(v, a)
  \/ \E c \in DOMAIN coins : Confirm(c)
  \/ Restart

Next == Rosters \/ (\E r \in Requests : Sweeping(r) \/ Creation(r) \/ Viewing(r)) \/ Money

Spec == Init /\ [][Next]_vars

-----------------------------------------------------------------------------
(* Properties *)

\* What a page calls spendable is no more than the trusted coins behind its
\* balance that no proposal in flight had selected when it asked: a new proposal
\* of that amount double-spends none of them (federations.rs:93, db.rs:690),
\* whatever was synced, built or sent between its reads.  On Elements only
\* drains and sweeps are known by their coins.
SpendableIsFree ==
  \A r \in Requests :
    Complete(r) =>
      request[r].spendable <=
        Value(request[r].basis \ UNION {proposals[p].inputs : p \in request[r].counted})

HeldPrivilege(r) == \E v \in request[r].heads : IsMember(request[r].user, v)

\* Whatever flips while a request is served: a Bitcoin proposal about to be
\* stored that pays anything but a version that was current meanwhile is by
\* someone who was a current signer meanwhile (proposals.rs:113); so is a page
\* that shows a version its reader is no member of (db.rs:1170); and the
\* recipient the send page locks was current (federations.rs:519).
PrivilegeWasHeld ==
  \A r \in Requests :
    LET q == request[r]
    IN  /\ q.op = "create" /\ q.asset = "BTC" /\ q.step \in {"describe", "insert"} =>
             q.to \in q.heads \/ HeldPrivilege(r)
        /\ \A v \in q.listed : IsMember(q.user, v) \/ HeldPrivilege(r)
        /\ q.op = "send" => q.to \in q.heads \cup {0}

\* When a version has taken over, every coin its migration had seen of its
\* predecessor, on either chain, is spent or in a sweep of that migration,
\* whatever was deposited, synced or sent between the count of funds that
\* decides which sweeps to open (migrations.rs:187) and their builds.  Only a
\* chain whose sweep the request has not opened, or ended without opening, is
\* left out, and issued assets without any L-BTC to pay for their sweep.
Unopened(v) == cutShort[v] \cup UNION {Opening(r, v) : r \in Requests}
SeenCoinsAreSwept ==
  \A v \in Indices :
    versions[v].migration = "enacted" =>
      \A c \in known[v] :
        \/ coins[c].spent
        \/ \E p \in DOMAIN proposals : proposals[p].sweeps = v /\ c \in proposals[p].inputs
        \/ Chain(coins[c].asset) \in Unopened(v)
        \/ coins[c].asset = "issued" /\ \A d \in known[v] : coins[d].asset # "L-BTC"

\* The rows of a receive page and its balance, read under different locks,
\* differ by no more than what the wallet learned in between; the page of an
\* Elements wallet, which has no rows for change, shows no more than it holds
\* (federations.rs:283).
RowsAddUp ==
  \A r \in Requests :
    request[r].op = "receive" /\ Complete(r) =>
      LET moved == Value(request[r].moved)
      IN  /\ request[r].rows <= request[r].balance + moved
          /\ request[r].chain = "bitcoin" => request[r].balance <= request[r].rows + moved

=============================================================================
