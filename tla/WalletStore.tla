----------------------------- MODULE WalletStore -----------------------------
(***************************************************************************)
(* What one federation's BDK wallet knows, in memory and in the row:       *)
(* WalletManager's cache of instances, FederationWallet's inner wallet and *)
(* aggregate changeset, and federations.bdk_changeset, which every load    *)
(* reads and every operation writes back whole (wallet.rs).  The lock on   *)
(* the wallet, the lock on the aggregate and the UPDATE are three steps,   *)
(* so operations interleave between them.                                  *)
(*                                                                         *)
(* A changeset is a set of facts, and merging two is their union.  The     *)
(* rescan tool (examples/rescan_federation.rs) is a process of its own     *)
(* that writes the same row.                                               *)
(***************************************************************************)
EXTENDS Naturals

CONSTANTS
  Requests,    \* slots for operations being served at the same time
  Instances,   \* identities for FederationWallet values
  NoInstance,
  Deposits,    \* coins paid to an address the receive page has shown
  Sweeps,      \* coins a migration or relay pays to the first address
  Mixes,       \* bound: for one behaviour, the chain backend and what may happen
  MaxHeight,   \* bound: blocks
  MaxChange    \* bound: change addresses

ASSUME WalletStoreAssumption ==
  /\ NoInstance \notin Instances
  /\ Deposits \cap Sweeps = {}
  /\ Mixes \subseteq [backend : {"rpc", "nodeless"},
                      may : SUBSET {"sync", "reveal", "revealFirst", "build", "max", "resweep",
                                    "rescan", "failure", "stop", "restart"}]
  /\ MaxHeight \in Nat \ {0} /\ MaxChange \in Nat

VARIABLES
  mix,        \* the configured chain backend, and what may happen in this behaviour
  height,     \* blocks in the best chain
  version,    \* which block stands at a height: a reorg replaces it once
  minedAt,    \* the height of the block that holds a coin, 0 when none does
  row,        \* bdk_changeset, {} when NULL
  cached,     \* the instance in WalletManager.cache
  store,      \* the instances
  request,    \* the operations being executed
  proposals,  \* change addresses used by inserted proposals
  shown,      \* has the receive page shown its addresses, and over what row
  overtaken,  \* history: some write was out of date
  dropped,    \* history: coins that were let go of before they reached the row
  rescanned   \* history: the rescan tool has written the row

chain   == <<mix, height, version, minedAt>>
history == <<overtaken, dropped, rescanned>>
vars    == <<chain, row, cached, store, request, proposals, shown, history>>

OverRpc == mix.backend = "rpc"
Coins   == Deposits \cup Sweeps
Heights == 1..MaxHeight

\* Facts: the descriptor and network of a fresh wallet; a checkpoint; a coin;
\* the external addresses in use revealed; a change address revealed.
Descriptor  == <<"descriptor">>
Block(h, v) == <<"block", h, v>>
Coin(c)     == <<"coin", c>>
External    == <<"external">>
Change(k)   == <<"change", k>>
Facts == {Descriptor, External} \cup {Block(h, v) : h \in Heights, v \in {1, 2}}
           \cup {Coin(c) : c \in Coins} \cup {Change(k) : k \in 1..MaxChange}

\* An instance: its wallet, what of it is staged, its aggregate, the change
\* addresses marked used in memory.  history: staged facts it threw away, and
\* whether the row has held something its aggregate does not, because someone
\* else wrote it since the load or the aggregate was replaced.
Instance == [wallet : SUBSET Facts, staged : SUBSET Facts, aggregate : SUBSET Facts,
             used : SUBSET (1..MaxChange), lost : SUBSET Facts, behind : BOOLEAN]
Unused   == [wallet |-> {}, staged |-> {}, aggregate |-> {}, used |-> {}, lost |-> {},
             behind |-> FALSE]

\* A slot: the operation, its next step, the instance it holds, the facts it
\* carries (a loaded wallet, a staged delta or the JSON to write), the change
\* address of what it builds.  history: has the row been written since it took
\* those facts, and has it had the wallet to itself.
Ops     == {"sync", "reveal", "revealFirst", "build", "max", "resweep", "rescan"}
Request == [op : Ops \cup {"none"},
            step : {"idle", "read", "seed", "insert", "touch", "merge", "replace",
                    "write", "rewrite", "store", "evict", "overwrite"},
            inst : Instances \cup {NoInstance}, facts : SUBSET Facts,
            change : 0..MaxChange, late : BOOLEAN, alone : BOOLEAN]
Idle    == [op |-> "none", step |-> "idle", inst |-> NoInstance, facts |-> {},
            change |-> 0, late |-> FALSE, alone |-> FALSE]

TypeOK ==
  /\ mix \in Mixes
  /\ height \in 0..MaxHeight
  /\ version \in [Heights -> {1, 2}]
  /\ minedAt \in [Coins -> 0..MaxHeight]
  /\ row \subseteq Facts
  /\ cached \in Instances \cup {NoInstance}
  /\ store \in [Instances -> Instance]
  /\ request \in [Requests -> Request]
  /\ proposals \subseteq 1..MaxChange
  /\ shown \in {"never", "parked", "tracked"}
  /\ overtaken \in BOOLEAN
  /\ dropped \subseteq Coins
  /\ rescanned \in BOOLEAN

Init ==
  /\ mix \in Mixes
  /\ height \in 0..1
  /\ version = [h \in Heights |-> 1]
  /\ minedAt = [c \in Coins |-> 0]
  /\ row = {}
  /\ cached = NoInstance
  /\ store = [i \in Instances |-> Unused]
  /\ request = [r \in Requests |-> Idle]
  /\ proposals = {}
  /\ shown = "never"
  /\ overtaken = FALSE
  /\ dropped = {}
  /\ rescanned = FALSE

-----------------------------------------------------------------------------
(* What a wallet makes of the chain *)

BlockAt(h)   == Block(h, version[h])
CoinsOf(cs)  == {c \in Coins : Coin(c) \in cs}
Blocks(cs)   == {b \in {Block(h, v) : h \in Heights, v \in {1, 2}} : b \in cs}
Parked(cs)   == Blocks(cs) = {}
Orphaned(cs) == {b \in Blocks(cs) : b # BlockAt(b[2])}
Below(h, cs) == \E b \in Blocks(cs) : h <= b[2]

\* Coins a wallet with these facts will not find by walking on from its tip.
Skipped(cs) == {c \in Coins : minedAt[c] > 0 /\ Below(minedAt[c], cs) /\ Coin(c) \notin cs}

\* chain_sync::emitter_sync walks block by block from the tip to a height.
Walk(cs, to) ==
  LET new == {h \in 1..to : ~Below(h, cs)}
  IN  {BlockAt(h) : h \in new} \cup {Coin(c) : c \in {x \in Coins : minedAt[x] \in new}}

\* A coin a wallet has seen reveals its address.
Revealed(cs) == cs \cup {f \in {External} : CoinsOf(cs) # {}}

\* The nodeless backends ask for the scripts revealed so far.
Scan(cs) ==
  LET coins == {c \in Coins : External \in Revealed(cs) /\ minedAt[c] > 0}
  IN  {Coin(c) : c \in coins} \cup {BlockAt(minedAt[c]) : c \in coins}
        \cup {BlockAt(h) : h \in {height} \ {0}}

\* A wallet rebuilt from nothing after a reorg keeps what it has revealed.
Rebuild(cs) ==
  Scan(cs) \cup {f \in Revealed(cs) : f[1] \in {"descriptor", "external", "change"}}

-----------------------------------------------------------------------------
(* Steps shared by the operations *)

Live(i) == cached = i \/ \E r \in Requests : request[r].inst = i

\* The instances once the requests are `next` and the cache is `keep`: one that
\* nothing refers to any more is freed.
Freed(s, next, keep) ==
  [i \in Instances |-> IF i = keep \/ \E r \in Requests : next[r].inst = i
                       THEN s[i] ELSE Unused]

Apply(r, next, s) ==
  LET reqs == [request EXCEPT ![r] = next]
  IN  /\ request' = reqs
      /\ store' = Freed(s, reqs, cached)

\* What it has taken from a wallet and the row may not hold yet.
Carried(r) == IF request[r].step \in {"merge", "replace", "write", "rewrite"}
              THEN request[r].facts ELSE {}

\* The row will not hear of these facts, unless it has them.
Drop(cs) == dropped' = dropped \cup CoinsOf(cs \ row)

Holds(r, step) == request[r].step = step
Its(r)         == store[request[r].inst]

\* A write of the row by request r with its instance, if it has one: whoever
\* else holds facts read from it, or an instance loaded from it, is behind.
MarkedLate(r) == [q \in Requests |->
  IF q # r /\ request[q].step \in {"seed", "insert", "write", "rewrite"}
  THEN [request[q] EXCEPT !.late = TRUE] ELSE request[q]]
MarkedBehind(inst) == [i \in Instances |->
  IF i # inst /\ Live(i) THEN [store[i] EXCEPT !.behind = TRUE] ELSE store[i]]
Outdated(r) == \/ request[r].late
               \/ request[r].inst # NoInstance /\ Its(r).behind
WriteRow(r, inst, facts, next) ==
  LET reqs == [MarkedLate(r) EXCEPT ![r] = next]
  IN  /\ row' = facts
      /\ request' = reqs
      /\ store' = Freed(MarkedBehind(inst), reqs, cached)
      /\ overtaken' = (overtaken \/ Outdated(r))

-----------------------------------------------------------------------------
(* load_or_init *)

NotAlone == [q \in Requests |-> [request[q] EXCEPT !.alone = FALSE]]

\* A handler starts an operation: load_or_init looks in the cache.
Arrive(r, op) ==
  /\ op \in mix.may
  /\ Holds(r, "idle")
  /\ LET quiet == \A q \in Requests : Holds(q, "idle")
     IN  request' = [NotAlone EXCEPT ![r] =
           [Idle EXCEPT !.op = op, !.inst = cached, !.alone = quiet /\ op = "sync",
                        !.step = IF cached = NoInstance THEN "read" ELSE "touch"]]
  /\ UNCHANGED <<chain, row, cached, store, proposals, shown, history>>

\* Mutant: every load seeds the birthday at the node's tip.
BirthdayAlways(cs) ==
  IF OverRpc /\ height > 0 THEN {BlockAt(height)} ELSE {}

\* The birthday: a wallet with no checkpoint above genesis starts at the
\* node's tip, when the backend is the node's own RPC.
Birthday(cs) ==
  IF OverRpc /\ Parked(cs) /\ height > 0 THEN {BlockAt(height)} ELSE {}

\* The row is read, the wallet built, and the birthday seeded.
ReadRow(r) ==
  /\ Holds(r, "read")
  /\ LET found  == row \cup {Descriptor}
         loaded == found \cup Birthday(found)
     IN  request' = [request EXCEPT ![r] = [request[r] EXCEPT
           !.facts = loaded, !.step = IF loaded = row THEN "insert" ELSE "seed"]]
  /\ UNCHANGED <<chain, row, cached, store, proposals, shown, history>>

\* The initial changeset is written before the instance is cached.
WriteInitial(r) ==
  /\ Holds(r, "seed")
  /\ WriteRow(r, NoInstance, request[r].facts, [request[r] EXCEPT !.step = "insert",
                                                                  !.late = FALSE])
  /\ UNCHANGED <<chain, cached, proposals, shown, dropped, rescanned>>

\* cache.entry(id).or_insert(fw): whoever comes first is what all share.
InsertCache(r) ==
  /\ Holds(r, "insert")
  /\ IF cached # NoInstance
     THEN /\ request' = [request EXCEPT ![r] = [request[r] EXCEPT
               !.step = "touch", !.inst = cached, !.facts = {}, !.late = FALSE]]
          /\ UNCHANGED <<cached, store>>
     ELSE \E i \in {j \in Instances : ~Live(j)} :
            /\ cached' = i
            /\ store' = [store EXCEPT ![i] = [Unused EXCEPT !.wallet = request[r].facts,
                                                            !.aggregate = request[r].facts,
                                                            !.behind = request[r].late]]
            /\ request' = [request EXCEPT ![r] = [request[r] EXCEPT
                 !.step = "touch", !.inst = i, !.facts = {}, !.late = FALSE]]
  /\ UNCHANGED <<chain, row, proposals, shown, history>>

-----------------------------------------------------------------------------
(* Under the lock on the wallet *)

Touches(r, op) == Holds(r, "touch") /\ request[r].op = op

\* The instance after the wallet learned `new` and its stage was taken.
Learned(r, new) == [Its(r) EXCEPT !.wallet = @ \cup new, !.staged = {}]

\* The stage is taken and goes to the aggregate, then to `done` if empty.
Carry(r, new, change, s) ==
  LET delta == Its(r).staged \cup (new \ Its(r).wallet)
      next  == IF delta # {}
               THEN [request[r] EXCEPT !.step = "merge", !.facts = delta, !.change = change]
               ELSE IF request[r].op = "build"
                    THEN [request[r] EXCEPT !.step = "store", !.change = change]
                    ELSE Idle
  IN  Apply(r, next, [store EXCEPT ![request[r].inst] = s])

\* The receive page is shown once its request is answered.
ShownBy(r, ends) ==
  shown' = IF ends /\ request[r].op = "reveal" /\ shown = "never"
           THEN IF Parked(row') THEN "parked" ELSE "tracked"
           ELSE shown

\* sync, when the chain has only grown for this wallet.
Sync(r) ==
  /\ Touches(r, "sync")
  /\ ~OverRpc => Orphaned(Its(r).wallet) = {}
  /\ LET new == IF OverRpc THEN Walk(Its(r).wallet, height) ELSE Scan(Its(r).wallet)
     IN  Carry(r, new, 0, Learned(r, new))
  /\ UNCHANGED <<chain, row, cached, proposals, shown, history>>

\* sync, when a nodeless backend finds a block of the wallet's gone: the wallet
\* is rebuilt, and its whole changeset is what is staged.
SyncRebuilt(r) ==
  /\ Touches(r, "sync")
  /\ ~OverRpc /\ Orphaned(Its(r).wallet) # {}
  /\ LET rebuilt == Rebuild(Its(r).wallet)
     IN  Apply(r, [request[r] EXCEPT !.step = "replace", !.facts = rebuilt],
               [store EXCEPT ![request[r].inst] =
                  [Its(r) EXCEPT !.wallet = rebuilt, !.staged = {}, !.lost = {}]])
  /\ UNCHANGED <<chain, row, cached, proposals, shown, history>>

\* The node stops answering: the blocks walked so far stay staged.
SyncFails(r) ==
  /\ "failure" \in mix.may
  /\ Touches(r, "sync")
  /\ \E to \in IF OverRpc THEN 0..height ELSE {0} :
       LET new == Walk(Its(r).wallet, to) \ Its(r).wallet
       IN  Apply(r, Idle, [store EXCEPT ![request[r].inst] =
             [Its(r) EXCEPT !.wallet = @ \cup new, !.staged = @ \cup new]])
  /\ UNCHANGED <<chain, row, cached, proposals, shown, history>>

Reveal(r) ==
  /\ Touches(r, "reveal")
  /\ Carry(r, {External}, 0, Learned(r, {External}))
  /\ UNCHANGED <<chain, row, cached, proposals, history>>
  /\ ShownBy(r, Its(r).staged = {} /\ External \in Its(r).wallet)

RevealFirst(r) ==
  /\ Touches(r, "revealFirst")
  /\ Carry(r, {External}, 0, Learned(r, {External}))
  /\ UNCHANGED <<chain, row, cached, proposals, shown, history>>

\* The lowest change address not in use, which BDK reveals and marks used.
IsNextChange(r, k) == k \notin Its(r).used /\ \A j \in 1..(k - 1) : j \in Its(r).used
Marked(r, k) == [Learned(r, {Change(k)}) EXCEPT !.used = @ \cup {k}]

\* Mutant: the stage is taken but not persisted.
BuildUnpersisted(r) ==
  /\ Touches(r, "build")
  /\ \/ Carry(r, {}, 0, Learned(r, {}))
     \/ \E k \in 1..MaxChange :
          /\ IsNextChange(r, k)
          /\ Apply(r, [request[r] EXCEPT !.step = "store", !.change = k],
                   [store EXCEPT ![request[r].inst] = Marked(r, k)])
  /\ UNCHANGED <<chain, row, cached, proposals, shown, history>>

\* build_proposal: a spend with change, or one that needs none, as the drains
\* of build_migration_tx and build_drain_tx.
Build(r) ==
  /\ Touches(r, "build")
  /\ \/ Carry(r, {}, 0, Learned(r, {}))
     \/ \E k \in 1..MaxChange :
          IsNextChange(r, k) /\ Carry(r, {Change(k)}, k, Marked(r, k))
  /\ UNCHANGED <<chain, row, cached, proposals, shown, history>>

\* It fails for want of coins after the change address was revealed: the ?
\* returns before take_staged.
BuildFails(r) ==
  /\ "failure" \in mix.may
  /\ Touches(r, "build")
  /\ \E k \in 1..MaxChange :
       /\ IsNextChange(r, k)
       /\ Apply(r, Idle, [store EXCEPT ![request[r].inst] =
            [Marked(r, k) EXCEPT !.staged = Its(r).staged \cup ({Change(k)} \ Its(r).wallet)]])
  /\ UNCHANGED <<chain, row, cached, proposals, shown, history>>

\* A preview or a resweep throws the stage away, whatever is in it.
Discarded(r) == [Its(r) EXCEPT !.lost = @ \cup Its(r).staged, !.staged = {}]

ComputeDrain(r) ==
  /\ Touches(r, "max")
  /\ Apply(r, Idle, [store EXCEPT ![request[r].inst] = Discarded(r)])
  /\ Drop(Its(r).staged)
  /\ UNCHANGED <<chain, row, cached, proposals, shown, overtaken, rescanned>>

BuildResweep(r) ==
  /\ Touches(r, "resweep")
  /\ \E next \in {Idle, [request[r] EXCEPT !.step = "evict"]} :
       Apply(r, next, [store EXCEPT ![request[r].inst] = Discarded(r)])
  /\ Drop(Its(r).staged)
  /\ UNCHANGED <<chain, row, cached, proposals, shown, overtaken, rescanned>>

-----------------------------------------------------------------------------
(* The aggregate and the UPDATE *)

\* Mutant: the rebuilt changeset is merged like any other.
ReplaceMerges(r) ==
  /\ Holds(r, "replace")
  /\ LET json == Its(r).aggregate \cup request[r].facts
     IN  Apply(r, [request[r] EXCEPT !.step = "rewrite", !.facts = json],
               [store EXCEPT ![request[r].inst].aggregate = json])
  /\ UNCHANGED <<chain, row, cached, proposals, shown, history>>

\* *agg = delta, and its JSON is what will be written.  What others merged
\* since the rebuild is gone from the aggregate, though not from the wallet.
Replace(r) ==
  /\ Holds(r, "replace")
  /\ LET forgotten == (Its(r).aggregate \ request[r].facts) \cap Its(r).wallet
     IN  Apply(r, [request[r] EXCEPT !.step = "rewrite"],
               [store EXCEPT ![request[r].inst] =
                  [Its(r) EXCEPT !.aggregate = request[r].facts, !.lost = @ \cup forgotten,
                                 !.behind = @ \/ forgotten # {}]])
  /\ UNCHANGED <<chain, row, cached, proposals, shown, history>>

\* Mutant: the delta alone is what is written.
MergeWritesDelta(r) ==
  /\ Holds(r, "merge")
  /\ Apply(r, [request[r] EXCEPT !.step = "write"],
           [store EXCEPT ![request[r].inst].aggregate = @ \cup request[r].facts])
  /\ UNCHANGED <<chain, row, cached, proposals, shown, history>>

\* Mutant: the delta is written but does not stay in the aggregate.
MergeForgets(r) ==
  /\ Holds(r, "merge")
  /\ Apply(r, [request[r] EXCEPT !.step = "write",
                                 !.facts = Its(r).aggregate \cup request[r].facts], store)
  /\ UNCHANGED <<chain, row, cached, proposals, shown, history>>

\* agg.merge(delta), and its JSON is what will be written.
Merge(r) ==
  /\ Holds(r, "merge")
  /\ LET json == Its(r).aggregate \cup request[r].facts
     IN  Apply(r, [request[r] EXCEPT !.step = "write", !.facts = json],
               [store EXCEPT ![request[r].inst].aggregate = json])
  /\ UNCHANGED <<chain, row, cached, proposals, shown, history>>

\* What follows a write: a proposal is inserted, other operations answer.
AfterWrite(r) == IF request[r].op = "build"
                 THEN [request[r] EXCEPT !.step = "store", !.facts = {}, !.late = FALSE]
                 ELSE Idle

\* db::update_federation_changeset: the whole column, whatever it holds now.
Write(r) ==
  /\ request[r].step \in {"write", "rewrite"}
  /\ WriteRow(r, request[r].inst, request[r].facts, AfterWrite(r))
  /\ ShownBy(r, TRUE)
  /\ UNCHANGED <<chain, cached, proposals, dropped, rescanned>>

\* The statement fails and so does the request: the aggregate keeps the delta.
WriteFails(r) ==
  /\ "failure" \in mix.may
  /\ request[r].step \in {"seed", "write", "rewrite"}
  /\ Apply(r, Idle, store)
  /\ Drop(Carried(r))
  /\ UNCHANGED <<chain, row, cached, proposals, shown, overtaken, rescanned>>

\* Mutant: a drain records a change address too.
InsertProposalAny(r) ==
  /\ Holds(r, "store")
  /\ proposals' = proposals \cup {request[r].change}
  /\ Apply(r, Idle, store)
  /\ UNCHANGED <<chain, row, cached, shown, history>>

\* db::insert_proposal.
InsertProposal(r) ==
  /\ Holds(r, "store")
  /\ proposals' = proposals \cup ({request[r].change} \ {0})
  /\ Apply(r, Idle, store)
  /\ UNCHANGED <<chain, row, cached, shown, history>>

\* evict_cache, whichever instance is cached by now.
EvictCache(r) ==
  /\ Holds(r, "evict")
  /\ cached' = NoInstance
  /\ request' = [request EXCEPT ![r] = Idle]
  /\ store' = Freed(store, request', NoInstance)
  /\ UNCHANGED <<chain, row, proposals, shown, history>>

-----------------------------------------------------------------------------
(* The rescan the process and the chain *)

\* rescan: a wallet from the descriptor alone, every address of the window
\* revealed, walked from a height of the operator's choice.
RescanWalk(r) ==
  /\ "rescan" \in mix.may
  /\ Holds(r, "idle") /\ OverRpc
  /\ \E from \in 0..height :
       LET start == {Descriptor, External} \cup {Change(k) : k \in 1..MaxChange}
                      \cup {BlockAt(h) : h \in {from} \ {0}}
       IN  request' = [NotAlone EXCEPT ![r] =
             [Idle EXCEPT !.op = "rescan", !.step = "overwrite",
                          !.facts = start \cup Walk(start, height)]]
  /\ UNCHANGED <<chain, row, cached, store, proposals, shown, history>>

\* Its changeset replaces the row's; the cache it clears is its own.
RescanWrite(r) ==
  /\ Holds(r, "overwrite")
  /\ WriteRow(r, NoInstance, request[r].facts, Idle)
  /\ rescanned' = TRUE
  /\ UNCHANGED <<chain, cached, proposals, shown, dropped>>

\* A client hangs up while its request waits for a lock or the database.
Stop(r) ==
  /\ "stop" \in mix.may
  /\ ~Holds(r, "idle")
  /\ Apply(r, Idle, IF request[r].step \in {"merge", "replace"}
                    THEN [store EXCEPT ![request[r].inst].lost = @ \cup request[r].facts]
                    ELSE store)
  /\ Drop(Carried(r))
  /\ UNCHANGED <<chain, row, cached, proposals, shown, overtaken, rescanned>>

Restart ==
  /\ "restart" \in mix.may
  /\ Drop(UNION {Carried(r) : r \in Requests})
  /\ cached' = NoInstance
  /\ request' = [r \in Requests |-> IF request[r].op = "rescan" THEN request[r] ELSE Idle]
  /\ store' = [i \in Instances |-> Unused]
  /\ UNCHANGED <<chain, row, proposals, shown, overtaken, rescanned>>

\* A block, with coins that someone had an address for.
Mine ==
  /\ height < MaxHeight
  /\ height' = height + 1
  /\ \E paid \in SUBSET {c \in Coins : minedAt[c] = 0 /\ (c \in Sweeps \/ shown # "never")} :
       minedAt' = [c \in Coins |-> IF c \in paid THEN height' ELSE minedAt[c]]
  /\ UNCHANGED <<mix, version, row, cached, store, request, proposals, shown,
                 history>>

\* The tip is replaced, once, by a block without its coins.  BDK's own merge handles
\* this over RPC; the nodeless backends rebuild.
Reorg ==
  /\ ~OverRpc
  /\ height > 0 /\ \A h \in Heights : version[h] = 1
  /\ version' = [version EXCEPT ![height] = 2]
  /\ minedAt' = [c \in Coins |-> IF minedAt[c] = height THEN 0 ELSE minedAt[c]]
  /\ UNCHANGED <<mix, height, row, cached, store, request, proposals, shown,
                 history>>

Load(r)  == ReadRow(r) \/ WriteInitial(r) \/ InsertCache(r)
Touch(r) == \/ Sync(r) \/ SyncRebuilt(r) \/ SyncFails(r) \/ Reveal(r) \/ RevealFirst(r)
            \/ Build(r) \/ BuildFails(r) \/ ComputeDrain(r) \/ BuildResweep(r)
Persist(r) == Merge(r) \/ Replace(r) \/ Write(r) \/ WriteFails(r) \/ InsertProposal(r)
Outside    == Restart \/ Mine \/ Reorg

Next ==
  \/ \E r \in Requests : \/ \E op \in Ops \ {"rescan"} : Arrive(r, op)
                         \/ Load(r) \/ Touch(r) \/ Persist(r) \/ EvictCache(r)
                         \/ RescanWalk(r) \/ RescanWrite(r) \/ Stop(r)
  \/ Outside

Spec == Init /\ [][Next]_vars

-----------------------------------------------------------------------------
(* Properties *)

\* Nothing a wallet has learned slips away between its lock and the lock on the
\* aggregate: it is in the aggregate, staged, carried by a request on its way
\* there, or was let go by a request that hung up, a preview or resweep that
\* discards the stage, or a rebuild (wallet.rs, the seam of every operation).
MemoryAccounted ==
  \A i \in Instances :
    store[i].wallet \subseteq store[i].aggregate \cup store[i].staged \cup store[i].lost
      \cup UNION {request[r].facts :
                    r \in {q \in Requests : /\ request[q].inst = i
                                           /\ request[q].step \in {"merge", "replace"}}}

\* A write of the row forgets a revealed address, or a coin it will not find
\* again, only when it is out of date (another write came in between, or it is
\* of an instance older than the row) or is a rescan, which starts where its
\* operator says.  In particular what a rescan recovered survives every wallet
\* loaded after it.  A nodeless rebuild does drop coins that a wallet in memory
\* still knows, when another request learned them since: those are not counted.
Forgotten == {f \in row : f[1] \in {"external", "change"} /\ f \notin row'}
               \cup {f \in row : /\ \E c \in Skipped(row)' : f = Coin(c)
                                 /\ OverRpc \/ \A i \in Instances : f \notin store[i].wallet}
OnlyOutdatedWritesForget ==
  [][Forgotten # {} => \E r \in Requests :
       request'[r].step # request[r].step /\ (Outdated(r) \/ request[r].op = "rescan")]_vars

\* After a sync that had the wallet to itself, the row holds all the wallet
\* knows but what was let go before; when a reorg made it rebuild, it holds
\* exactly that, with no coin of the block that is gone.
SettledRow ==
  [][\A r \in Requests :
       (/\ request[r].op = "sync" /\ request[r].alone
        /\ request[r].step \in {"write", "rewrite"}
        /\ request'[r].step = "idle" /\ row' = request[r].facts)
       => /\ Its(r).wallet \ Its(r).lost \subseteq row'
          /\ Holds(r, "rewrite") => row' = Its(r).wallet]_vars

\* Over RPC a coin below the row's tip that the row lacks is found by no wallet
\* loaded later.  Then it was there before the first block the row has, which
\* happens to sweeps into a successor nobody has opened yet, to deposits whose address
\* was shown while the row stood at genesis, and below the height a rescan was
\* given; or a request is on its way to the row with it; or it was let go
\* of, by a request that ended before its write, or by a preview or resweep that
\* threw the stage away after a sync that failed; or a write was out of date.
Early(c, cs) == /\ c \in Sweeps \/ shown = "parked" \/ rescanned
                /\ \A b \in Blocks(cs) : minedAt[c] <= b[2]
SkippedForACause ==
  OverRpc /\ ~overtaken =>
    \A c \in Skipped(row) :
      Early(c, row) \/ c \in dropped \/ \E r \in Requests : Coin(c) \in Carried(r)

\* The row knows the change address of every proposal that was inserted, so a
\* wallet loaded later recognises the change, unless a write was out of date.
ChangeScriptPersisted ==
  ~overtaken => \A k \in proposals : Change(k) \in row
=============================================================================
