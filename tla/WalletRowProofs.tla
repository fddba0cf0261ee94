--------------------------- MODULE WalletRowProofs ---------------------------
(***************************************************************************)
(* Theorems about the row in WalletStore: what a write may forget, which   *)
(* change addresses it knows, what it holds after a sync, and which coins  *)
(* below its tip it may lack.                                              *)
(*                                                                         *)
(* The first invariant says how far each instance and each slot knows the  *)
(* row.  Over RPC the aggregate of an instance that is not behind has all  *)
(* the row has; with a nodeless backend it has the row's addresses, and    *)
(* the wallet will find the row's coins again.                             *)
(*                                                                         *)
(* The second, over RPC alone, follows the coins: whoever may write the    *)
(* row next, and whatever they would write from, misses a coin only for a  *)
(* cause.                                                                  *)
(***************************************************************************)
EXTENDS WalletStoreProofs

-----------------------------------------------------------------------------
(* The inductive invariant *)

\* What is around the instances and the slots.
World == [backend |-> mix.backend, mined |-> minedAt, height |-> height,
          row |-> row, overtaken |-> overtaken]
Worlds == [backend : {"rpc", "nodeless"}, mined : [Coins -> 0..MaxHeight],
           height : 0..MaxHeight, row : SUBSET Facts, overtaken : BOOLEAN]
Nodeless(u) == u.backend = "nodeless"

\* What an aggregate keeps for good: a nodeless rebuild drops coins and blocks.
Addresses  == {f \in Facts : f[1] \in {"external", "change"}}
Lasting(u) == IF Nodeless(u) THEN Addresses ELSE Facts

\* Skipped, in any world; the coins of cs, if a wallet lacks them, are ahead of
\* it; a wallet is topped by another; it has every address and will have every
\* coin of cs; it is not ahead of the chain.
Missed(u, cs) == {c \in Coins : /\ u.mined[c] > 0 /\ Below(u.mined[c], cs)
                                /\ Coin(c) \notin cs}
Finds(u, known, cs) ==
  \A c \in CoinsOf(cs) : External \in Revealed(known) /\ c \notin Missed(u, known)
Tops(known, cs) == \A h \in Heights : Below(h, cs) => Below(h, known)
Covers(u, known, cs) == cs \cap Addresses \subseteq known /\ Tops(known, cs) /\ Finds(u, known, cs)
Reaches(u, known) == \A h \in Heights : Below(h, known) => h <= u.height

\* An instance, if it is in use.
UsedStored(u, s) ==
  ~u.overtaken => \A k \in (1..MaxChange) \ s.used : Change(k) \in s.wallet => Change(k) \in u.row
Ahead(u, s) == ~s.behind => u.row \cap Lasting(u) \subseteq s.aggregate
Knows(u, s) == Nodeless(u) =>
  /\ Covers(u, s.wallet, s.aggregate) /\ Covers(u, s.wallet, s.staged) /\ Reaches(u, s.wallet)
  /\ ~s.behind => Finds(u, s.wallet, u.row)
InstSound(u, s) == UsedStored(u, s) /\ Ahead(u, s) /\ Knows(u, s)

\* A slot, with the instance it holds.
Loose == {"idle", "read", "seed", "insert", "overwrite"}
Shape(u, q) ==
  /\ q.step \in Loose <=> q.inst = NoInstance
  /\ q.step = "overwrite" <=> q.op = "rescan"
  /\ q.step = "overwrite" => ~Nodeless(u)
  /\ q.step \in {"replace", "rewrite"} => Nodeless(u)
  /\ q.change # 0 => q.step \in {"merge", "write", "store"}
Loading(u, q) == q.step \in {"seed", "insert"} =>
  /\ ~q.late => u.row \subseteq q.facts
  /\ ~u.overtaken => q.facts \cap Addresses \subseteq u.row
  /\ Nodeless(u) => Reaches(u, q.facts)
Carrying(u, q, s) ==
  /\ q.step \in {"merge", "replace", "write", "rewrite"} /\ Nodeless(u) =>
       Covers(u, s.wallet, q.facts)
  /\ q.step \in {"write", "rewrite"} /\ ~s.behind =>
       /\ q.facts \cap Lasting(u) \subseteq s.aggregate
       /\ ~q.late => u.row \cap Lasting(u) \subseteq q.facts
Changing(u, q) == ~u.overtaken /\ q.change # 0 =>
  Change(q.change) \in u.row \/ (q.step # "store" /\ Change(q.change) \in q.facts)
Rescanned(q) == q.step = "overwrite" => Addresses \subseteq q.facts
SlotSound(u, q, s) ==
  /\ Shape(u, q) /\ Loading(u, q) /\ Carrying(u, q, s) /\ Changing(u, q) /\ Rescanned(q)

InUse(reqs, keep, i) == keep = i \/ \E r \in Requests : reqs[r].inst = i
Memory(u, reqs, insts, keep) ==
  /\ \A i \in Instances : InUse(reqs, keep, i) => InstSound(u, insts[i])
  /\ \A r \in Requests : SlotSound(u, reqs[r], insts[reqs[r].inst])
RowSound(u, made) ==
  /\ \A c \in Coins : u.mined[c] <= u.height
  /\ Nodeless(u) => Reaches(u, u.row)
  /\ ~u.overtaken => \A k \in made : Change(k) \in u.row

RowInv == Memory(World, request, store, cached) /\ RowSound(World, proposals)
Inv == WalletInv /\ RowInv

-----------------------------------------------------------------------------
(* What wallets know *)

LEMMA FactKinds ==
  /\ \A h, v : Block(h, v)[1] = "block" /\ Block(h, v)[2] = h
  /\ \A c : Coin(c)[1] = "coin" /\ Coin(c)[2] = c
  /\ External[1] = "external" /\ Descriptor[1] = "descriptor"
  /\ \A k : Change(k)[1] = "change" /\ Change(k)[2] = k
  BY DEF Block, Coin, External, Descriptor, Change

LEMMA AddressTypes ==
  /\ External \in Addresses /\ \A k \in 1..MaxChange : Change(k) \in Addresses
  /\ Addresses \subseteq Facts
  /\ \A c : Coin(c) \notin Addresses
  /\ \A h, v : Block(h, v) \notin Addresses
  BY FactTypes, FactKinds DEF Addresses

LEMMA CoinsAre == \A cs, c : c \in CoinsOf(cs) <=> c \in Coins /\ Coin(c) \in cs
  BY DEF CoinsOf

LEMMA BlocksAre ==
  \A cs, h : Below(h, cs) <=> \E b \in Heights, v \in {1, 2} : Block(b, v) \in cs /\ h <= b
<1> SUFFICES ASSUME NEW cs, NEW h
             PROVE  Below(h, cs) <=> \E b \in Heights, v \in {1, 2} : Block(b, v) \in cs /\ h <= b
  OBVIOUS
<1>1. \A b, v : Block(b, v)[2] = b
  BY FactKinds
<1> QED
  BY <1>1 DEF Below, Blocks

LEMMA BelowGrows ==
  /\ \A h, a, b : a \subseteq b /\ Below(h, a) => Below(h, b)
  /\ \A h, a, b : Below(h, a \cup b) <=> Below(h, a) \/ Below(h, b)
  BY BlocksAre

LEMMA BelowAddresses ==
  \A h, a, b : b \subseteq Addresses => (Below(h, a \cup b) <=> Below(h, a))
  BY BlocksAre, AddressTypes

LEMMA RevealedIs ==
  \A cs : External \in Revealed(cs) <=> External \in cs \/ \E c \in Coins : Coin(c) \in cs
  BY CoinsAre DEF Revealed

LEMMA MissedIs ==
  \A u, cs, c : c \in Missed(u, cs) <=> /\ c \in Coins /\ u.mined[c] > 0
                                        /\ Below(u.mined[c], cs) /\ Coin(c) \notin cs
  BY DEF Missed

\* A wallet covers what it holds, and all it covers at once.
LEMMA SubsetCovered ==
  ASSUME NEW u, NEW known, NEW cs, cs \subseteq known
  PROVE  Covers(u, known, cs)
  BY BelowGrows, CoinsAre, RevealedIs, MissedIs DEF Covers, Tops, Finds

LEMMA UnionCovered ==
  ASSUME NEW u, NEW known, NEW a, NEW b, Covers(u, known, a), Covers(u, known, b)
  PROVE  Covers(u, known, a \cup b)
  BY BelowGrows, CoinsAre DEF Covers, Tops, Finds

\* A wallet that grows, or is rebuilt, still covers what it covered.
Grows(u, old, new) ==
  /\ old \cap Addresses \subseteq new /\ Tops(new, old)
  /\ External \in Revealed(old) => /\ External \in Revealed(new)
                                   /\ Missed(u, new) \subseteq Missed(u, old)

LEMMA GrowingCovers ==
  ASSUME NEW u, NEW old, NEW new, Grows(u, old, new), NEW cs
  PROVE  /\ Covers(u, old, cs) => Covers(u, new, cs)
         /\ Finds(u, old, cs) => Finds(u, new, cs)
<1>1. Finds(u, old, cs) => Finds(u, new, cs)
  BY DEF Grows, Finds
<1>2. Tops(old, cs) => Tops(new, cs)
  BY DEF Grows, Tops
<1>3. cs \cap Addresses \subseteq old => cs \cap Addresses \subseteq new
  BY DEF Grows
<1> QED
  BY <1>1, <1>2, <1>3 DEF Covers

\* New addresses hide no coin.
LEMMA AddressesGrow ==
  ASSUME NEW u, NEW old, NEW new, new \subseteq Addresses
  PROVE  Grows(u, old, old \cup new) /\ (Reaches(u, old) => Reaches(u, old \cup new))
<1>1. Missed(u, old \cup new) \subseteq Missed(u, old)
  BY BelowAddresses, MissedIs
<1>2. External \in Revealed(old) => External \in Revealed(old \cup new)
  BY RevealedIs
<1>3. Tops(old \cup new, old)
  BY BelowGrows DEF Tops
<1> QED
  BY <1>1, <1>2, <1>3, BelowAddresses DEF Grows, Reaches

-----------------------------------------------------------------------------
(* What the chain adds to a nodeless wallet *)

LEMMA WorldIs ==
  ASSUME WalletInv
  PROVE  /\ World \in Worlds /\ World.mined = minedAt /\ World.height = height
         /\ World.row = row /\ World.overtaken = overtaken
         /\ OverRpc <=> ~Nodeless(World)
<1>1. mix.backend \in {"rpc", "nodeless"}
  BY WalletStoreAssumption DEF WalletInv, Outer
<1> QED
  BY <1>1 DEF World, Worlds, Nodeless, OverRpc, WalletInv, Outer

\* A scan finds every coin of a wallet whose addresses are revealed, and adds
\* blocks of the chain, its tip among them.
LEMMA ScanFinds ==
  ASSUME WalletInv, \A c \in Coins : minedAt[c] <= height, NEW cs
  PROVE  /\ \A h \in Heights : Below(h, Scan(cs)) => h <= height
         /\ \A h \in Heights : h <= height => Below(h, Scan(cs))
         /\ External \in Revealed(cs) => \A c \in Coins : minedAt[c] > 0 => Coin(c) \in Scan(cs)
<1>1. /\ height \in 0..MaxHeight /\ MaxHeight \in Nat
      /\ minedAt \in [Coins -> 0..MaxHeight] /\ version \in [Heights -> {1, 2}]
  BY WalletStoreAssumption DEF WalletInv, Outer
<1>2. /\ \A n : BlockAt(n)[2] = n /\ \A h \in Heights : BlockAt(h) \in {Block(h, 1), Block(h, 2)}
      /\ \A c \in Coins : \A b, v : Coin(c) # Block(b, v)
  BY <1>1, FactKinds DEF BlockAt
<1>3. \A b, v : Block(b, v) \in Scan(cs) => b <= height
  <2> SUFFICES ASSUME NEW b, NEW v, Block(b, v) \in Scan(cs)
               PROVE  b <= height
    OBVIOUS
  <2>1. \/ \E c \in Coins : minedAt[c] > 0 /\ Block(b, v) = BlockAt(minedAt[c])
        \/ Block(b, v) = BlockAt(height)
    BY <1>2 DEF Scan
  <2> QED
    BY <1>1, <1>2, <2>1, FactKinds
<1>4. ASSUME NEW h \in Heights, Below(h, Scan(cs))
      PROVE  h <= height
  <2>1. PICK b \in Heights, v \in {1, 2} : Block(b, v) \in Scan(cs) /\ h <= b
    BY <1>4, BlocksAre
  <2>2. b <= height /\ b \in Nat /\ height \in Nat
    BY <1>1, <1>3, <2>1 DEF Heights
  <2> QED
    BY <2>1, <2>2 DEF Heights
<1>5. ASSUME NEW h \in Heights, h <= height
      PROVE  Below(h, Scan(cs))
  <2>1. height \in Heights /\ height # 0
    BY <1>1, <1>5 DEF Heights
  <2>2. BlockAt(height) \in Scan(cs)
    BY <2>1 DEF Scan
  <2> QED
    BY <1>2, <1>5, <2>1, <2>2, BlocksAre
<1>6. External \in Revealed(cs) => \A c \in Coins : minedAt[c] > 0 => Coin(c) \in Scan(cs)
  BY DEF Scan
<1> QED
  BY <1>4, <1>5, <1>6

LEMMA ScanGrows ==
  ASSUME WalletInv, \A c \in Coins : minedAt[c] <= height, NEW cs, Reaches(World, cs)
  PROVE  Grows(World, cs, cs \cup Scan(cs)) /\ Reaches(World, cs \cup Scan(cs))
<1> DEFINE new == cs \cup Scan(cs)
<1>1. Reaches(World, new)
  BY WorldIs, ScanFinds, BelowGrows DEF Reaches
<1>2. External \in Revealed(cs) => External \in Revealed(new) /\ Missed(World, new) = {}
  BY WorldIs, ScanFinds, RevealedIs, MissedIs
<1>3. Tops(new, cs)
  BY BelowGrows DEF Tops
<1> QED
  BY <1>1, <1>2, <1>3 DEF Grows

LEMMA RebuildGrows ==
  ASSUME WalletInv, \A c \in Coins : minedAt[c] <= height, NEW cs, cs \subseteq Facts,
         Reaches(World, cs)
  PROVE  /\ Grows(World, cs, Rebuild(cs)) /\ Reaches(World, Rebuild(cs))
         /\ \A k : Change(k) \in Rebuild(cs) => Change(k) \in cs
<1> DEFINE new == Rebuild(cs)
<1>1. Scan(cs) \subseteq new /\ cs \cap Addresses \subseteq new
  BY DEF Rebuild, Revealed, Addresses
<1>2. \A h : Below(h, new) => Below(h, Scan(cs))
  <2>1. \A b \in Heights, v \in {1, 2} : Block(b, v) \in new => Block(b, v) \in Scan(cs)
    BY FactKinds DEF Rebuild
  <2> QED
    BY <2>1, BlocksAre
<1>3. Reaches(World, new)
  BY <1>2, WorldIs, ScanFinds DEF Reaches
<1>4. Tops(new, cs)
  BY <1>1, WorldIs, ScanFinds, BelowGrows DEF Tops, Reaches
<1>5. External \in Revealed(cs) => External \in Revealed(new) /\ Missed(World, new) = {}
  <2>1. External \in Revealed(cs) => External \in new
    BY FactKinds DEF Rebuild
  <2> QED
    BY <1>1, <2>1, WorldIs, ScanFinds, RevealedIs, MissedIs
<1>6. \A k : Change(k) \in new => Change(k) \in cs
  BY FactKinds DEF Rebuild, Scan, BlockAt, Revealed
<1> QED
  BY <1>1, <1>3, <1>4, <1>5, <1>6 DEF Grows

-----------------------------------------------------------------------------
(* Moves *)

\* A slot that holds no instance does not depend on one.
LEMMA LooseSlots ==
  ASSUME NEW u, NEW q, q.inst = NoInstance, NEW s, SlotSound(u, q, s), NEW t
  PROVE  SlotSound(u, q, t)
  BY DEF SlotSound, Shape, Carrying, Loose

\* What an instance may become under the slots that hold it.
Follows(u, old, new) ==
  /\ ~new.behind => ~old.behind /\ old.aggregate \cap Lasting(u) \subseteq new.aggregate
  /\ Nodeless(u) => Grows(u, old.wallet, new.wallet)

LEMMA FollowingSlots ==
  ASSUME NEW u, NEW q, NEW old, NEW new, Follows(u, old, new), SlotSound(u, q, old)
  PROVE  SlotSound(u, q, new)
<1>1. Carrying(u, q, new)
  <2>1. Nodeless(u) /\ Covers(u, old.wallet, q.facts) => Covers(u, new.wallet, q.facts)
    BY GrowingCovers DEF Follows
  <2> QED
    BY <2>1 DEF SlotSound, Carrying, Follows
<1> QED
  BY <1>1 DEF SlotSound

LEMMA SameFollows == \A u, s : Follows(u, s, s)
  BY BelowGrows DEF Follows, Grows, Tops

\* One slot and its instance move.
LEMMA MoveIsGood ==
  ASSUME request \in [Requests -> Request], store \in [Instances -> Instance],
         Memory(World, request, store, cached), NEW r \in Requests, NEW next \in Request,
         NEW j \in Instances, NEW s \in Instance,
         request[r].inst = j, next.inst \in {j, NoInstance},
         Follows(World, store[j], s), InstSound(World, s), SlotSound(World, next, s)
  PROVE  Memory(World, [request EXCEPT ![r] = next], [store EXCEPT ![j] = s], cached)
<1> DEFINE reqs == [request EXCEPT ![r] = next]
           insts == [store EXCEPT ![j] = s]
<1>1. /\ reqs[r] = next /\ \A q \in Requests \ {r} : reqs[q] = request[q]
      /\ insts[j] = s /\ \A i : i # j => insts[i] = store[i]
      /\ NoInstance \notin Instances
  BY WalletStoreAssumption
<1> HIDE DEF reqs, insts
<1>2. ASSUME NEW i \in Instances, InUse(reqs, cached, i)
      PROVE  InstSound(World, insts[i])
  <2>1. InUse(request, cached, i)
    BY <1>1, <1>2 DEF InUse
  <2> QED
    BY <1>1, <2>1 DEF Memory
<1>3. ASSUME NEW q \in Requests
      PROVE  SlotSound(World, reqs[q], insts[reqs[q].inst])
  <2>1. CASE q = r
    BY <1>1, <2>1, LooseSlots
  <2>2. CASE q # r
    BY <1>1, <2>2, FollowingSlots DEF Memory
  <2> QED
    BY <2>1, <2>2
<1> QED
  BY <1>2, <1>3 DEF Memory, reqs, insts

\* A slot moves alone, and holds an instance only if it was in use.
LEMMA SlotMoveIsGood ==
  ASSUME NEW u, NEW keep, NEW reqs, DOMAIN reqs = Requests, NEW insts,
         Memory(u, reqs, insts, keep), NEW r \in Requests, NEW next,
         next.inst \in Instances => InUse(reqs, keep, next.inst),
         SlotSound(u, next, insts[next.inst])
  PROVE  Memory(u, [reqs EXCEPT ![r] = next], insts, keep)
<1> DEFINE reqs2 == [reqs EXCEPT ![r] = next]
<1>1. reqs2[r] = next /\ \A q \in Requests \ {r} : reqs2[q] = reqs[q]
  OBVIOUS
<1> HIDE DEF reqs2
<1>2. \A i \in Instances : InUse(reqs2, keep, i) => InUse(reqs, keep, i)
  BY <1>1 DEF InUse
<1> QED
  BY <1>1, <1>2 DEF Memory, reqs2

\* Freeing what nothing refers to.
LEMMA FreeingIsGood ==
  ASSUME NEW u, NEW keep, NEW reqs \in [Requests -> Request],
         NEW insts \in [Instances -> Instance], Memory(u, reqs, insts, keep)
  PROVE  Memory(u, reqs, Freed(insts, reqs, keep), keep)
<1> DEFINE next == Freed(insts, reqs, keep)
<1>1. \A i \in Instances : InUse(reqs, keep, i) => next[i] = insts[i]
  BY DEF Freed, InUse
<1> HIDE DEF next
<1>2. ASSUME NEW r \in Requests
      PROVE  SlotSound(u, reqs[r], next[reqs[r].inst])
  <2>1. reqs[r].inst \in Instances => InUse(reqs, keep, reqs[r].inst)
    BY DEF InUse
  <2>2. reqs[r].inst \in Instances \cup {NoInstance}
    BY DEF Request
  <2> QED
    BY <1>1, <2>1, <2>2, LooseSlots DEF Memory
<1> QED
  BY <1>1, <1>2 DEF Memory, next

-----------------------------------------------------------------------------
(* What the steps have in common *)

Around == UNCHANGED <<chain, row, overtaken>>

LEMMA AroundIs == Around => World' = World
  BY DEF Around, World, chain

LEMMA Types ==
  ASSUME WalletInv
  PROVE  /\ store \in [Instances -> Instance] /\ request \in [Requests -> Request]
         /\ cached \in Instances \cup {NoInstance} /\ row \subseteq Facts
         /\ NoInstance \notin Instances
  BY WalletStoreAssumption DEF WalletInv, MemoryInv, Outer

\* What the invariant says of the slot that moves and of its instance.
LEMMA SlotIs ==
  ASSUME Inv, NEW r \in Requests
  PROVE  /\ request[r] \in Request /\ SlotSound(World, request[r], Its(r))
         /\ request[r].inst \in Instances => Its(r) \in Instance /\ InstSound(World, Its(r))
<1>1. request[r].inst \in Instances => InUse(request, cached, request[r].inst)
  BY DEF InUse
<1> QED
  BY <1>1, Types DEF Inv, RowInv, Memory, Its

LEMMA RowInvFrom ==
  ASSUME Memory(World', request', store', cached'), RowSound(World', proposals')
  PROVE  RowInv'
  BY DEF RowInv

\* A step of a slot under the lock on its wallet or on its aggregate.
LEMMA ApplyIsGood ==
  ASSUME Inv, Around, UNCHANGED <<cached, proposals>>, NEW r \in Requests,
         request[r].inst \in Instances, NEW next \in Request, next.inst \in {request[r].inst, NoInstance},
         NEW s \in Instance, Follows(World, Its(r), s), InstSound(World, s),
         SlotSound(World, next, s), Apply(r, next, [store EXCEPT ![request[r].inst] = s])
  PROVE  RowInv'
<1> DEFINE reqs == [request EXCEPT ![r] = next]
           insts == [store EXCEPT ![request[r].inst] = s]
<1>1. reqs \in [Requests -> Request] /\ insts \in [Instances -> Instance]
  BY Types DEF Inv
<1>2. Memory(World, reqs, insts, cached)
  <2>1. Memory(World, request, store, cached) /\ Follows(World, store[request[r].inst], s)
    BY DEF Inv, RowInv, Its
  <2>2. request \in [Requests -> Request] /\ store \in [Instances -> Instance]
    BY Types DEF Inv
  <2> QED
    BY <2>1, <2>2, MoveIsGood
<1>3. request' = reqs /\ store' = Freed(insts, reqs, cached)
  BY DEF Apply
<1> HIDE DEF reqs, insts
<1>4. Memory(World', request', store', cached')
  BY <1>1, <1>2, <1>3, FreeingIsGood, AroundIs
<1> QED
  BY <1>4, AroundIs, RowInvFrom DEF Inv, RowInv

\* A step of a slot that leaves every instance as it is, or frees it.
LEMMA ApplySlotIsGood ==
  ASSUME Inv, Around, cached' = cached, NEW r \in Requests, NEW next \in Request,
         next.inst \in {request[r].inst, NoInstance},
         ~overtaken => \A k \in proposals' \ proposals : Change(k) \in row,
         SlotSound(World, next, store[next.inst]), Apply(r, next, store)
  PROVE  RowInv'
<1> DEFINE reqs == [request EXCEPT ![r] = next]
<1>1. reqs \in [Requests -> Request]
  BY Types DEF Inv
<1>2. next.inst \in Instances => InUse(request, cached, next.inst)
  BY Types DEF InUse, Inv
<1>3. Memory(World, reqs, store, cached)
  BY <1>2, Types, SlotMoveIsGood DEF Inv, RowInv
<1>4. request' = reqs /\ store' = Freed(store, reqs, cached)
  BY DEF Apply
<1> HIDE DEF reqs
<1>5. Memory(World', request', store', cached')
  BY <1>1, <1>3, <1>4, Types, FreeingIsGood, AroundIs DEF Inv
<1>6. RowSound(World', proposals')
  BY AroundIs DEF Inv, RowInv, RowSound, World
<1> QED
  BY <1>5, <1>6, RowInvFrom

\* A write of the row: whoever knew the old one is late or behind.
LEMMA WriteRowIsGood ==
  ASSUME Inv, UNCHANGED <<chain, proposals, cached>>, NEW r \in Requests,
         NEW inst \in Instances \cup {NoInstance}, inst \in {request[r].inst, NoInstance},
         NEW facts \in SUBSET Facts, ~Outdated(r) => row \cap Addresses \subseteq facts,
         Nodeless(World) => Reaches(World, facts),
         inst \in Instances =>
           /\ ~Its(r).behind => facts \cap Lasting(World) \subseteq Its(r).aggregate
           /\ Nodeless(World) => Finds(World, Its(r).wallet, facts),
         NEW next \in Request, next.inst \in {request[r].inst, NoInstance},
         Shape(World, next), Loading(World', next),
         next.step \notin {"merge", "replace", "write", "rewrite"},
         Changing(World', next), Rescanned(next),
         WriteRow(r, inst, facts, next)
  PROVE  RowInv'
<1> DEFINE u == World
           v == World'
           reqs == [MarkedLate(r) EXCEPT ![r] = next]
           insts == MarkedBehind(inst)
<1>1. /\ v.row = facts /\ u.row = row /\ v.mined = u.mined /\ v.height = u.height
      /\ v.backend = u.backend /\ u.overtaken = overtaken
      /\ overtaken \in BOOLEAN /\ v.overtaken = (overtaken \/ Outdated(r))
  BY DEF World, WriteRow, chain, Inv, WalletInv, Outer
<1>2. ~v.overtaken => ~u.overtaken /\ u.row \cap Addresses \subseteq v.row
  BY <1>1
<1>3. /\ Nodeless(v) <=> Nodeless(u)
      /\ Lasting(v) = Lasting(u)
      /\ \A known, cs : /\ Finds(v, known, cs) <=> Finds(u, known, cs)
                        /\ Covers(v, known, cs) <=> Covers(u, known, cs)
      /\ \A known : Reaches(v, known) <=> Reaches(u, known)
  BY <1>1 DEF Nodeless, Lasting, Finds, Covers, Reaches, Missed
<1>4. reqs \in [Requests -> Request] /\ insts \in [Instances -> Instance]
  BY MarksAreSound, MemoryIsSound DEF Sound, Inv, WalletInv
<1>5. /\ reqs[r] = next
      /\ \A q \in Requests \ {r} :
           /\ reqs[q].op = request[q].op /\ reqs[q].step = request[q].step
           /\ reqs[q].inst = request[q].inst /\ reqs[q].facts = request[q].facts
           /\ reqs[q].change = request[q].change
           /\ reqs[q].step \in {"seed", "insert", "write", "rewrite"} => reqs[q].late
  BY Types DEF MarkedLate, Request, Inv
<1>6. \A i \in Instances :
        /\ insts[i].wallet = store[i].wallet /\ insts[i].aggregate = store[i].aggregate
        /\ insts[i].staged = store[i].staged /\ insts[i].used = store[i].used
        /\ i = inst => insts[i].behind = store[i].behind
        /\ i # inst /\ InUse(request, cached, i) => insts[i].behind
  BY Types DEF MarkedBehind, Instance, Live, InUse, Inv
<1>7. \A i \in Instances : InUse(reqs, cached, i) => InUse(request, cached, i)
  <2>1. \A q \in Requests : reqs[q].inst \in {request[q].inst, NoInstance}
    BY <1>5
  <2> HIDE DEF reqs
  <2> QED
    BY <2>1, Types DEF InUse, Inv
<1>8. request' = reqs /\ store' = Freed(insts, reqs, cached)
  BY DEF WriteRow
<1>0. inst \in Instances =>
        /\ ~store[inst].behind => facts \cap Lasting(u) \subseteq store[inst].aggregate
        /\ Nodeless(u) => Finds(u, store[inst].wallet, facts)
  BY Types DEF Its, Inv
<1> HIDE DEF u, v, reqs, insts
<1>9. ASSUME NEW i \in Instances, InUse(reqs, cached, i)
      PROVE  InstSound(v, insts[i])
  <2>1. InstSound(u, store[i])
    BY <1>7, <1>9 DEF Inv, RowInv, Memory, u
  <2>2. UsedStored(v, insts[i])
    BY <1>2, <1>6, <2>1, AddressTypes DEF InstSound, UsedStored
  <2>3. Ahead(v, insts[i])
    BY <1>0, <1>1, <1>3, <1>6, <1>7, <1>9 DEF Ahead
  <2>4. Knows(v, insts[i])
    BY <1>0, <1>1, <1>3, <1>6, <1>7, <1>9, <2>1 DEF InstSound, Knows
  <2> QED
    BY <2>2, <2>3, <2>4 DEF InstSound
<1>10. ASSUME NEW q \in Requests
       PROVE  SlotSound(v, reqs[q], insts[reqs[q].inst])
  <2>1. CASE q = r
    <3>1. Shape(v, next) /\ Loading(v, next) /\ Changing(v, next)
      BY <1>3 DEF Shape, u, v
    <3> QED
      BY <1>5, <2>1, <3>1 DEF SlotSound, Carrying
  <2>2. CASE q # r
    <3>1. SlotSound(u, request[q], store[request[q].inst])
      BY DEF Inv, RowInv, Memory, u
    <3>2. /\ Shape(v, reqs[q]) /\ Loading(v, reqs[q]) /\ Rescanned(reqs[q])
      <4>1. Shape(v, reqs[q]) /\ Rescanned(reqs[q])
        BY <1>3, <1>5, <2>2, <3>1 DEF SlotSound, Shape, Rescanned
      <4>2. Loading(v, reqs[q])
        BY <1>2, <1>3, <1>5, <2>2, <3>1 DEF SlotSound, Loading
      <4> QED
        BY <4>1, <4>2
    <3>3. Changing(v, reqs[q])
      BY <1>2, <1>5, <2>2, <3>1, AddressTypes, Types DEF SlotSound, Changing, Request, Inv
    <3>4. Carrying(v, reqs[q], insts[reqs[q].inst])
      <4>1. CASE request[q].inst \in Instances
        <5>1. InUse(request, cached, request[q].inst)
          BY DEF InUse
        <5> QED
          BY <1>3, <1>5, <1>6, <2>2, <3>1, <4>1, <5>1 DEF SlotSound, Carrying
      <4>2. CASE request[q].inst = NoInstance
        BY <1>5, <2>2, <3>1, <4>2 DEF SlotSound, Carrying, Shape, Loose
      <4> QED
        BY <4>1, <4>2, Types DEF Request, Inv
    <3> QED
      BY <3>2, <3>3, <3>4 DEF SlotSound
  <2> QED
    BY <2>1, <2>2
<1>11. Memory(v, reqs, insts, cached)
  BY <1>9, <1>10 DEF Memory
<1>12. Memory(v, request', store', cached')
  BY <1>4, <1>8, <1>11, FreeingIsGood
<1>13. RowSound(v, proposals')
  <2>1. RowSound(u, proposals) /\ proposals \subseteq 1..MaxChange
    BY DEF Inv, RowInv, WalletInv, Outer, u
  <2> QED
    BY <1>1, <1>2, <1>3, <2>1, AddressTypes DEF RowSound, u
<1> QED
  BY <1>12, <1>13, RowInvFrom DEF v

-----------------------------------------------------------------------------
(* Under the lock on the wallet *)

LEMMA TouchIs ==
  ASSUME Inv, NEW r \in Requests, request[r].step = "touch"
  PROVE  /\ request[r] \in Request /\ request[r].inst \in Instances
         /\ request[r].change = 0 /\ request[r].op # "rescan"
         /\ Its(r) \in Instance /\ InstSound(World, Its(r))
<1>1. request[r] \in Request /\ Shape(World, request[r])
  BY SlotIs DEF SlotSound
<1>2. request[r].inst \in Instances
  BY <1>1 DEF Request, Shape, Loose
<1> QED
  BY <1>1, <1>2, SlotIs DEF Shape

LEMMA IdleSound == \A u, s : SlotSound(u, Idle, s)
  BY DEF SlotSound, Shape, Loading, Carrying, Changing, Rescanned, Loose, Idle

\* A wallet that grew, or was rebuilt, with the same aggregate.
LEMMA GrownIsSound ==
  ASSUME NEW u, NEW old, InstSound(u, old), NEW new,
         new.aggregate = old.aggregate, new.behind = old.behind, old.used \subseteq new.used,
         \A k \in (1..MaxChange) \ new.used : Change(k) \in new.wallet => Change(k) \in old.wallet,
         Nodeless(u) => /\ Grows(u, old.wallet, new.wallet) /\ Reaches(u, new.wallet)
                        /\ Covers(u, new.wallet, new.staged)
  PROVE  InstSound(u, new) /\ Follows(u, old, new)
<1>1. UsedStored(u, new)
  BY DEF InstSound, UsedStored
<1>2. Ahead(u, new)
  BY DEF InstSound, Ahead
<1>3. Knows(u, new)
  BY GrowingCovers DEF InstSound, Knows
<1> QED
  BY <1>1, <1>2, <1>3 DEF InstSound, Follows

\* What is learned, and what was staged, is carried to the aggregate; a change
\* address the slot is to use is on its way to the row, or there already.
LEMMA CarryIsGood ==
  ASSUME Inv, Around, UNCHANGED <<cached, proposals>>, NEW r \in Requests,
         request[r].step = "touch", NEW new \in SUBSET Facts, NEW change \in 0..MaxChange,
         NEW s \in Instance, s.wallet = Its(r).wallet \cup new, s.staged = {},
         s.aggregate = Its(r).aggregate, s.behind = Its(r).behind, Its(r).used \subseteq s.used,
         \A k \in 1..MaxChange : Change(k) \in new => k \in s.used,
         change # 0 => Change(change) \in new /\ change \notin Its(r).used,
         Nodeless(World) => Grows(World, Its(r).wallet, s.wallet) /\ Reaches(World, s.wallet),
         Carry(r, new, change, s)
  PROVE  RowInv'
<1> DEFINE delta == Its(r).staged \cup (new \ Its(r).wallet)
           q == request[r]
           carrying == [q EXCEPT !.step = "merge", !.facts = delta, !.change = change]
           storing == [q EXCEPT !.step = "store", !.change = change]
           next == IF delta # {} THEN carrying
                   ELSE IF q.op = "build" THEN storing ELSE Idle
<1>1. /\ q \in Request /\ q.inst \in Instances /\ q.op # "rescan" /\ NoInstance \notin Instances
      /\ Its(r) \in Instance /\ InstSound(World, Its(r)) /\ q.change = 0
  BY TouchIs, WalletStoreAssumption
<1>2. Nodeless(World) => Covers(World, s.wallet, s.staged)
  BY SubsetCovered
<1>3. InstSound(World, s) /\ Follows(World, Its(r), s)
  BY <1>1, <1>2, GrownIsSound
<1>4. Nodeless(World) => Covers(World, s.wallet, delta)
  <2>1. Covers(World, s.wallet, new \ Its(r).wallet)
    BY SubsetCovered
  <2>2. Nodeless(World) => Covers(World, s.wallet, Its(r).staged)
    BY <1>1, GrowingCovers DEF InstSound, Knows
  <2> QED
    BY <2>1, <2>2, UnionCovered
<1>5. ASSUME change # 0, ~overtaken
      PROVE  Change(change) \in row \/ Change(change) \in delta
  <2>1. Change(change) \in Its(r).wallet => Change(change) \in row
    <3>1. change \in 1..MaxChange
      BY <1>5, WalletStoreAssumption
    <3> QED
      BY <1>1, <1>5, <3>1 DEF InstSound, UsedStored, World
  <2> QED
    BY <1>5, <2>1
<1>6. World.overtaken = overtaken /\ World.row = row
  BY DEF World
<1>7. delta \subseteq Facts
  BY <1>1 DEF Instance
<1> HIDE DEF delta
<1>8. /\ carrying \in Request /\ carrying.inst = q.inst /\ carrying.step = "merge"
      /\ carrying.facts = delta /\ carrying.change = change /\ carrying.op = q.op
      /\ storing \in Request /\ storing.inst = q.inst /\ storing.step = "store"
      /\ storing.change = change /\ storing.op = q.op
  BY <1>1, <1>7 DEF Request
<1> HIDE DEF carrying, storing
<1>9. SlotSound(World, carrying, s)
  <2>1. Shape(World, carrying)
    BY <1>1, <1>8 DEF Shape, Loose
  <2> QED
    BY <1>4, <1>5, <1>6, <1>8, <2>1 DEF SlotSound, Loading, Carrying, Changing, Rescanned
<1>10. delta = {} => SlotSound(World, storing, s)
  <2>1. Shape(World, storing)
    BY <1>1, <1>8 DEF Shape, Loose
  <2> QED
    BY <1>5, <1>6, <1>8, <2>1 DEF SlotSound, Loading, Carrying, Changing, Rescanned
<1>11. /\ next \in Request /\ next.inst \in {q.inst, NoInstance} /\ SlotSound(World, next, s)
  BY <1>8, <1>9, <1>10, EmptyTypes, IdleSound
<1>12. Apply(r, next, [store EXCEPT ![q.inst] = s])
  BY DEF Carry, next, carrying, storing, delta
<1> HIDE DEF next
<1> QED
  BY <1>1, <1>3, <1>11, <1>12, ApplyIsGood

\* A slot that carried nothing gives up, or goes on to the eviction.
LEMMA EndIsGood ==
  ASSUME Inv, Around, UNCHANGED <<cached, proposals>>, NEW r \in Requests,
         request[r].step = "touch", NEW next \in Request,
         \/ next = Idle
         \/ /\ next.step = "evict" /\ next.inst = request[r].inst
            /\ next.op = request[r].op /\ next.change = request[r].change,
         NEW s \in Instance, s.aggregate = Its(r).aggregate, s.behind = Its(r).behind,
         Its(r).used \subseteq s.used,
         \A k \in (1..MaxChange) \ s.used : Change(k) \in s.wallet => Change(k) \in Its(r).wallet,
         Nodeless(World) => /\ Grows(World, Its(r).wallet, s.wallet) /\ Reaches(World, s.wallet)
                            /\ Covers(World, s.wallet, s.staged),
         Apply(r, next, [store EXCEPT ![request[r].inst] = s])
  PROVE  RowInv'
<1>1. /\ request[r].inst \in Instances /\ request[r].op # "rescan" /\ NoInstance \notin Instances
      /\ request[r].change = 0 /\ InstSound(World, Its(r))
  BY TouchIs, WalletStoreAssumption
<1>2. InstSound(World, s) /\ Follows(World, Its(r), s)
  BY <1>1, GrownIsSound
<1>3. SlotSound(World, next, s)
  <2>1. CASE next = Idle
    BY <2>1, IdleSound
  <2>2. CASE next # Idle
    BY <1>1, <2>2 DEF SlotSound, Shape, Loading, Carrying, Changing, Rescanned, Loose
  <2> QED
    BY <2>1, <2>2
<1>4. next.inst \in {request[r].inst, NoInstance}
  BY EmptyTypes
<1> QED
  BY <1>1, <1>2, <1>3, <1>4, ApplyIsGood

LEMMA KeepsBehind ==
  ASSUME NEW r, Its(r) \in Instance
  PROVE  /\ \A new : Learned(r, new).behind = Its(r).behind /\ Learned(r, new).used = Its(r).used
         /\ \A k \in 1..MaxChange : /\ Marked(r, k).behind = Its(r).behind
                                    /\ Marked(r, k).used = Its(r).used \cup {k}
<1>1. ASSUME NEW new
      PROVE  Learned(r, new).behind = Its(r).behind /\ Learned(r, new).used = Its(r).used
  BY DEF Learned, Instance
<1>2. ASSUME NEW k \in 1..MaxChange
      PROVE  Marked(r, k).behind = Its(r).behind /\ Marked(r, k).used = Its(r).used \cup {k}
  <2> DEFINE l == Learned(r, {Change(k)})
  <2>1. l \in Instance /\ l.behind = Its(r).behind /\ l.used = Its(r).used
    BY <1>1, LearnedType, FactTypes
  <2>2. Marked(r, k) = [l EXCEPT !.used = @ \cup {k}]
    BY DEF Marked
  <2> HIDE DEF l
  <2> QED
    BY <2>1, <2>2 DEF Instance
<1> QED
  BY <1>1, <1>2

LEMMA MinedBelow ==
  ASSUME Inv
  PROVE  \A c \in Coins : minedAt[c] <= height
  BY DEF Inv, RowInv, RowSound, World

LEMMA SyncGood ==
  ASSUME Inv, NEW r \in Requests, Sync(r)
  PROVE  RowInv'
<1> DEFINE known == Its(r).wallet
           new == IF OverRpc THEN Walk(known, height) ELSE Scan(known)
<1>1. /\ request[r].step = "touch" /\ Around /\ UNCHANGED <<cached, proposals>>
      /\ Carry(r, new, 0, Learned(r, new))
  BY DEF Sync, Touches, Holds, Around, history
<1>2. Its(r) \in Instance /\ InstSound(World, Its(r))
  BY <1>1, TouchIs
<1>3. new \in SUBSET Facts
  <2>1. height \in 0..height
    BY WalletStoreAssumption DEF Inv, WalletInv, Outer
  <2> QED
    BY <2>1, WalkType, ScanType DEF Inv, WalletInv
<1>4. Nodeless(World) => /\ Grows(World, known, known \cup new)
                         /\ Reaches(World, known \cup new)
  BY <1>2, MinedBelow, WorldIs, ScanGrows DEF InstSound, Knows, Inv
<1>5. \A k : Change(k) \notin new
  BY FactKinds DEF Walk, Scan, BlockAt
<1> HIDE DEF new
<1>6. /\ Learned(r, new) \in Instance /\ Learned(r, new).wallet = known \cup new
      /\ Learned(r, new).aggregate = Its(r).aggregate /\ Learned(r, new).staged = {}
      /\ Learned(r, new).behind = Its(r).behind /\ Learned(r, new).used = Its(r).used
  BY <1>2, <1>3, LearnedType, KeepsBehind
<1>7. 0 \in 0..MaxChange
  BY WalletStoreAssumption
<1> QED
  BY <1>1, <1>3, <1>4, <1>5, <1>6, <1>7, CarryIsGood

\* Addresses revealed, and none to be used.
LEMMA RevealGood ==
  ASSUME Inv, NEW r \in Requests, Reveal(r) \/ RevealFirst(r)
  PROVE  RowInv'
<1>1. /\ request[r].step = "touch" /\ Around /\ UNCHANGED <<cached, proposals>>
      /\ Carry(r, {External}, 0, Learned(r, {External}))
  BY DEF Reveal, RevealFirst, Touches, Holds, Around, history
<1>2. Its(r) \in Instance /\ InstSound(World, Its(r))
  BY <1>1, TouchIs
<1>3. {External} \in SUBSET Facts /\ {External} \subseteq Addresses
  BY AddressTypes
<1>4. Nodeless(World) => /\ Grows(World, Its(r).wallet, Its(r).wallet \cup {External})
                         /\ Reaches(World, Its(r).wallet \cup {External})
  BY <1>2, <1>3, AddressesGrow DEF InstSound, Knows
<1>5. \A k : Change(k) # External
  BY FactKinds
<1>6. LET s == Learned(r, {External})
      IN  /\ s \in Instance /\ s.wallet = Its(r).wallet \cup {External}
          /\ s.aggregate = Its(r).aggregate /\ s.staged = {}
          /\ s.behind = Its(r).behind /\ s.used = Its(r).used
  BY <1>2, <1>3, LearnedType, KeepsBehind
<1>7. 0 \in 0..MaxChange
  BY WalletStoreAssumption
<1> QED
  BY <1>1, <1>3, <1>4, <1>5, <1>6, <1>7, CarryIsGood

LEMMA BuildGood ==
  ASSUME Inv, NEW r \in Requests, Build(r)
  PROVE  RowInv'
<1>1. request[r].step = "touch" /\ Around /\ UNCHANGED <<cached, proposals>>
  BY DEF Build, Touches, Holds, Around, history
<1>2. Its(r) \in Instance /\ InstSound(World, Its(r))
  BY <1>1, TouchIs
<1>3. ASSUME Carry(r, {}, 0, Learned(r, {}))
      PROVE  RowInv'
  <2>1. {} \in SUBSET Facts /\ {} \subseteq Addresses /\ 0 \in 0..MaxChange
    BY WalletStoreAssumption
  <2>2. Nodeless(World) => /\ Grows(World, Its(r).wallet, Its(r).wallet \cup {})
                           /\ Reaches(World, Its(r).wallet \cup {})
    BY <1>2, <2>1, AddressesGrow DEF InstSound, Knows
  <2>3. LET s == Learned(r, {})
        IN  /\ s \in Instance /\ s.wallet = Its(r).wallet \cup {}
            /\ s.aggregate = Its(r).aggregate /\ s.staged = {}
            /\ s.behind = Its(r).behind /\ s.used = Its(r).used
    BY <1>2, <2>1, LearnedType, KeepsBehind
  <2> QED
    BY <1>1, <1>3, <2>1, <2>2, <2>3, CarryIsGood
<1>4. ASSUME NEW k \in 1..MaxChange, IsNextChange(r, k), Carry(r, {Change(k)}, k, Marked(r, k))
      PROVE  RowInv'
  <2>1. /\ {Change(k)} \in SUBSET Facts /\ {Change(k)} \subseteq Addresses
        /\ k \in 0..MaxChange /\ k \notin Its(r).used
    BY <1>4, AddressTypes, WalletStoreAssumption DEF IsNextChange
  <2>2. Nodeless(World) => /\ Grows(World, Its(r).wallet, Its(r).wallet \cup {Change(k)})
                           /\ Reaches(World, Its(r).wallet \cup {Change(k)})
    BY <1>2, <2>1, AddressesGrow DEF InstSound, Knows
  <2> DEFINE s == Marked(r, k)
             new == {Change(k)}
  <2>3. /\ s \in Instance /\ s.wallet = Its(r).wallet \cup new
        /\ s.aggregate = Its(r).aggregate /\ s.staged = {}
        /\ s.behind = Its(r).behind /\ s.used = Its(r).used \cup {k}
    BY <1>2, MarkedType, KeepsBehind
  <2>4. Change(k) \in new /\ \A j : Change(j) \in new => j = k
    BY FactKinds
  <2>5. Carry(r, new, k, s)
    BY <1>4
  <2> HIDE DEF s, new
  <2>6. Nodeless(World) => Grows(World, Its(r).wallet, s.wallet) /\ Reaches(World, s.wallet)
    BY <2>2, <2>3 DEF new
  <2>7. /\ new \in SUBSET Facts /\ Its(r).used \subseteq s.used
        /\ \A j \in 1..MaxChange : Change(j) \in new => j \in s.used
        /\ k # 0 => Change(k) \in new /\ k \notin Its(r).used
    BY <2>1, <2>3, <2>4 DEF new
  <2> QED
    BY <1>1, <2>1, <2>3, <2>5, <2>6, <2>7, CarryIsGood
<1> QED
  BY <1>3, <1>4 DEF Build

LEMMA SyncRebuiltGood ==
  ASSUME Inv, NEW r \in Requests, SyncRebuilt(r)
  PROVE  RowInv'
<1> DEFINE rebuilt == Rebuild(Its(r).wallet)
           next == [request[r] EXCEPT !.step = "replace", !.facts = rebuilt]
           s == [Its(r) EXCEPT !.wallet = rebuilt, !.staged = {}, !.lost = {}]
<1>1. /\ request[r].step = "touch" /\ Around /\ UNCHANGED <<cached, proposals>> /\ ~OverRpc
  BY DEF SyncRebuilt, Touches, Holds, Around, history
<1>2. /\ request[r] \in Request /\ request[r].inst \in Instances /\ Its(r) \in Instance
      /\ request[r].change = 0 /\ request[r].op # "rescan" /\ NoInstance \notin Instances
      /\ InstSound(World, Its(r)) /\ Nodeless(World)
  BY <1>1, TouchIs, WorldIs, WalletStoreAssumption DEF Inv
<1>3. rebuilt \subseteq Facts
  BY <1>2, RebuildType DEF Inv, WalletInv, Instance
<1>4. /\ Grows(World, Its(r).wallet, rebuilt) /\ Reaches(World, rebuilt)
      /\ \A k : Change(k) \in rebuilt => Change(k) \in Its(r).wallet
  BY <1>2, MinedBelow, RebuildGrows DEF InstSound, Knows, Instance, Inv
<1>5. Apply(r, next, [store EXCEPT ![request[r].inst] = s])
  BY DEF SyncRebuilt
<1> HIDE DEF rebuilt
<1>6. /\ next \in Request /\ next.inst = request[r].inst /\ next.step = "replace"
      /\ next.facts = rebuilt /\ next.op = request[r].op /\ next.change = 0
  BY <1>2, <1>3 DEF Request
<1>7. /\ s \in Instance /\ s.wallet = rebuilt /\ s.staged = {}
      /\ s.aggregate = Its(r).aggregate /\ s.behind = Its(r).behind /\ s.used = Its(r).used
  BY <1>2, <1>3 DEF Instance
<1> HIDE DEF next, s
<1>8. Covers(World, s.wallet, s.staged) /\ Covers(World, s.wallet, next.facts)
  BY <1>6, <1>7, SubsetCovered
<1>9. InstSound(World, s) /\ Follows(World, Its(r), s)
  BY <1>2, <1>4, <1>7, <1>8, GrownIsSound
<1>10. SlotSound(World, next, s)
  BY <1>2, <1>6, <1>8 DEF SlotSound, Shape, Loading, Carrying, Changing, Rescanned, Loose
<1> QED
  BY <1>1, <1>2, <1>5, <1>6, <1>7, <1>9, <1>10, ApplyIsGood

LEMMA SyncFailsGood ==
  ASSUME Inv, NEW r \in Requests, SyncFails(r)
  PROVE  RowInv'
<1>1. /\ request[r].step = "touch" /\ Around /\ UNCHANGED <<cached, proposals>>
  BY DEF SyncFails, Touches, Holds, Around, history
<1>2. Its(r) \in Instance /\ InstSound(World, Its(r))
  BY <1>1, TouchIs
<1>3. PICK to \in IF OverRpc THEN 0..height ELSE {0} :
        LET new == Walk(Its(r).wallet, to) \ Its(r).wallet
        IN  Apply(r, Idle, [store EXCEPT ![request[r].inst] =
              [Its(r) EXCEPT !.wallet = @ \cup new, !.staged = @ \cup new]])
  BY DEF SyncFails
<1> DEFINE new == Walk(Its(r).wallet, to) \ Its(r).wallet
           s == [Its(r) EXCEPT !.wallet = @ \cup new, !.staged = @ \cup new]
<1>4. to \in 0..height
  BY <1>3, WalletStoreAssumption DEF Inv, WalletInv, Outer
<1>5. new \subseteq Facts /\ \A k : Change(k) \notin new
  BY <1>4, WalkType, FactKinds DEF Inv, WalletInv, Walk, BlockAt
<1>6. Nodeless(World) => new \subseteq Addresses
  <2>1. Nodeless(World) => to = 0
    BY <1>3, WorldIs DEF Inv
  <2> QED
    BY <2>1 DEF Walk
<1>7. Apply(r, Idle, [store EXCEPT ![request[r].inst] = s])
  BY <1>3
<1> HIDE DEF new
<1>8. /\ s \in Instance /\ s.wallet = Its(r).wallet \cup new
      /\ s.staged = Its(r).staged \cup new /\ s.aggregate = Its(r).aggregate
      /\ s.used = Its(r).used /\ s.behind = Its(r).behind
  BY <1>2, <1>5 DEF Instance
<1> HIDE DEF s
<1>9. Nodeless(World) => /\ Grows(World, Its(r).wallet, s.wallet) /\ Reaches(World, s.wallet)
                         /\ Covers(World, s.wallet, s.staged)
  <2>1. Nodeless(World) => Grows(World, Its(r).wallet, s.wallet) /\ Reaches(World, s.wallet)
    BY <1>2, <1>6, <1>8, AddressesGrow DEF InstSound, Knows
  <2>2. Nodeless(World) => Covers(World, s.wallet, Its(r).staged)
    BY <1>2, <2>1, GrowingCovers DEF InstSound, Knows
  <2>3. Covers(World, s.wallet, new)
    BY <1>8, SubsetCovered
  <2> QED
    BY <1>8, <2>1, <2>2, <2>3, UnionCovered
<1> QED
  BY <1>1, <1>5, <1>7, <1>8, <1>9, EmptyTypes, EndIsGood

LEMMA BuildFailsGood ==
  ASSUME Inv, NEW r \in Requests, BuildFails(r)
  PROVE  RowInv'
<1>1. /\ request[r].step = "touch" /\ Around /\ UNCHANGED <<cached, proposals>>
  BY DEF BuildFails, Touches, Holds, Around, history
<1>2. Its(r) \in Instance /\ InstSound(World, Its(r))
  BY <1>1, TouchIs
<1>3. PICK k \in 1..MaxChange :
        Apply(r, Idle, [store EXCEPT ![request[r].inst] =
          [Marked(r, k) EXCEPT !.staged = Its(r).staged \cup ({Change(k)} \ Its(r).wallet)]])
  BY DEF BuildFails
<1> DEFINE m == Marked(r, k)
           s == [m EXCEPT !.staged = Its(r).staged \cup ({Change(k)} \ Its(r).wallet)]
<1>4. /\ m \in Instance /\ m.wallet = Its(r).wallet \cup {Change(k)}
      /\ m.aggregate = Its(r).aggregate /\ m.behind = Its(r).behind
      /\ m.used = Its(r).used \cup {k}
  BY <1>2, MarkedType, KeepsBehind
<1>5. Change(k) \in Facts /\ {Change(k)} \subseteq Addresses /\ Its(r).staged \subseteq Facts
  BY <1>2, AddressTypes DEF Instance
<1> HIDE DEF m
<1>6. /\ s \in Instance /\ s.wallet = m.wallet /\ s.aggregate = m.aggregate
      /\ s.behind = m.behind /\ s.used = m.used
      /\ s.staged = Its(r).staged \cup ({Change(k)} \ Its(r).wallet)
  BY <1>4, <1>5 DEF Instance
<1>7. Apply(r, Idle, [store EXCEPT ![request[r].inst] = s])
  BY <1>3 DEF m
<1> HIDE DEF s
<1>8. Nodeless(World) => /\ Grows(World, Its(r).wallet, s.wallet) /\ Reaches(World, s.wallet)
                         /\ Covers(World, s.wallet, s.staged)
  <2>0. /\ Grows(World, Its(r).wallet, Its(r).wallet \cup {Change(k)})
        /\ Reaches(World, Its(r).wallet) => Reaches(World, Its(r).wallet \cup {Change(k)})
    BY <1>5, AddressesGrow
  <2>1. Nodeless(World) => Grows(World, Its(r).wallet, s.wallet) /\ Reaches(World, s.wallet)
    BY <1>2, <1>4, <1>6, <2>0 DEF InstSound, Knows
  <2>2. Nodeless(World) => Covers(World, s.wallet, Its(r).staged)
    BY <1>2, <2>1, GrowingCovers DEF InstSound, Knows
  <2>3. Covers(World, s.wallet, {Change(k)} \ Its(r).wallet)
    BY <1>4, <1>6, SubsetCovered
  <2> QED
    BY <1>6, <2>1, <2>2, <2>3, UnionCovered
<1>9. \A j \in (1..MaxChange) \ s.used : Change(j) \in s.wallet => Change(j) \in Its(r).wallet
  BY <1>4, <1>6, FactKinds
<1> QED
  BY <1>1, <1>4, <1>6, <1>7, <1>8, <1>9, EmptyTypes, EndIsGood

LEMMA DiscardingGood ==
  ASSUME Inv, NEW r \in Requests, ComputeDrain(r) \/ BuildResweep(r)
  PROVE  RowInv'
<1> DEFINE s == Discarded(r)
           evict == [request[r] EXCEPT !.step = "evict"]
<1>1. /\ request[r].step = "touch" /\ Around /\ UNCHANGED <<cached, proposals>>
      /\ \E next \in {Idle, evict} : Apply(r, next, [store EXCEPT ![request[r].inst] = s])
  BY DEF ComputeDrain, BuildResweep, Touches, Holds, Around, history
<1>2. /\ request[r] \in Request /\ Its(r) \in Instance /\ InstSound(World, Its(r))
  BY <1>1, TouchIs
<1>3. /\ s \in Instance /\ s.wallet = Its(r).wallet /\ s.aggregate = Its(r).aggregate
      /\ s.staged = {} /\ s.behind = Its(r).behind /\ s.used = Its(r).used
  BY <1>2 DEF Discarded, Instance
<1>4. /\ evict \in Request /\ evict.step = "evict" /\ evict.inst = request[r].inst
      /\ evict.op = request[r].op /\ evict.change = request[r].change
  BY <1>2 DEF Request
<1> HIDE DEF s, evict
<1>5. Nodeless(World) => /\ Grows(World, Its(r).wallet, s.wallet) /\ Reaches(World, s.wallet)
                         /\ Covers(World, s.wallet, s.staged)
  <2>1. Nodeless(World) => Grows(World, Its(r).wallet, Its(r).wallet)
    BY SameFollows DEF Follows
  <2>2. Nodeless(World) => Grows(World, Its(r).wallet, s.wallet) /\ Reaches(World, s.wallet)
    BY <1>2, <1>3, <2>1 DEF InstSound, Knows
  <2> QED
    BY <1>3, <2>2, SubsetCovered
<1> QED
  BY <1>1, <1>3, <1>4, <1>5, EmptyTypes, EndIsGood

-----------------------------------------------------------------------------
(* The aggregate and the row *)

LEMMA CarrierIs ==
  ASSUME Inv, NEW r \in Requests, request[r].step \in {"merge", "replace", "write", "rewrite"}
  PROVE  /\ request[r] \in Request /\ request[r].inst \in Instances /\ request[r].op # "rescan"
         /\ Its(r) \in Instance /\ InstSound(World, Its(r)) /\ NoInstance \notin Instances
         /\ Shape(World, request[r]) /\ Carrying(World, request[r], Its(r))
         /\ Changing(World, request[r])
<1>1. request[r] \in Request /\ SlotSound(World, request[r], Its(r))
  BY SlotIs
<1>2. request[r].inst \in Instances
  BY <1>1 DEF Request, SlotSound, Shape, Loose
<1>3. request[r].op # "rescan"
  BY <1>1 DEF SlotSound, Shape
<1> QED
  BY <1>1, <1>2, <1>3, SlotIs, WalletStoreAssumption DEF SlotSound

LEMMA MergeGood ==
  ASSUME Inv, NEW r \in Requests, Merge(r)
  PROVE  RowInv'
<1> DEFINE q == request[r]
           json == Its(r).aggregate \cup q.facts
           next == [q EXCEPT !.step = "write", !.facts = json]
           s == [Its(r) EXCEPT !.aggregate = json]
<1>1. q.step = "merge" /\ Around /\ UNCHANGED <<cached, proposals>>
  BY DEF Merge, Holds, Around, history
<1>2. /\ q \in Request /\ q.inst \in Instances /\ q.op # "rescan" /\ NoInstance \notin Instances
      /\ Its(r) \in Instance /\ InstSound(World, Its(r)) /\ Carrying(World, q, Its(r))
      /\ Changing(World, q)
  BY <1>1, CarrierIs
<1>3. json \subseteq Facts
  BY <1>2 DEF Request, Instance
<1>4. Apply(r, next, [store EXCEPT ![q.inst] = s])
  BY DEF Merge, Its
<1>5. Its(r).aggregate \subseteq json /\ q.facts \subseteq json
  OBVIOUS
<1>6. Nodeless(World) => Covers(World, Its(r).wallet, json)
  BY <1>1, <1>2, UnionCovered DEF Carrying, InstSound, Knows
<1> HIDE DEF json
<1>7. /\ next \in Request /\ next.step = "write" /\ next.inst = q.inst /\ next.facts = json
      /\ next.op = q.op /\ next.change = q.change
  BY <1>2, <1>3 DEF Request
<1>8. /\ s \in Instance /\ s.wallet = Its(r).wallet /\ s.aggregate = json
      /\ s.staged = Its(r).staged /\ s.behind = Its(r).behind /\ s.used = Its(r).used
  BY <1>2, <1>3 DEF Instance
<1> HIDE DEF next, s
<1>9. InstSound(World, s) /\ Follows(World, Its(r), s)
  <2>1. UsedStored(World, s)
    BY <1>2, <1>8 DEF InstSound, UsedStored
  <2>2. Ahead(World, s)
    BY <1>2, <1>5, <1>8 DEF InstSound, Ahead
  <2>3. Knows(World, s)
    BY <1>2, <1>6, <1>8 DEF InstSound, Knows
  <2>4. Follows(World, Its(r), s)
    BY <1>5, <1>8, SameFollows DEF Follows
  <2> QED
    BY <2>1, <2>2, <2>3, <2>4 DEF InstSound
<1>10. SlotSound(World, next, s)
  <2>1. Shape(World, next) /\ Loading(World, next) /\ Rescanned(next)
    BY <1>2, <1>7 DEF Shape, Loading, Rescanned, Loose
  <2>2. Carrying(World, next, s)
    BY <1>6, <1>7, <1>8, <1>9 DEF Carrying, InstSound, Ahead
  <2>3. Changing(World, next)
    BY <1>1, <1>2, <1>5, <1>7 DEF Changing
  <2> QED
    BY <2>1, <2>2, <2>3 DEF SlotSound
<1> QED
  BY <1>1, <1>2, <1>4, <1>7, <1>8, <1>9, <1>10, ApplyIsGood

\* The rebuilt changeset has every address of the aggregate it replaces, or
\* leaves the instance behind.
LEMMA ReplaceGood ==
  ASSUME Inv, NEW r \in Requests, Replace(r)
  PROVE  RowInv'
<1> DEFINE q == request[r]
           forgotten == (Its(r).aggregate \ q.facts) \cap Its(r).wallet
           next == [q EXCEPT !.step = "rewrite"]
           s == [Its(r) EXCEPT !.aggregate = q.facts, !.lost = @ \cup forgotten,
                               !.behind = @ \/ forgotten # {}]
<1>1. q.step = "replace" /\ Around /\ UNCHANGED <<cached, proposals>>
  BY DEF Replace, Holds, Around, history
<1>2. /\ q \in Request /\ q.inst \in Instances /\ q.op # "rescan" /\ NoInstance \notin Instances
      /\ Its(r) \in Instance /\ InstSound(World, Its(r)) /\ Carrying(World, q, Its(r))
      /\ Nodeless(World) /\ q.change = 0
  BY <1>1, CarrierIs DEF Shape
<1>3. /\ next \in Request /\ next.step = "rewrite" /\ next.inst = q.inst /\ next.facts = q.facts
      /\ next.op = q.op /\ next.change = 0 /\ next.late = q.late
  BY <1>2 DEF Request
<1>4. /\ s \in Instance /\ s.wallet = Its(r).wallet /\ s.aggregate = q.facts
      /\ s.staged = Its(r).staged /\ s.used = Its(r).used
      /\ ~s.behind => ~Its(r).behind /\ forgotten = {}
  <2>1. q.facts \subseteq Facts /\ forgotten \subseteq Facts
    BY <1>2 DEF Request, Instance
  <2>2. (Its(r).behind \/ forgotten # {}) \in BOOLEAN
    OBVIOUS
  <2>3. ASSUME NEW b \in BOOLEAN
        PROVE  LET t == [Its(r) EXCEPT !.aggregate = q.facts, !.lost = @ \cup forgotten,
                                       !.behind = b]
               IN  /\ t \in Instance /\ t.wallet = Its(r).wallet /\ t.aggregate = q.facts
                   /\ t.staged = Its(r).staged /\ t.used = Its(r).used /\ t.behind = b
    BY <1>2, <2>1 DEF Instance
  <2> HIDE DEF forgotten
  <2> QED
    BY <2>2, <2>3
<1>5. Apply(r, next, [store EXCEPT ![q.inst] = s])
  BY DEF Replace
<1> HIDE DEF next, s
<1>6. Covers(World, s.wallet, q.facts) /\ Lasting(World) = Addresses
  BY <1>1, <1>2, <1>4 DEF Carrying, Lasting
<1>7. ~s.behind => Its(r).aggregate \cap Addresses \subseteq q.facts
  BY <1>2, <1>4 DEF InstSound, Knows, Covers
<1> HIDE DEF forgotten
<1>8. InstSound(World, s) /\ Follows(World, Its(r), s)
  <2>1. UsedStored(World, s)
    BY <1>2, <1>4 DEF InstSound, UsedStored
  <2>2. Ahead(World, s)
    BY <1>2, <1>4, <1>6, <1>7 DEF InstSound, Ahead
  <2>3. Knows(World, s)
    BY <1>2, <1>4, <1>6 DEF InstSound, Knows
  <2>4. Follows(World, Its(r), s)
    BY <1>4, <1>6, <1>7, SameFollows DEF Follows
  <2> QED
    BY <2>1, <2>2, <2>3, <2>4 DEF InstSound
<1>9. SlotSound(World, next, s)
  <2>1. Shape(World, next) /\ Loading(World, next) /\ Rescanned(next) /\ Changing(World, next)
    BY <1>2, <1>3 DEF Shape, Loading, Rescanned, Changing, Loose
  <2>2. Carrying(World, next, s)
    BY <1>3, <1>4, <1>6, <1>8 DEF Carrying, InstSound, Ahead
  <2> QED
    BY <2>1, <2>2 DEF SlotSound
<1> QED
  BY <1>1, <1>2, <1>3, <1>4, <1>5, <1>8, <1>9, ApplyIsGood

\* What a write that is not out of date leaves of the row.
LEMMA WriteKeeps ==
  ASSUME Inv, NEW r \in Requests, request[r].step \in {"write", "rewrite"}
  PROVE  /\ ~Outdated(r) => row \cap Lasting(World) \subseteq request[r].facts
         /\ Addresses \subseteq Lasting(World)
         /\ ~Its(r).behind => request[r].facts \cap Lasting(World) \subseteq Its(r).aggregate
         /\ Nodeless(World) => /\ Covers(World, Its(r).wallet, request[r].facts)
                               /\ Reaches(World, request[r].facts)
<1>1. /\ request[r].inst \in Instances /\ NoInstance \notin Instances
      /\ Carrying(World, request[r], Its(r)) /\ InstSound(World, Its(r))
  BY CarrierIs
<1>2. ~Outdated(r) => ~request[r].late /\ ~Its(r).behind
  BY <1>1 DEF Outdated
<1>3. World.row = row
  BY DEF World
<1>4. Nodeless(World) => /\ Covers(World, Its(r).wallet, request[r].facts)
                         /\ Reaches(World, request[r].facts)
  BY <1>1 DEF Carrying, InstSound, Knows, Covers, Tops, Reaches
<1> QED
  BY <1>1, <1>2, <1>3, <1>4, AddressTypes DEF Carrying, Lasting

LEMMA WriteGood ==
  ASSUME Inv, NEW r \in Requests, Write(r)
  PROVE  RowInv'
<1> DEFINE q == request[r]
           storing == [q EXCEPT !.step = "store", !.facts = {}, !.late = FALSE]
<1>1. /\ q.step \in {"write", "rewrite"} /\ UNCHANGED <<chain, proposals, cached>>
      /\ WriteRow(r, q.inst, q.facts, AfterWrite(r))
  BY DEF Write
<1>2. /\ q \in Request /\ q.inst \in Instances /\ q.op # "rescan" /\ NoInstance \notin Instances
      /\ Shape(World, q) /\ Changing(World, q)
  BY <1>1, CarrierIs
<1>3. q.facts \in SUBSET Facts
  BY <1>2 DEF Request
<1>4. ~Outdated(r) => row \cap Addresses \subseteq q.facts
  BY <1>1, WriteKeeps
<1>5. /\ Nodeless(World) => Reaches(World, q.facts)
      /\ ~Its(r).behind => q.facts \cap Lasting(World) \subseteq Its(r).aggregate
      /\ Nodeless(World) => Finds(World, Its(r).wallet, q.facts)
  BY <1>1, WriteKeeps DEF Covers
<1>6. /\ storing \in Request /\ storing.inst = q.inst /\ storing.step = "store"
      /\ storing.op = q.op /\ storing.change = q.change
  BY <1>2 DEF Request
<1> HIDE DEF storing
<1>7. /\ World'.row = q.facts /\ World.row = row /\ World.overtaken = overtaken
      /\ ~World'.overtaken => ~overtaken /\ ~Outdated(r)
  BY <1>1 DEF WriteRow, World, Inv, WalletInv, Outer
<1>8. /\ Shape(World, storing) /\ Loading(World', storing) /\ Rescanned(storing)
      /\ Changing(World', storing)
  <2>1. Shape(World, storing) /\ Loading(World', storing) /\ Rescanned(storing)
    BY <1>2, <1>6 DEF Shape, Loading, Rescanned, Loose
  <2>2. Changing(World', storing)
    <3> SUFFICES ASSUME ~World'.overtaken, q.change # 0
                 PROVE  Change(q.change) \in q.facts
      BY <1>6, <1>7 DEF Changing
    <3>1. q.change \in 1..MaxChange
      BY <1>2, WalletStoreAssumption DEF Request
    <3> QED
      BY <1>2, <1>4, <1>7, <3>1, AddressTypes DEF Changing
  <2> QED
    BY <2>1, <2>2
<1>9. AfterWrite(r) \in {Idle, storing}
  BY DEF AfterWrite, storing
<1>10. /\ AfterWrite(r) \in Request /\ AfterWrite(r).inst \in {q.inst, NoInstance}
       /\ Shape(World, AfterWrite(r)) /\ Loading(World', AfterWrite(r))
       /\ AfterWrite(r).step \notin {"merge", "replace", "write", "rewrite"}
       /\ Changing(World', AfterWrite(r)) /\ Rescanned(AfterWrite(r))
  BY <1>6, <1>8, <1>9, EmptyTypes, IdleSound DEF SlotSound
<1> QED
  BY <1>1, <1>2, <1>3, <1>4, <1>5, <1>10, WriteRowIsGood

\* A request that ends with its slot, or inserts its proposal.
LEMMA LeavingGood ==
  ASSUME Inv, NEW r \in Requests, WriteFails(r) \/ InsertProposal(r)
  PROVE  RowInv'
<1>1. /\ Around /\ cached' = cached /\ Apply(r, Idle, store)
  BY DEF WriteFails, InsertProposal, Around, history
<1>2. ~overtaken => \A k \in proposals' \ proposals : Change(k) \in row
  <2>1. CASE WriteFails(r)
    BY <2>1 DEF WriteFails
  <2>2. CASE InsertProposal(r)
    <3>1. Changing(World, request[r]) /\ request[r].step = "store"
      BY <2>2, SlotIs DEF InsertProposal, Holds, SlotSound
    <3>2. proposals' = proposals \cup ({request[r].change} \ {0})
      BY <2>2 DEF InsertProposal
    <3> QED
      BY <3>1, <3>2 DEF Changing, World
  <2> QED
    BY <2>1, <2>2
<1> QED
  BY <1>1, <1>2, EmptyTypes, IdleSound, ApplySlotIsGood

\* A client that hangs up leaves its instance as it was, but for the history.
LEMMA StopGood ==
  ASSUME Inv, NEW r \in Requests, Stop(r)
  PROVE  RowInv'
<1>1. Around /\ UNCHANGED <<cached, proposals>>
  BY DEF Stop, Around
<1>2. CASE request[r].step \in {"merge", "replace"}
  <2> DEFINE s == [Its(r) EXCEPT !.lost = @ \cup request[r].facts]
  <2>1. /\ request[r] \in Request /\ request[r].inst \in Instances /\ Its(r) \in Instance
        /\ InstSound(World, Its(r))
    BY <1>2, CarrierIs
  <2>2. /\ s \in Instance /\ s.wallet = Its(r).wallet /\ s.aggregate = Its(r).aggregate
        /\ s.staged = Its(r).staged /\ s.behind = Its(r).behind /\ s.used = Its(r).used
    BY <2>1 DEF Request, Instance
  <2>3. Apply(r, Idle, [store EXCEPT ![request[r].inst] = s])
    BY <1>2 DEF Stop, Its
  <2> HIDE DEF s
  <2>4. InstSound(World, s)
    BY <2>1, <2>2 DEF InstSound, UsedStored, Ahead, Knows
  <2>5. Follows(World, Its(r), s)
    BY <2>2, SameFollows DEF Follows
  <2> QED
    BY <1>1, <2>1, <2>2, <2>3, <2>4, <2>5, EmptyTypes, IdleSound, ApplyIsGood
<1>3. CASE request[r].step \notin {"merge", "replace"}
  <2>1. Apply(r, Idle, store)
    BY <1>3 DEF Stop
  <2> QED
    BY <1>1, <2>1, EmptyTypes, IdleSound, ApplySlotIsGood
<1> QED
  BY <1>2, <1>3

\* A rescan tool writes every address of its window.
LEMMA RescanWriteGood ==
  ASSUME Inv, NEW r \in Requests, RescanWrite(r)
  PROVE  RowInv'
<1> DEFINE q == request[r]
<1>1. /\ q.step = "overwrite" /\ UNCHANGED <<chain, proposals, cached>>
      /\ WriteRow(r, NoInstance, q.facts, Idle)
  BY DEF RescanWrite, Holds
<1>2. q \in Request /\ Shape(World, q) /\ Rescanned(q)
  BY SlotIs DEF SlotSound
<1>3. /\ Addresses \subseteq q.facts /\ q.facts \in SUBSET Facts /\ q.inst = NoInstance
      /\ ~Nodeless(World) /\ NoInstance \notin Instances
  BY <1>1, <1>2, WalletStoreAssumption DEF Shape, Rescanned, Request, Loose
<1>4. Shape(World, Idle) /\ Loading(World', Idle) /\ Changing(World', Idle) /\ Rescanned(Idle)
  BY IdleSound DEF SlotSound
<1> QED
  BY <1>1, <1>3, <1>4, EmptyTypes, WriteRowIsGood

-----------------------------------------------------------------------------
(* Loading *)

\* The initial changeset has all the row has, unless it is late.
LEMMA WriteInitialGood ==
  ASSUME Inv, NEW r \in Requests, WriteInitial(r)
  PROVE  RowInv'
<1> DEFINE q == request[r]
           next == [q EXCEPT !.step = "insert", !.late = FALSE]
<1>1. /\ q.step = "seed" /\ UNCHANGED <<chain, proposals, cached>>
      /\ WriteRow(r, NoInstance, q.facts, next)
  BY DEF WriteInitial, Holds
<1>2. /\ q \in Request /\ Shape(World, q) /\ Loading(World, q)
      /\ q.inst = NoInstance /\ NoInstance \notin Instances
  BY <1>1, SlotIs, WalletStoreAssumption DEF SlotSound, Shape, Loose
<1>3. q.facts \in SUBSET Facts
  BY <1>2 DEF Request
<1>4. /\ ~Outdated(r) => row \cap Addresses \subseteq q.facts
      /\ Nodeless(World) => Reaches(World, q.facts)
  BY <1>1, <1>2 DEF Outdated, Loading, World
<1>5. /\ next \in Request /\ next.step = "insert" /\ next.inst = NoInstance
      /\ next.facts = q.facts /\ next.op = q.op /\ next.change = q.change
  BY <1>2 DEF Request
<1> HIDE DEF next
<1>6. World'.row = q.facts /\ World'.height = World.height /\ World'.backend = World.backend
  BY <1>1 DEF WriteRow, World, chain
<1>7. Shape(World, next) /\ Rescanned(next) /\ Changing(World', next)
  BY <1>1, <1>2, <1>5 DEF Shape, Rescanned, Changing, Loose
<1>8. Loading(World', next)
  BY <1>4, <1>5, <1>6 DEF Loading, Nodeless, Reaches
<1> QED
  BY <1>1, <1>2, <1>3, <1>4, <1>5, <1>7, <1>8, WriteRowIsGood

LEMMA ReadRowGood ==
  ASSUME Inv, NEW r \in Requests, ReadRow(r)
  PROVE  RowInv'
<1> DEFINE found == row \cup {Descriptor}
           loaded == found \cup Birthday(found)
           next == [request[r] EXCEPT !.facts = loaded,
                                      !.step = IF loaded = row THEN "insert" ELSE "seed"]
<1>1. loaded \subseteq Facts
  BY BirthdayType, FactTypes DEF Inv, WalletInv, Outer
<1>2. /\ request[r] \in Request /\ request[r].step = "read" /\ request[r].inst = NoInstance
      /\ request[r].change = 0 /\ request[r].op # "rescan"
  BY SlotIs DEF ReadRow, Holds, SlotSound, Shape, Loose
<1>3. /\ request' = [request EXCEPT ![r] = next] /\ store' = store /\ cached' = cached
      /\ Around /\ proposals' = proposals
  BY DEF ReadRow, Around, history
<1>4. row \subseteq loaded /\ loaded \cap Addresses \subseteq row
  <2>1. Birthday(found) \subseteq {BlockAt(height)}
    BY DEF Birthday
  <2>2. BlockAt(height) \notin Addresses /\ Descriptor \notin Addresses
    BY FactKinds DEF Addresses, BlockAt
  <2> QED
    BY <2>1, <2>2
<1>5. Nodeless(World) => Reaches(World, loaded)
  <2>1. Nodeless(World) => loaded = row \cup {Descriptor} /\ Reaches(World, row)
    BY WorldIs DEF Birthday, Inv, RowInv, RowSound
  <2>2. \A h : Below(h, row \cup {Descriptor}) <=> Below(h, row)
    BY BlocksAre, FactKinds
  <2> QED
    BY <2>1, <2>2 DEF Reaches
<1> HIDE DEF loaded
<1>6. /\ next \in Request /\ next.inst = NoInstance /\ next.facts = loaded
      /\ next.step \in {"seed", "insert"} /\ next.op = request[r].op /\ next.change = 0
  BY <1>1, <1>2 DEF Request
<1> HIDE DEF next
<1>7. SlotSound(World, next, store[next.inst])
  BY <1>2, <1>4, <1>5, <1>6
     DEF SlotSound, Shape, Loading, Carrying, Changing, Rescanned, Loose, World
<1>8. Memory(World, [request EXCEPT ![r] = next], store, cached)
  BY <1>6, <1>7, Types, SlotMoveIsGood DEF Inv, RowInv
<1> QED
  BY <1>3, <1>8, AroundIs, RowInvFrom DEF Inv, RowInv

\* Who had the wallet to himself is no matter here.
LEMMA NotAloneIsGood ==
  ASSUME Inv
  PROVE  Memory(World, NotAlone, store, cached) /\ DOMAIN NotAlone = Requests
<1>1. \A q \in Requests :
        /\ NotAlone[q].op = request[q].op /\ NotAlone[q].step = request[q].step
        /\ NotAlone[q].inst = request[q].inst /\ NotAlone[q].facts = request[q].facts
        /\ NotAlone[q].change = request[q].change /\ NotAlone[q].late = request[q].late
  BY Types DEF NotAlone, Request, Inv
<1>2. Memory(World, request, store, cached)
  BY DEF Inv, RowInv
<1>3. \A i : InUse(NotAlone, cached, i) <=> InUse(request, cached, i)
  BY <1>1 DEF InUse
<1>4. ASSUME NEW q \in Requests
      PROVE  SlotSound(World, NotAlone[q], store[NotAlone[q].inst])
  BY <1>1, <1>2 DEF Memory, SlotSound, Shape, Loading, Carrying, Changing, Rescanned
<1> QED
  BY <1>2, <1>3, <1>4 DEF Memory, NotAlone

LEMMA ArriveGood ==
  ASSUME Inv, NEW r \in Requests, NEW op \in Ops \ {"rescan"}, Arrive(r, op)
  PROVE  RowInv'
<1> DEFINE quiet == \A q \in Requests : Holds(q, "idle")
           next == [Idle EXCEPT !.op = op, !.inst = cached, !.alone = quiet /\ op = "sync",
                                !.step = IF cached = NoInstance THEN "read" ELSE "touch"]
<1>1. /\ next.op = op /\ next.inst = cached /\ next.change = 0
      /\ next.step = IF cached = NoInstance THEN "read" ELSE "touch"
  BY DEF Idle
<1>2. /\ request' = [NotAlone EXCEPT ![r] = next] /\ store' = store /\ cached' = cached
      /\ Around /\ proposals' = proposals
  BY DEF Arrive, Around, history
<1> HIDE DEF next
<1>3. SlotSound(World, next, store[next.inst])
  BY <1>1 DEF SlotSound, Shape, Loading, Carrying, Changing, Rescanned, Loose
<1>4. Memory(World, [NotAlone EXCEPT ![r] = next], store, cached)
  BY <1>1, <1>3, NotAloneIsGood, SlotMoveIsGood DEF InUse
<1> QED
  BY <1>2, <1>4, AroundIs, RowInvFrom DEF Inv, RowInv

LEMMA RescanWalkGood ==
  ASSUME Inv, NEW r \in Requests, RescanWalk(r)
  PROVE  RowInv'
<1>1. PICK from \in 0..height :
        LET start == {Descriptor, External} \cup {Change(k) : k \in 1..MaxChange}
                       \cup {BlockAt(h) : h \in {from} \ {0}}
        IN  request' = [NotAlone EXCEPT ![r] =
              [Idle EXCEPT !.op = "rescan", !.step = "overwrite",
                           !.facts = start \cup Walk(start, height)]]
  BY DEF RescanWalk
<1> DEFINE start == {Descriptor, External} \cup {Change(k) : k \in 1..MaxChange}
                      \cup {BlockAt(h) : h \in {from} \ {0}}
           found == start \cup Walk(start, height)
           next == [Idle EXCEPT !.op = "rescan", !.step = "overwrite", !.facts = found]
<1>2. Addresses \subseteq found
  BY FactKinds DEF Addresses, Facts
<1>3. /\ request' = [NotAlone EXCEPT ![r] = next] /\ store' = store /\ cached' = cached
      /\ Around /\ proposals' = proposals /\ ~Nodeless(World)
  BY <1>1, WorldIs DEF RescanWalk, Around, history, Inv
<1> HIDE DEF found
<1>4. /\ next.op = "rescan" /\ next.inst = NoInstance /\ next.change = 0
      /\ next.step = "overwrite" /\ next.facts = found
  BY DEF Idle
<1> HIDE DEF next
<1>5. SlotSound(World, next, store[next.inst])
  BY <1>2, <1>3, <1>4 DEF SlotSound, Shape, Loading, Carrying, Changing, Rescanned, Loose
<1>6. Memory(World, [NotAlone EXCEPT ![r] = next], store, cached)
  BY <1>4, <1>5, NotAloneIsGood, SlotMoveIsGood, WalletStoreAssumption
<1> QED
  BY <1>3, <1>6, AroundIs, RowInvFrom DEF Inv, RowInv

\* An instance enters the cache behind exactly when its row was written since.
LEMMA InsertCacheGood ==
  ASSUME Inv, NEW r \in Requests, InsertCache(r)
  PROVE  RowInv'
<1> DEFINE q == request[r]
           next(i) == [q EXCEPT !.step = "touch", !.inst = i, !.facts = {}, !.late = FALSE]
<1>1. /\ q \in Request /\ q.step = "insert" /\ q.change = 0 /\ q.op # "rescan"
      /\ Loading(World, q)
  BY SlotIs DEF InsertCache, Holds, SlotSound, Shape
<1>2. Around /\ proposals' = proposals
  BY DEF InsertCache, Around, history
<1>3. ASSUME NEW i \in Instances, NEW s
      PROVE  next(i).inst = i /\ SlotSound(World, next(i), s)
  <2>1. /\ next(i).inst = i /\ next(i).step = "touch" /\ next(i).op = q.op
        /\ next(i).change = 0
    BY <1>1 DEF Request
  <2> HIDE DEF next
  <2>2. NoInstance \notin Instances
    BY WalletStoreAssumption
  <2> QED
    BY <1>1, <2>1, <2>2 DEF SlotSound, Shape, Loading, Carrying, Changing, Rescanned, Loose
<1>4. CASE cached # NoInstance
  <2>1. /\ request' = [request EXCEPT ![r] = next(cached)] /\ UNCHANGED <<store, cached>>
        /\ cached \in Instances
    BY <1>4, Types DEF InsertCache, Inv
  <2>2. next(cached).inst = cached /\ SlotSound(World, next(cached), store[next(cached).inst])
    BY <1>3, <2>1
  <2> HIDE DEF next
  <2>3. Memory(World, [request EXCEPT ![r] = next(cached)], store, cached)
    BY <2>2, Types, SlotMoveIsGood DEF InUse, Inv, RowInv
  <2> QED
    BY <1>2, <2>1, <2>3, AroundIs, RowInvFrom DEF Inv, RowInv
<1>5. CASE cached = NoInstance
  <2> DEFINE fresh == [Unused EXCEPT !.wallet = q.facts, !.aggregate = q.facts, !.behind = q.late]
  <2>1. PICK i \in Instances : /\ ~Live(i) /\ cached' = i /\ store' = [store EXCEPT ![i] = fresh]
                               /\ request' = [request EXCEPT ![r] = next(i)]
    BY <1>5 DEF InsertCache
  <2>2. /\ fresh.wallet = q.facts /\ fresh.aggregate = q.facts /\ fresh.staged = {}
        /\ fresh.behind = q.late
    BY DEF Unused
  <2> HIDE DEF fresh
  <2>3. InstSound(World, fresh)
    <3>1. UsedStored(World, fresh) /\ Ahead(World, fresh)
      BY <1>1, <2>2, AddressTypes DEF UsedStored, Ahead, Loading
    <3>2. Covers(World, q.facts, q.facts) /\ Covers(World, q.facts, {})
      BY SubsetCovered
    <3>3. ~q.late => Finds(World, q.facts, World.row)
      BY <1>1, SubsetCovered DEF Loading, Covers
    <3> QED
      BY <1>1, <2>2, <3>1, <3>2, <3>3 DEF InstSound, Knows, Loading
  <2>4. SlotSound(World, next(i), fresh) /\ next(i).inst = i
    BY <1>3
  <2> HIDE DEF next
  <2>5. /\ request'[r] = next(i) /\ \A p \in Requests \ {r} : request'[p] = request[p]
        /\ store'[i] = fresh /\ \A j \in Instances \ {i} : store'[j] = store[j]
        /\ \A p \in Requests : request[p].inst # i
    BY <2>1, Types DEF Inv, Live
  <2>6. ASSUME NEW j \in Instances, InUse(request', cached', j)
        PROVE  InstSound(World, store'[j])
    <3>1. CASE j = i
      BY <2>3, <2>5, <3>1
    <3>2. CASE j # i
      <4>1. InUse(request, cached, j)
        BY <2>1, <2>4, <2>5, <2>6, <3>2 DEF InUse
      <4> QED
        BY <2>5, <3>2, <4>1 DEF Inv, RowInv, Memory
    <3> QED
      BY <3>1, <3>2
  <2>7. ASSUME NEW p \in Requests
        PROVE  SlotSound(World, request'[p], store'[request'[p].inst])
    <3>1. CASE p = r
      BY <2>4, <2>5, <3>1
    <3>2. CASE p # r
      <4>1. SlotSound(World, request[p], store[request[p].inst])
        BY DEF Inv, RowInv, Memory
      <4>2. request[p].inst \in Instances \cup {NoInstance}
        BY Types DEF Inv, Request
      <4> QED
        BY <2>5, <3>2, <4>1, <4>2, LooseSlots
    <3> QED
      BY <3>1, <3>2
  <2>8. Memory(World, request', store', cached')
    BY <2>6, <2>7 DEF Memory
  <2> QED
    BY <1>2, <2>8, AroundIs, RowInvFrom DEF Inv, RowInv
<1> QED
  BY <1>4, <1>5

-----------------------------------------------------------------------------
(* Evictions restarts and the chain *)

LEMMA EvictCacheGood ==
  ASSUME Inv, NEW r \in Requests, EvictCache(r)
  PROVE  RowInv'
<1> DEFINE reqs == [request EXCEPT ![r] = Idle]
<1>1. /\ request' = reqs /\ store' = Freed(store, reqs, NoInstance) /\ cached' = NoInstance
      /\ Around /\ proposals' = proposals
  BY DEF EvictCache, Around, history
<1>2. Memory(World, reqs, store, cached)
  BY EmptyTypes, IdleSound, Types, SlotMoveIsGood DEF Inv, RowInv
<1>3. reqs \in [Requests -> Request] /\ store \in [Instances -> Instance]
  BY EmptyTypes, Types DEF Inv
<1> HIDE DEF reqs
<1>4. Memory(World, reqs, store, NoInstance)
  BY <1>2, WalletStoreAssumption DEF Memory, InUse
<1>5. Memory(World, request', store', cached')
  BY <1>1, <1>3, <1>4, FreeingIsGood
<1> QED
  BY <1>1, <1>5, AroundIs, RowInvFrom DEF Inv, RowInv

\* After a restart nothing is in use, and only rescans go on.
LEMMA RestartGood ==
  ASSUME Inv, Restart
  PROVE  RowInv'
<1>1. /\ request' = [r \in Requests |-> IF request[r].op = "rescan" THEN request[r] ELSE Idle]
      /\ cached' = NoInstance /\ Around /\ proposals' = proposals
  BY DEF Restart, Around
<1>2. ASSUME NEW r \in Requests
      PROVE  request'[r].inst = NoInstance /\ \A s : SlotSound(World, request'[r], s)
  <2>1. CASE request[r].op = "rescan"
    <3>1. SlotSound(World, request[r], Its(r)) /\ request[r].inst = NoInstance
      BY <2>1, SlotIs DEF SlotSound, Shape, Loose
    <3> QED
      BY <1>1, <2>1, <3>1, LooseSlots
  <2>2. CASE request[r].op # "rescan"
    BY <1>1, <2>2, EmptyTypes, IdleSound
  <2> QED
    BY <2>1, <2>2
<1>3. Memory(World, request', store', cached')
  BY <1>1, <1>2, WalletStoreAssumption DEF Memory, InUse
<1> QED
  BY <1>1, <1>3, AroundIs, RowInvFrom DEF Inv, RowInv

\* A wallet that is not ahead of the chain misses no coin because of a new
\* block, or of one that is gone.
LEMMA ChainGood ==
  ASSUME Inv, Mine \/ Reorg
  PROVE  RowInv'
<1> DEFINE u == World
           v == World'
<1>1. /\ v.backend = u.backend /\ v.row = u.row /\ v.overtaken = u.overtaken
      /\ UNCHANGED <<request, store, cached, proposals>>
  BY DEF Mine, Reorg, World, history
<1>2. /\ height \in Nat /\ height' \in Nat /\ height <= height'
      /\ \A c \in Coins : minedAt[c] \in Nat /\ minedAt'[c] \in Nat
      /\ \A c \in Coins :
           minedAt'[c] \in {minedAt[c], 0} \/ (minedAt'[c] = height' /\ height' = height + 1)
      /\ \A c \in Coins : minedAt'[c] <= height'
      /\ \A c \in Coins : minedAt'[c] > 0 => minedAt'[c] \in Heights
  <2>1. /\ Outer /\ Outer' /\ MaxHeight \in Nat
    BY ChainSteps, WalletStoreAssumption DEF Inv, WalletInv
  <2>2. /\ height \in Nat /\ height' \in Nat
        /\ \A c \in Coins : /\ minedAt[c] \in Nat /\ minedAt'[c] \in 0..MaxHeight
                           /\ minedAt[c] <= height
    BY <2>1, MinedBelow DEF Outer
  <2>3. CASE Mine
    <3>1. PICK paid : minedAt' = [c \in Coins |-> IF c \in paid THEN height' ELSE minedAt[c]]
      BY <2>3 DEF Mine
    <3> QED
      BY <2>2, <2>3, <3>1 DEF Mine, Heights
  <2>4. CASE Reorg
    <3>1. /\ minedAt' = [c \in Coins |-> IF minedAt[c] = height THEN 0 ELSE minedAt[c]]
          /\ height' = height
      BY <2>4 DEF Reorg
    <3> QED
      BY <2>2, <3>1 DEF Heights
  <2> QED
    BY <2>3, <2>4
<1>3. u.mined = minedAt /\ v.mined = minedAt' /\ u.height = height /\ v.height = height'
  BY DEF World
<1> HIDE DEF u, v
<1>4. ASSUME NEW known, Reaches(u, known)
      PROVE  Reaches(v, known) /\ Missed(v, known) \subseteq Missed(u, known)
  <2>1. Reaches(v, known)
    BY <1>2, <1>3, <1>4 DEF Reaches, Heights
  <2>2. ASSUME NEW c \in Missed(v, known)
        PROVE  c \in Missed(u, known)
    <3>1. /\ c \in Coins /\ minedAt'[c] > 0 /\ Below(minedAt'[c], known) /\ Coin(c) \notin known
      BY <1>3, <2>2, MissedIs
    <3>2. minedAt'[c] \in Heights /\ minedAt'[c] <= height
      BY <1>2, <1>3, <1>4, <3>1 DEF Reaches
    <3>3. minedAt'[c] = minedAt[c]
      BY <1>2, <3>1, <3>2
    <3> QED
      BY <1>3, <3>1, <3>3, MissedIs
  <2> QED
    BY <2>1, <2>2
<1>5. ASSUME NEW known, Reaches(u, known)
      PROVE  \A cs : /\ Finds(u, known, cs) => Finds(v, known, cs)
                     /\ Covers(u, known, cs) => Covers(v, known, cs)
  BY <1>4, <1>5 DEF Finds, Covers
<1>6. (Nodeless(v) <=> Nodeless(u)) /\ Lasting(v) = Lasting(u)
  BY <1>1 DEF Nodeless, Lasting
<1>7. ASSUME NEW s, InstSound(u, s)
      PROVE  InstSound(v, s)
  <2>1. UsedStored(v, s) /\ Ahead(v, s)
    BY <1>1, <1>6, <1>7 DEF InstSound, UsedStored, Ahead
  <2>2. Knows(v, s)
    BY <1>1, <1>4, <1>5, <1>6, <1>7 DEF InstSound, Knows
  <2> QED
    BY <2>1, <2>2 DEF InstSound
<1>8. ASSUME NEW q \in Requests
      PROVE  SlotSound(v, request[q], store[request[q].inst])
  <2>1. SlotSound(u, request[q], store[request[q].inst])
    BY DEF Inv, RowInv, Memory, u
  <2>2. /\ Shape(v, request[q]) /\ Changing(v, request[q]) /\ Rescanned(request[q])
    BY <1>1, <1>6, <2>1 DEF SlotSound, Shape, Changing
  <2>3. Loading(v, request[q])
    BY <1>1, <1>4, <1>6, <2>1 DEF SlotSound, Loading
  <2>4. Carrying(v, request[q], store[request[q].inst])
    <3>1. ASSUME request[q].step \in {"merge", "replace", "write", "rewrite"}, Nodeless(u)
          PROVE  Reaches(u, store[request[q].inst].wallet)
      BY <3>1, CarrierIs DEF InstSound, Knows, u, Its
    <3> QED
      BY <1>1, <1>5, <1>6, <2>1, <3>1 DEF SlotSound, Carrying
  <2> QED
    BY <2>2, <2>3, <2>4 DEF SlotSound
<1>9. Memory(v, request, store, cached)
  BY <1>7, <1>8 DEF Inv, RowInv, Memory, u
<1>10. RowSound(v, proposals)
  <2>1. RowSound(u, proposals)
    BY DEF Inv, RowInv, u
  <2> QED
    BY <1>1, <1>2, <1>3, <1>4, <1>6, <2>1 DEF RowSound
<1> QED
  BY <1>1, <1>9, <1>10, RowInvFrom DEF v

-----------------------------------------------------------------------------
(* The invariant holds *)

LEMMA RowInvHoldsAtFirst == Init => RowInv
<1> SUFFICES ASSUME Init
             PROVE  RowInv
  OBVIOUS
<1>1. /\ \A r \in Requests : request[r] = Idle
      /\ cached = NoInstance /\ row = {} /\ proposals = {}
      /\ \A c \in Coins : minedAt[c] = 0
      /\ height \in 0..1
  BY DEF Init
<1>2. Memory(World, request, store, cached)
  BY <1>1, EmptyTypes, IdleSound, WalletStoreAssumption DEF Memory, InUse
<1>3. RowSound(World, proposals)
  BY <1>1, BlocksAre DEF RowSound, Reaches, World
<1> QED
  BY <1>2, <1>3 DEF RowInv

LEMMA RowInvUntouched ==
  ASSUME Inv, UNCHANGED vars
  PROVE  RowInv'
<1>1. World' = World /\ UNCHANGED <<request, store, cached, proposals>>
  BY DEF vars, chain, history, World
<1> QED
  BY <1>1, RowInvFrom DEF Inv, RowInv

LEMMA InvInductive == Inv /\ [Next]_vars => Inv'
<1> SUFFICES ASSUME Inv, [Next]_vars
             PROVE  RowInv'
  BY WalletInvInductive DEF Inv
<1>1. ASSUME NEW r \in Requests, NEW op \in Ops \ {"rescan"}, Arrive(r, op)
      PROVE  RowInv'
  BY <1>1, ArriveGood
<1>2. ASSUME NEW r \in Requests,
             Load(r) \/ EvictCache(r) \/ RescanWalk(r) \/ RescanWrite(r) \/ Stop(r)
      PROVE  RowInv'
  BY <1>2, ReadRowGood, WriteInitialGood, InsertCacheGood, EvictCacheGood, RescanWalkGood,
     RescanWriteGood, StopGood DEF Load
<1>3. ASSUME NEW r \in Requests, Touch(r)
      PROVE  RowInv'
  BY <1>3, SyncGood, SyncRebuiltGood, SyncFailsGood, RevealGood, BuildGood, BuildFailsGood,
     DiscardingGood DEF Touch
<1>4. ASSUME NEW r \in Requests, Persist(r)
      PROVE  RowInv'
  BY <1>4, MergeGood, ReplaceGood, WriteGood, LeavingGood DEF Persist
<1>5. ASSUME Outside
      PROVE  RowInv'
  BY <1>5, RestartGood, ChainGood DEF Outside
<1> QED
  BY <1>1, <1>2, <1>3, <1>4, <1>5, RowInvUntouched DEF Next

LEMMA InvHolds == Spec => []Inv
<1>1. Init => Inv
  BY InitHolds, RowInvHoldsAtFirst DEF Inv
<1> QED
  BY <1>1, InvInductive, PTL DEF Spec

\* The row knows the change address of every proposal that was inserted, for any
\* number of operations and instances, unless a write was out of date
\* (wallet.rs build_proposal, which persists before its caller inserts).
THEOREM ChangeScriptsArePersisted == Spec => []ChangeScriptPersisted
<1>1. Inv => ChangeScriptPersisted
  BY DEF Inv, RowInv, RowSound, World, ChangeScriptPersisted
<1> QED
  BY <1>1, InvHolds, PTL

-----------------------------------------------------------------------------
(* What a write may forget *)

\* A slot writes the row only in these steps, and moves on.
Writes(r) == WriteInitial(r) \/ Write(r) \/ RescanWrite(r)

LEMMA WritersMove ==
  ASSUME Inv, NEW r \in Requests, Writes(r)
  PROVE  /\ request'[r].step # request[r].step /\ row' = request[r].facts
         /\ minedAt' = minedAt
<1>1. \E inst, next : /\ WriteRow(r, inst, request[r].facts, next)
                     /\ next.step \in {"insert", "idle", "store"}
                     /\ request[r].step \notin {"insert", "idle", "store"}
  <2>1. CASE WriteInitial(r)
    <3>1. [request[r] EXCEPT !.step = "insert", !.late = FALSE].step = "insert"
      BY Types DEF Request, Inv
    <3> QED
      BY <2>1, <3>1 DEF WriteInitial, Holds
  <2>2. CASE Write(r)
    <3>1. AfterWrite(r).step \in {"idle", "store"}
      BY Types DEF AfterWrite, Request, Idle, Inv
    <3> QED
      BY <2>2, <3>1 DEF Write
  <2>3. CASE RescanWrite(r)
    BY <2>3 DEF RescanWrite, Holds, Idle
  <2> QED
    BY <2>1, <2>2, <2>3 DEF Writes
<1>2. DOMAIN MarkedLate(r) = Requests
  BY DEF MarkedLate
<1> QED
  BY <1>1, <1>2 DEF WriteRow, Writes, WriteInitial, Write, RescanWrite, chain

LEMMA OthersKeepTheRow ==
  ASSUME [Next]_vars, \A r \in Requests : ~Writes(r)
  PROVE  row' = row
<1>1. ASSUME NEW r \in Requests,
             \/ \E op \in Ops \ {"rescan"} : Arrive(r, op)
             \/ ReadRow(r) \/ InsertCache(r) \/ EvictCache(r) \/ RescanWalk(r) \/ Stop(r)
      PROVE  row' = row
  BY <1>1 DEF Arrive, ReadRow, InsertCache, EvictCache, RescanWalk, Stop
<1>2. ASSUME NEW r \in Requests, Touch(r)
      PROVE  row' = row
  BY <1>2 DEF Touch, Sync, SyncRebuilt, SyncFails, Reveal, RevealFirst, Build, BuildFails,
              ComputeDrain, BuildResweep
<1>3. ASSUME NEW r \in Requests, Merge(r) \/ Replace(r) \/ WriteFails(r) \/ InsertProposal(r)
      PROVE  row' = row
  BY <1>3 DEF Merge, Replace, WriteFails, InsertProposal
<1>4. Outside \/ UNCHANGED vars => row' = row
  BY DEF Outside, Restart, Mine, Reorg, vars
<1> QED
  BY <1>1, <1>2, <1>3, <1>4 DEF Next, Load, Persist, Writes

\* A write that is neither out of date nor a rescan keeps every address, and
\* every coin or, with a nodeless backend, those that no wallet knows to be lost.
LEMMA FreshWritesForgetNothing ==
  ASSUME Inv, NEW r \in Requests, Writes(r), ~Outdated(r), request[r].op # "rescan"
  PROVE  Forgotten = {}
<1>1. row' = request[r].facts /\ minedAt' = minedAt
  BY WritersMove
<1>2. \A c : c \in Skipped(row)' => /\ c \in Coins /\ minedAt[c] > 0
                                     /\ Below(minedAt[c], row') /\ Coin(c) \notin row'
  BY <1>1 DEF Skipped
<1>3. CASE WriteInitial(r)
  <2>1. row \subseteq row'
    BY <1>1, <1>3, SlotIs DEF WriteInitial, Holds, SlotSound, Loading, Outdated, World
  <2> QED
    BY <1>2, <2>1 DEF Forgotten
<1>4. CASE Write(r)
  <2>1. request[r].step \in {"write", "rewrite"}
    BY <1>4 DEF Write
  <2>2. /\ row \cap Lasting(World) \subseteq row' /\ Addresses \subseteq Lasting(World)
        /\ row \subseteq Facts
    BY <1>1, <2>1, WriteKeeps, Types DEF Inv
  <2>3. ASSUME NEW f \in row, f[1] \in {"external", "change"}
        PROVE  f \in row'
    BY <2>2, <2>3 DEF Addresses
  <2>4. ASSUME NEW c \in Skipped(row)', Coin(c) \in row, OverRpc
        PROVE  FALSE
    BY <1>2, <2>2, <2>4, WorldIs DEF Lasting, Inv
  <2>5. ASSUME NEW c \in Skipped(row)', Coin(c) \in row, ~OverRpc,
               \A i \in Instances : Coin(c) \notin store[i].wallet
        PROVE  FALSE
    <3>1. Nodeless(World) /\ World.mined = minedAt /\ World.row = row
      BY <2>5, WorldIs DEF Inv
    <3>2. /\ request[r].inst \in Instances /\ ~Its(r).behind /\ InstSound(World, Its(r))
          /\ Coin(c) \notin Its(r).wallet
      BY <2>1, <2>5, CarrierIs DEF Outdated, Its
    <3>3. c \notin Missed(World, Its(r).wallet)
      BY <1>2, <2>5, <3>1, <3>2, CoinsAre DEF InstSound, Knows, Finds
    <3>4. Below(minedAt[c], request[r].facts) /\ minedAt[c] \in Heights
      <4>1. minedAt[c] \in 0..MaxHeight /\ minedAt[c] > 0 /\ MaxHeight \in Nat
        BY <1>2, <2>5, WalletStoreAssumption DEF Inv, WalletInv, Outer
      <4> QED
        BY <1>1, <1>2, <2>5, <4>1 DEF Heights
    <3>5. Below(minedAt[c], Its(r).wallet)
      BY <2>1, <3>1, <3>4, WriteKeeps DEF Covers, Tops
    <3> QED
      BY <1>2, <2>5, <3>1, <3>2, <3>3, <3>5, MissedIs
  <2> QED
    BY <2>3, <2>4, <2>5 DEF Forgotten
<1>5. CASE RescanWrite(r)
  BY <1>5, SlotIs DEF RescanWrite, Holds, SlotSound, Shape
<1> QED
  BY <1>3, <1>4, <1>5 DEF Writes

LEMMA WhateverStaysIsKept ==
  ASSUME row' = row
  PROVE  Forgotten = {}
<1>1. \A c : c \in Skipped(row)' => Coin(c) \notin row'
  BY DEF Skipped
<1> QED
  BY <1>1 DEF Forgotten

\* Only a write that is out of date, or a rescan, makes the row forget an address
\* or a coin that will not be found again, for any number of operations and
\* instances and chains of any length (wallet.rs persist_delta,
\* db.rs update_federation_changeset).
THEOREM OnlyOutdatedForget == Spec => OnlyOutdatedWritesForget
<1>1. ASSUME Inv, [Next]_vars, Forgotten # {}
      PROVE  \E r \in Requests : request'[r].step # request[r].step
                                 /\ (Outdated(r) \/ request[r].op = "rescan")
  <2>1. PICK r \in Requests : Writes(r)
    BY <1>1, OthersKeepTheRow, WhateverStaysIsKept
  <2> QED
    BY <1>1, <2>1, WritersMove, FreshWritesForgetNothing
<1>2. Inv /\ [Next]_vars =>
        [Forgotten # {} => \E r \in Requests :
           request'[r].step # request[r].step /\ (Outdated(r) \/ request[r].op = "rescan")]_vars
  BY <1>1
<1> QED
  BY <1>2, InvHolds, PTL DEF Spec, OnlyOutdatedWritesForget

-----------------------------------------------------------------------------
(* After a sync that had the wallet to itself *)

\* Such a sync carries what its instance holds, and everyone else is idle.
AloneSound(q, s) == q.alone =>
  /\ q.op = "sync"
  /\ q.step \in {"merge", "replace", "write", "rewrite"} => s.staged = {}
  /\ q.step = "write" => q.facts = s.aggregate
  /\ q.step \in {"replace", "rewrite"} => q.facts = s.wallet
Solitude == \A r \in Requests : request[r].alone =>
              \A q \in Requests \ {r} : request[q].step = "idle"
AloneInv == Solitude /\ \A r \in Requests : AloneSound(request[r], Its(r))

\* A slot at work is the only one that can be alone.
LEMMA WorkingAlone ==
  ASSUME AloneInv, NEW r \in Requests, request[r].step # "idle",
         \A q \in Requests \ {r} : /\ request'[q].step = request[q].step
                                   /\ request'[q].alone = request[q].alone,
         request'[r].alone => request[r].alone,
         AloneSound(request'[r], store'[request'[r].inst])
  PROVE  AloneInv'
<1>1. \A q \in Requests \ {r} : ~request'[q].alone
  BY DEF AloneInv, Solitude
<1>2. request'[r].alone => \A q \in Requests \ {r} : request'[q].step = "idle"
  BY DEF AloneInv, Solitude
<1>3. \A q \in Requests : AloneSound(request'[q], store'[request'[q].inst])
  BY <1>1 DEF AloneSound
<1> QED
  BY <1>1, <1>2, <1>3 DEF AloneInv, Solitude, AloneSound, Its

LEMMA ApplyAlone ==
  ASSUME WalletInv, AloneInv, NEW r \in Requests, request[r].step # "idle", NEW next, NEW insts,
         Apply(r, next, insts), next.alone => request[r].alone,
         next.inst \in Instances => AloneSound(next, insts[next.inst]),
         next.inst \notin Instances => ~next.alone
  PROVE  AloneInv'
<1>1. /\ request'[r] = next /\ \A q \in Requests \ {r} : request'[q] = request[q]
      /\ next.inst \in Instances => store'[next.inst] = insts[next.inst]
  BY Types DEF Apply, Freed
<1>2. AloneSound(request'[r], store'[request'[r].inst])
  BY <1>1 DEF AloneSound
<1> QED
  BY <1>1, <1>2, WorkingAlone

LEMMA IdleIsNotAlone == Idle.alone = FALSE /\ Idle.inst = NoInstance /\ NoInstance \notin Instances
  BY WalletStoreAssumption DEF Idle

LEMMA CarryAlone ==
  ASSUME WalletInv, AloneInv, NEW r \in Requests, request[r].step = "touch",
         NEW new \in SUBSET Facts, NEW change \in 0..MaxChange, NEW s \in Instance,
         s.staged = {}, Carry(r, new, change, s)
  PROVE  AloneInv'
<1> DEFINE delta == Its(r).staged \cup (new \ Its(r).wallet)
           q == request[r]
           carrying == [q EXCEPT !.step = "merge", !.facts = delta, !.change = change]
           storing == [q EXCEPT !.step = "store", !.change = change]
           insts == [store EXCEPT ![q.inst] = s]
           next == IF delta # {} THEN carrying
                   ELSE IF q.op = "build" THEN storing ELSE Idle
<1>1. q \in Request /\ q.inst \in Instances
  BY Holder
<1>2. insts[q.inst] = s
  BY <1>1, Types
<1> HIDE DEF delta
<1>3. /\ carrying.inst = q.inst /\ carrying.step = "merge" /\ carrying.op = q.op
      /\ carrying.alone = q.alone
      /\ storing.inst = q.inst /\ storing.step = "store" /\ storing.op = q.op
      /\ storing.alone = q.alone
  BY <1>1 DEF Request
<1>4. Apply(r, next, insts)
  BY DEF Carry, delta
<1> HIDE DEF carrying, storing, insts
<1>5. AloneSound(q, Its(r))
  BY DEF AloneInv
<1>6. next.alone => q.alone
  BY <1>3, IdleIsNotAlone
<1>7. next.inst \in Instances => AloneSound(next, insts[next.inst])
  BY <1>2, <1>3, <1>5, IdleIsNotAlone DEF AloneSound
<1>8. next.inst \notin Instances => ~next.alone
  BY <1>1, <1>3, IdleIsNotAlone
<1> HIDE DEF next
<1> QED
  BY <1>4, <1>6, <1>7, <1>8, ApplyAlone

LEMMA TouchAlone ==
  ASSUME WalletInv, AloneInv, NEW r \in Requests, Touch(r)
  PROVE  AloneInv'
<1>1. /\ request[r].step = "touch" /\ Its(r) \in Instance /\ request[r] \in Request
      /\ request[r].inst \in Instances
  <2>1. request[r].step = "touch"
    BY DEF Touch, Sync, SyncRebuilt, SyncFails, Reveal, RevealFirst, Build, BuildFails,
           ComputeDrain, BuildResweep, Touches, Holds
  <2> QED
    BY <2>1, Holder
<1>2. ASSUME NEW new \in SUBSET Facts, Carry(r, new, 0, Learned(r, new))
      PROVE  AloneInv'
  <2>1. Learned(r, new) \in Instance /\ Learned(r, new).staged = {} /\ 0 \in 0..MaxChange
    BY <1>1, LearnedType, WalletStoreAssumption
  <2> QED
    BY <1>1, <1>2, <2>1, CarryAlone
<1>3. ASSUME NEW insts, Apply(r, Idle, insts)
      PROVE  AloneInv'
  BY <1>1, <1>3, IdleIsNotAlone, ApplyAlone
<1>4. CASE Sync(r)
  <2> DEFINE new == IF OverRpc THEN Walk(Its(r).wallet, height) ELSE Scan(Its(r).wallet)
  <2>1. height \in 0..height
    BY WalletStoreAssumption DEF WalletInv, Outer
  <2>2. new \in SUBSET Facts
    BY <2>1, WalkType, ScanType DEF WalletInv
  <2>3. Carry(r, new, 0, Learned(r, new))
    BY <1>4 DEF Sync
  <2> HIDE DEF new
  <2> QED
    BY <1>2, <2>2, <2>3
<1>5. CASE Reveal(r) \/ RevealFirst(r)
  <2>1. {External} \in SUBSET Facts
    BY FactTypes
  <2>2. Carry(r, {External}, 0, Learned(r, {External}))
    BY <1>5 DEF Reveal, RevealFirst
  <2> QED
    BY <1>2, <2>1, <2>2
<1>6. CASE Build(r)
  <2>1. ASSUME NEW k \in 1..MaxChange, Carry(r, {Change(k)}, k, Marked(r, k))
        PROVE  AloneInv'
    <3>1. {Change(k)} \in SUBSET Facts /\ k \in 0..MaxChange
      BY FactTypes, WalletStoreAssumption
    <3>2. Marked(r, k) \in Instance /\ Marked(r, k).staged = {}
      BY <1>1, MarkedType
    <3> QED
      BY <1>1, <2>1, <3>1, <3>2, CarryAlone
  <2>2. {} \in SUBSET Facts
    OBVIOUS
  <2> QED
    BY <1>2, <1>6, <2>1, <2>2 DEF Build
<1>7. CASE SyncRebuilt(r)
  <2> DEFINE rebuilt == Rebuild(Its(r).wallet)
             next == [request[r] EXCEPT !.step = "replace", !.facts = rebuilt]
             s == [Its(r) EXCEPT !.wallet = rebuilt, !.staged = {}, !.lost = {}]
             insts == [store EXCEPT ![request[r].inst] = s]
  <2>1. Apply(r, next, insts)
    BY <1>7 DEF SyncRebuilt
  <2>2. insts[request[r].inst] = s /\ AloneSound(request[r], Its(r))
    BY <1>1, Types DEF AloneInv
  <2> HIDE DEF rebuilt, insts
  <2>3. /\ next.inst = request[r].inst /\ next.step = "replace" /\ next.facts = rebuilt
        /\ next.op = request[r].op /\ next.alone = request[r].alone
        /\ s.wallet = rebuilt /\ s.staged = {}
    BY <1>1 DEF Request, Instance
  <2> HIDE DEF next, s
  <2>4. AloneSound(next, s)
    BY <2>2, <2>3 DEF AloneSound
  <2> QED
    BY <1>1, <2>1, <2>2, <2>3, <2>4, ApplyAlone
<1>8. CASE SyncFails(r) \/ BuildFails(r) \/ ComputeDrain(r)
  BY <1>3, <1>8 DEF SyncFails, BuildFails, ComputeDrain
<1>9. CASE BuildResweep(r)
  <2> DEFINE evict == [request[r] EXCEPT !.step = "evict"]
  <2>1. PICK next \in {Idle, evict} :
          Apply(r, next, [store EXCEPT ![request[r].inst] = Discarded(r)])
    BY <1>9 DEF BuildResweep
  <2>2. /\ evict.step = "evict" /\ evict.inst = request[r].inst /\ evict.op = request[r].op
        /\ evict.alone = request[r].alone
    BY <1>1 DEF Request
  <2> HIDE DEF evict
  <2>3. ASSUME NEW t
        PROVE  AloneSound(evict, t)
    BY <2>2 DEF AloneInv, AloneSound
  <2> QED
    BY <1>1, <1>3, <2>1, <2>2, <2>3, ApplyAlone
<1> QED
  BY <1>4, <1>5, <1>6, <1>7, <1>8, <1>9 DEF Touch

LEMMA PersistAlone ==
  ASSUME WalletInv, AloneInv, NEW r \in Requests, Merge(r) \/ Replace(r)
  PROVE  AloneInv'
<1> DEFINE q == request[r]
<1>1. /\ q.step \in {"merge", "replace"} /\ q \in Request /\ q.inst \in Instances
      /\ Its(r) \in Instance /\ AloneSound(q, Its(r))
  BY Holder DEF Merge, Replace, Holds, AloneInv
<1>2. CASE Merge(r)
  <2> DEFINE json == Its(r).aggregate \cup q.facts
             next == [q EXCEPT !.step = "write", !.facts = json]
             s == [Its(r) EXCEPT !.aggregate = json]
             insts == [store EXCEPT ![q.inst] = s]
  <2>1. Apply(r, next, insts) /\ insts[q.inst] = s /\ q.step = "merge"
    BY <1>1, <1>2, Types DEF Merge, Its, Holds
  <2> HIDE DEF json, insts
  <2>2. /\ next.inst = q.inst /\ next.step = "write" /\ next.facts = json
        /\ next.op = q.op /\ next.alone = q.alone
        /\ s.aggregate = json /\ s.staged = Its(r).staged
    BY <1>1 DEF Request, Instance
  <2> HIDE DEF next, s
  <2>3. AloneSound(next, s)
    BY <1>1, <2>1, <2>2 DEF AloneSound
  <2> QED
    BY <1>1, <2>1, <2>2, <2>3, ApplyAlone
<1>3. CASE Replace(r)
  <2> DEFINE forgotten == (Its(r).aggregate \ q.facts) \cap Its(r).wallet
             next == [q EXCEPT !.step = "rewrite"]
             s == [Its(r) EXCEPT !.aggregate = q.facts, !.lost = @ \cup forgotten,
                                 !.behind = @ \/ forgotten # {}]
             insts == [store EXCEPT ![q.inst] = s]
  <2>1. Apply(r, next, insts) /\ insts[q.inst] = s /\ q.step = "replace"
    BY <1>1, <1>3, Types DEF Replace, Holds
  <2> HIDE DEF forgotten, insts
  <2>2. /\ next.inst = q.inst /\ next.step = "rewrite" /\ next.facts = q.facts
        /\ next.op = q.op /\ next.alone = q.alone
        /\ s.wallet = Its(r).wallet /\ s.staged = Its(r).staged
    BY <1>1 DEF Request, Instance
  <2> HIDE DEF next, s
  <2>3. AloneSound(next, s)
    BY <1>1, <2>1, <2>2 DEF AloneSound
  <2> QED
    BY <1>1, <2>1, <2>2, <2>3, ApplyAlone
<1> QED
  BY <1>2, <1>3

LEMMA WritersAlone ==
  ASSUME WalletInv, AloneInv, NEW r \in Requests, Writes(r)
  PROVE  AloneInv'
<1> DEFINE storing == [request[r] EXCEPT !.step = "store", !.facts = {}, !.late = FALSE]
           insert == [request[r] EXCEPT !.step = "insert", !.late = FALSE]
<1>1. /\ request[r] \in Request /\ request[r].step # "idle" /\ AloneSound(request[r], Its(r))
  BY Types DEF Writes, WriteInitial, Write, RescanWrite, Holds, AloneInv
<1>2. /\ storing.alone = request[r].alone /\ storing.op = request[r].op /\ storing.step = "store"
      /\ insert.alone = request[r].alone /\ insert.op = request[r].op /\ insert.step = "insert"
  BY <1>1 DEF Request
<1>3. \E next \in {Idle, storing, insert} : \E inst : WriteRow(r, inst, request[r].facts, next)
  BY DEF Writes, WriteInitial, Write, RescanWrite, AfterWrite
<1> HIDE DEF storing, insert
<1>4. PICK next \in {Idle, storing, insert} : \E inst : WriteRow(r, inst, request[r].facts, next)
  BY <1>3
<1>5. next.alone => request[r].alone /\ \A t : AloneSound(next, t)
  BY <1>1, <1>2, IdleIsNotAlone DEF AloneSound
<1>6. /\ request'[r] = next
      /\ \A q \in Requests \ {r} : /\ request'[q].step = request[q].step
                                   /\ request'[q].alone = request[q].alone
  BY <1>4, Types DEF WriteRow, MarkedLate, Request
<1>7. AloneSound(request'[r], store'[request'[r].inst])
  BY <1>5, <1>6 DEF AloneSound
<1> QED
  BY <1>1, <1>5, <1>6, <1>7, WorkingAlone

\* Arriving, and walking a rescan, end whoever's solitude.
LEMMA ArrivingAlone ==
  ASSUME WalletInv, NEW r \in Requests,
         RescanWalk(r) \/ \E op \in Ops \ {"rescan"} : Arrive(r, op)
  PROVE  AloneInv'
<1>1. \E next : /\ request' = [NotAlone EXCEPT ![r] = next]
                /\ next.alone => /\ next.op = "sync" /\ next.step \in {"read", "touch"}
                                 /\ \A q \in Requests : request[q].step = "idle"
  <2>1. CASE RescanWalk(r)
    <3>1. \A fs : [Idle EXCEPT !.op = "rescan", !.step = "overwrite", !.facts = fs].alone = FALSE
      BY DEF Idle
    <3> QED
      BY <2>1, <3>1 DEF RescanWalk
  <2>2. CASE \E op \in Ops \ {"rescan"} : Arrive(r, op)
    <3>1. PICK op \in Ops \ {"rescan"} : Arrive(r, op)
      BY <2>2
    <3> DEFINE quiet == \A q \in Requests : Holds(q, "idle")
               next == [Idle EXCEPT !.op = op, !.inst = cached, !.alone = quiet /\ op = "sync",
                                    !.step = IF cached = NoInstance THEN "read" ELSE "touch"]
    <3>2. request' = [NotAlone EXCEPT ![r] = next]
      BY <3>1 DEF Arrive
    <3>3. /\ next.op = op /\ next.alone = (quiet /\ op = "sync")
          /\ next.step = IF cached = NoInstance THEN "read" ELSE "touch"
      BY DEF Idle
    <3> HIDE DEF next
    <3> QED
      BY <3>2, <3>3 DEF Holds
  <2> QED
    BY <2>1, <2>2
<1>2. PICK next : /\ request' = [NotAlone EXCEPT ![r] = next]
                  /\ next.alone => /\ next.op = "sync" /\ next.step \in {"read", "touch"}
                                   /\ \A q \in Requests : request[q].step = "idle"
  BY <1>1
<1>3. /\ request'[r] = next
      /\ \A q \in Requests \ {r} : request'[q].alone = FALSE /\ request'[q].step = request[q].step
  BY <1>2, Types DEF NotAlone, Request
<1> QED
  BY <1>2, <1>3 DEF AloneInv, Solitude, AloneSound

LEMMA LoadingAlone ==
  ASSUME WalletInv, AloneInv, NEW r \in Requests, ReadRow(r) \/ InsertCache(r)
  PROVE  AloneInv'
<1>1. request[r] \in Request /\ request[r].step \in {"read", "insert"}
  BY Types DEF ReadRow, InsertCache, Holds
<1>2. \E next : /\ request' = [request EXCEPT ![r] = next] /\ next.op = request[r].op
                /\ next.alone = request[r].alone /\ next.step \in {"seed", "insert", "touch"}
  <2>1. CASE ReadRow(r)
    <3>1. \A fs, st : LET next == [request[r] EXCEPT !.facts = fs, !.step = st]
                      IN  /\ next.op = request[r].op /\ next.alone = request[r].alone
                          /\ next.step = st
      BY <1>1 DEF Request
    <3>2. PICK fs : LET st == IF fs = row THEN "insert" ELSE "seed"
                    IN  request' = [request EXCEPT ![r] =
                                      [request[r] EXCEPT !.facts = fs, !.step = st]]
      BY <2>1 DEF ReadRow
    <3> DEFINE st == IF fs = row THEN "insert" ELSE "seed"
               next == [request[r] EXCEPT !.facts = fs, !.step = st]
    <3>3. request' = [request EXCEPT ![r] = next] /\ st \in {"seed", "insert"}
      BY <3>2
    <3> HIDE DEF st
    <3>4. next.op = request[r].op /\ next.alone = request[r].alone /\ next.step = st
      BY <3>1
    <3> HIDE DEF next
    <3> QED
      BY <3>3, <3>4
  <2>2. CASE InsertCache(r)
    <3> DEFINE next(i) == [request[r] EXCEPT !.step = "touch", !.inst = i, !.facts = {},
                                             !.late = FALSE]
    <3>1. \E i : request' = [request EXCEPT ![r] = next(i)]
      BY <2>2 DEF InsertCache
    <3>2. \A i : /\ next(i).op = request[r].op /\ next(i).alone = request[r].alone
                 /\ next(i).step = "touch"
      BY <1>1 DEF Request
    <3> HIDE DEF next
    <3> QED
      BY <3>1, <3>2
  <2> QED
    BY <2>1, <2>2
<1>3. PICK next : /\ request' = [request EXCEPT ![r] = next] /\ next.op = request[r].op
                  /\ next.alone = request[r].alone /\ next.step \in {"seed", "insert", "touch"}
  BY <1>2
<1>4. request'[r] = next /\ \A q \in Requests \ {r} : request'[q] = request[q]
  BY <1>3, Types
<1>5. AloneSound(next, store'[next.inst])
  BY <1>3 DEF AloneInv, AloneSound
<1> QED
  BY <1>1, <1>3, <1>4, <1>5, WorkingAlone

LEMMA LeavingAlone ==
  ASSUME WalletInv, AloneInv, NEW r \in Requests,
         WriteFails(r) \/ InsertProposal(r) \/ EvictCache(r) \/ Stop(r)
  PROVE  AloneInv'
<1>1. request[r].step # "idle"
  BY DEF WriteFails, InsertProposal, EvictCache, Stop, Holds
<1>2. request' = [request EXCEPT ![r] = Idle]
  BY DEF WriteFails, InsertProposal, EvictCache, Stop, Apply
<1>3. request'[r] = Idle /\ \A q \in Requests \ {r} : request'[q] = request[q]
  BY <1>2, Types
<1> QED
  BY <1>1, <1>3, IdleIsNotAlone, WorkingAlone DEF AloneSound

LEMMA OutsideAlone ==
  ASSUME WalletInv, AloneInv, Outside \/ UNCHANGED vars
  PROVE  AloneInv'
<1>1. CASE Restart
  <2>1. \A r \in Requests : request'[r] = IF request[r].op = "rescan" THEN request[r] ELSE Idle
    BY <1>1 DEF Restart
  <2>2. \A r \in Requests : ~request'[r].alone
    BY <2>1, IdleIsNotAlone DEF AloneInv, AloneSound
  <2> QED
    BY <2>2 DEF AloneInv, Solitude, AloneSound
<1>2. CASE Mine \/ Reorg \/ UNCHANGED vars
  <2>1. UNCHANGED <<request, store>>
    BY <1>2 DEF Mine, Reorg, vars
  <2> QED
    BY <2>1 DEF AloneInv, Solitude, AloneSound, Its
<1> QED
  BY <1>1, <1>2 DEF Outside

LEMMA AloneInvInductive == WalletInv /\ AloneInv /\ [Next]_vars => AloneInv'
<1> SUFFICES ASSUME WalletInv, AloneInv, [Next]_vars
             PROVE  AloneInv'
  OBVIOUS
<1>1. ASSUME NEW r \in Requests,
             \/ \E op \in Ops \ {"rescan"} : Arrive(r, op)
             \/ RescanWalk(r) \/ ReadRow(r) \/ InsertCache(r)
      PROVE  AloneInv'
  BY <1>1, ArrivingAlone, LoadingAlone
<1>2. ASSUME NEW r \in Requests, Touch(r) \/ Merge(r) \/ Replace(r) \/ Writes(r)
      PROVE  AloneInv'
  BY <1>2, TouchAlone, PersistAlone, WritersAlone
<1>3. ASSUME NEW r \in Requests, WriteFails(r) \/ InsertProposal(r) \/ EvictCache(r) \/ Stop(r)
      PROVE  AloneInv'
  BY <1>3, LeavingAlone
<1>4. Outside \/ UNCHANGED vars => AloneInv'
  BY OutsideAlone
<1> QED
  BY <1>1, <1>2, <1>3, <1>4 DEF Next, Load, Persist, Writes

LEMMA AloneInvHolds == Spec => [](WalletInv /\ AloneInv)
<1>1. Init => WalletInv /\ AloneInv
  <2>1. Init => AloneInv
    BY IdleIsNotAlone DEF Init, AloneInv, Solitude, AloneSound
  <2> QED
    BY <2>1, InitHolds
<1>2. WalletInv /\ AloneInv /\ [Next]_vars => (WalletInv /\ AloneInv)'
  BY WalletInvInductive, AloneInvInductive
<1> QED
  BY <1>1, <1>2, PTL DEF Spec

\* After a sync that had the wallet to itself the row holds what the wallet knows,
\* but for what was let go before; after a rebuild it holds exactly that, with
\* no coin of the block that is gone (wallet.rs sync_wallet).
THEOREM SoleSyncsSettleTheRow == Spec => SettledRow
<1> DEFINE Ends(r) == /\ request[r].op = "sync" /\ request[r].alone
                      /\ request[r].step \in {"write", "rewrite"}
                      /\ request'[r].step = "idle" /\ row' = request[r].facts
           Settles(r) == /\ Its(r).wallet \ Its(r).lost \subseteq row'
                         /\ Holds(r, "rewrite") => row' = Its(r).wallet
<1>1. ASSUME Inv, AloneInv, NEW r \in Requests, Ends(r)
      PROVE  Settles(r)
  <2>1. AloneSound(request[r], Its(r)) /\ \A q \in Requests \ {r} : request[q].step = "idle"
    BY <1>1 DEF AloneInv, Solitude
  <2>2. CASE Holds(r, "rewrite")
    BY <1>1, <2>1, <2>2 DEF AloneSound, Holds
  <2>3. CASE ~Holds(r, "rewrite")
    <3>1. row' = Its(r).aggregate /\ Its(r).staged = {}
      BY <1>1, <2>1, <2>3 DEF AloneSound, Holds
    <3>2. \A q \in Requests : \A f : ~InTransit(request[q], request[r].inst, f)
      BY <1>1, <2>1 DEF InTransit
    <3>3. request[r].inst \in Instances
      BY <1>1, CarrierIs
    <3>4. \A f \in Its(r).wallet : Kept(Its(r), f)
      BY <1>1, <3>2, <3>3 DEF Inv, WalletInv, MemoryInv, FactsAccounted, Its
    <3> QED
      BY <2>3, <3>1, <3>4 DEF Kept
  <2> QED
    BY <2>2, <2>3
<1>2. Inv /\ AloneInv => [\A r \in Requests : Ends(r) => Settles(r)]_vars
  BY <1>1
<1> QED
  BY <1>2, InvHolds, AloneInvHolds, PTL DEF Spec, SettledRow


-----------------------------------------------------------------------------
(* The coins the row skips *)

\* What is around the views, and the coins that need no other excuse.
OnTheirWay == {c \in Coins : \E r \in Requests : Coin(c) \in Carried(r)}
Journey == [mined |-> minedAt, height |-> height, excused |-> dropped \cup OnTheirWay,
            open |-> shown = "parked" \/ rescanned]

\* Facts that miss a coin only for a cause.
Before(w, c, cs) == \A b \in Heights, v \in {1, 2} : Block(b, v) \in cs => w.mined[c] <= b
Unaware(w, c, cs) == (c \in Sweeps \/ w.open) /\ Before(w, c, cs)
Fine(w, cs) ==
  Reaches(w, cs) /\ \A c \in Missed(w, cs) : Unaware(w, c, cs) \/ c \in w.excused

\* An instance that is not behind.
Settled(s) == s.wallet \ s.staged
StageAhead(w, s) ==
  \A c \in CoinsOf(s.staged) : w.mined[c] > 0 /\ ~Below(w.mined[c], Settled(s))
LostExcused(w, s) == \A c \in CoinsOf(s.lost) : Coin(c) \in s.aggregate \/ c \in w.excused
InstFine(w, s) == /\ Fine(w, s.wallet) /\ Fine(w, s.aggregate) /\ s.aggregate \subseteq Settled(s)
                  /\ s.staged \subseteq s.wallet
                  /\ StageAhead(w, s) /\ LostExcused(w, s)

\* A slot, with the instance it holds.
SlotFine(w, q, s) ==
  /\ q.step \in {"seed", "insert"} /\ ~q.late => Fine(w, q.facts)
  /\ q.step = "merge" /\ ~s.behind => q.facts \subseteq Settled(s)
  /\ q.step = "write" /\ ~q.late /\ ~s.behind => Fine(w, q.facts) /\ q.facts \subseteq s.aggregate
  /\ q.step = "overwrite" =>
       Reaches(w, q.facts) /\ \A c \in Missed(w, q.facts) : Before(w, c, q.facts)

Views(w, reqs, insts, keep) ==
  /\ \A i \in Instances : InUse(reqs, keep, i) /\ ~insts[i].behind => InstFine(w, insts[i])
  /\ \A r \in Requests : SlotFine(w, reqs[r], insts[reqs[r].inst])
ShownInTime ==
  /\ \A c \in Deposits : minedAt[c] > 0 => shown # "never"
  /\ shown = "tracked" => ~Parked(row) \/ rescanned

CoinGood == Fine(Journey, row) /\ Views(Journey, request, store, cached) /\ ShownInTime
CoinInv  == OverRpc /\ ~overtaken => CoinGood

-----------------------------------------------------------------------------
(* What a step leaves fine *)

JourneyType(w) == /\ w.mined \in [Coins -> 0..MaxHeight] /\ w.height \in 0..MaxHeight
                  /\ w.excused \subseteq Coins /\ w.open \in BOOLEAN

\* Time goes on: coins are mined above the tip, and whoever was excused still
\* is, or has arrived in the row.
Onward(w, x, kept) ==
  /\ w.height <= x.height /\ (w.open => x.open)
  /\ \A c \in Coins : x.mined[c] = w.mined[c] \/ (w.mined[c] = 0 /\ w.height < x.mined[c])
  /\ \A c \in w.excused : c \in x.excused \/ Coin(c) \in kept

LEMMA HeightsAre == Heights \subseteq Nat /\ MaxHeight \in Nat
  BY WalletStoreAssumption DEF Heights

LEMMA FineStays ==
  ASSUME NEW w, NEW x, JourneyType(w), JourneyType(x), NEW kept, Onward(w, x, kept),
         NEW cs, kept \subseteq cs, Fine(w, cs)
  PROVE  Fine(x, cs)
<1>0. w.height \in Nat /\ x.height \in Nat
  BY HeightsAre DEF JourneyType
<1>1. Reaches(x, cs)
  BY <1>0, HeightsAre DEF Fine, Reaches, Onward
<1>2. ASSUME NEW c \in Missed(x, cs)
      PROVE  Unaware(x, c, cs) \/ c \in x.excused
  <2>1. c \in Coins /\ x.mined[c] > 0 /\ Below(x.mined[c], cs) /\ Coin(c) \notin cs
    BY MissedIs
  <2>2. x.mined[c] \in Nat /\ w.mined[c] \in Nat
    BY <2>1, HeightsAre DEF JourneyType
  <2>3. PICK b \in Heights : x.mined[c] <= b /\ Below(b, cs)
    BY <2>1, BlocksAre, HeightsAre
  <2>4. b <= w.height
    BY <2>3 DEF Fine, Reaches
  <2>5. x.mined[c] = w.mined[c]
    BY <1>0, <2>1, <2>2, <2>3, <2>4, HeightsAre DEF Onward
  <2>6. c \in Missed(w, cs)
    BY <2>1, <2>5, MissedIs
  <2>7. Unaware(w, c, cs) => Unaware(x, c, cs)
    BY <2>5 DEF Unaware, Before, Onward
  <2>8. c \in w.excused => c \in x.excused
    BY <2>1 DEF Onward
  <2> QED
    BY <2>6, <2>7, <2>8 DEF Fine
<1> QED
  BY <1>1, <1>2 DEF Fine

LEMMA InstFineStays ==
  ASSUME NEW w, NEW x, JourneyType(w), JourneyType(x), NEW kept, Onward(w, x, kept),
         NEW s, kept \subseteq s.aggregate, InstFine(w, s)
  PROVE  InstFine(x, s)
<1>1. kept \subseteq s.wallet
  BY DEF InstFine, Settled
<1>2. Fine(x, s.wallet) /\ Fine(x, s.aggregate)
  BY <1>1, FineStays DEF InstFine
<1>3. StageAhead(x, s)
  <2> SUFFICES ASSUME NEW c \in CoinsOf(s.staged)
               PROVE  x.mined[c] > 0 /\ ~Below(x.mined[c], Settled(s))
    BY DEF StageAhead
  <2>1. c \in Coins /\ w.mined[c] > 0 /\ ~Below(w.mined[c], Settled(s))
    BY CoinsAre DEF InstFine, StageAhead
  <2>2. x.mined[c] = w.mined[c]
    BY <2>1 DEF Onward
  <2> QED
    BY <2>1, <2>2
<1>4. LostExcused(x, s)
  BY DEF InstFine, LostExcused, Onward
<1> QED
  BY <1>2, <1>3, <1>4 DEF InstFine

\* A slot that waits, but for being marked late or no longer alone.
SameSlot(q, p) ==
  p.step = q.step /\ p.facts = q.facts /\ p.inst = q.inst /\ (q.late => p.late)
\* What an instance becomes under the slots that hold it.
Extends(s, t) == ~t.behind =>
  ~s.behind /\ Settled(s) \subseteq Settled(t) /\ s.aggregate \subseteq t.aggregate
\* An instance that stays, but for being marked.
SameInst(s, t) == /\ t.wallet = s.wallet /\ t.staged = s.staged /\ t.aggregate = s.aggregate
                  /\ t.lost = s.lost /\ (s.behind => t.behind)

LEMMA SlotFineStays ==
  ASSUME NEW w, NEW x, JourneyType(w), JourneyType(x), NEW kept, Onward(w, x, kept),
         NEW q, NEW p, SameSlot(q, p), p.late \in BOOLEAN, q.late \in BOOLEAN,
         NEW s, NEW t, p.step \in {"merge", "write"} => Extends(s, t),
         p.step \in {"seed", "insert"} /\ ~p.late => kept \subseteq p.facts,
         p.step = "write" /\ ~p.late /\ ~t.behind => kept \subseteq p.facts,
         SlotFine(w, q, s)
  PROVE  SlotFine(x, p, t)
<1>1. p.step \in {"seed", "insert"} /\ ~p.late => Fine(x, p.facts)
  BY FineStays DEF SlotFine, SameSlot
<1>2. p.step = "merge" /\ ~t.behind => p.facts \subseteq Settled(t)
  BY DEF SlotFine, SameSlot, Extends
<1>3. p.step = "write" /\ ~p.late /\ ~t.behind => Fine(x, p.facts) /\ p.facts \subseteq t.aggregate
  BY FineStays DEF SlotFine, SameSlot, Extends
<1>4. ASSUME p.step = "overwrite"
      PROVE  Reaches(x, p.facts) /\ \A c \in Missed(x, p.facts) : Before(x, c, p.facts)
  <2>2. Reaches(w, p.facts) /\ \A c \in Missed(w, p.facts) : Before(w, c, p.facts)
    BY <1>4 DEF SlotFine, SameSlot
  <2>3. w.height \in Nat /\ x.height \in Nat
    BY HeightsAre DEF JourneyType
  <2>4. Reaches(x, p.facts)
    BY <2>2, <2>3, HeightsAre DEF Reaches, Onward
  <2>5. ASSUME NEW c \in Missed(x, p.facts)
        PROVE  Before(x, c, p.facts)
    <3>1. /\ c \in Coins /\ x.mined[c] > 0 /\ Below(x.mined[c], p.facts)
          /\ Coin(c) \notin p.facts /\ x.mined[c] \in Nat /\ w.mined[c] \in Nat
      BY MissedIs, HeightsAre DEF JourneyType
    <3>2. PICK b \in Heights : x.mined[c] <= b /\ Below(b, p.facts)
      BY <3>1, BlocksAre, HeightsAre
    <3>3. x.mined[c] = w.mined[c]
      BY <2>2, <2>3, <3>1, <3>2, HeightsAre DEF Onward, Reaches
    <3> QED
      BY <2>2, <3>1, <3>3, MissedIs DEF Before
  <2> QED
    BY <2>4, <2>5
<1> QED
  BY <1>1, <1>2, <1>3, <1>4 DEF SlotFine

-----------------------------------------------------------------------------
(* What the steps have in common *)

\* A step in a behaviour in which the property has something to say.
Ongoing == /\ Inv /\ Inv' /\ OverRpc /\ OverRpc' /\ ~overtaken /\ ~overtaken' /\ CoinGood

LEMMA JourneyTyped ==
  WalletInv => /\ Journey.mined = minedAt /\ Journey.height = height
               /\ Journey.excused = dropped \cup OnTheirWay
               /\ Journey.open = (shown = "parked" \/ rescanned)
               /\ JourneyType(Journey)
  BY DEF Journey, JourneyType, WalletInv, Outer, OnTheirWay
LEMMA JourneyTypedNext ==
  WalletInv' => /\ Journey'.mined = minedAt' /\ Journey'.height = height'
                /\ Journey'.excused = dropped' \cup OnTheirWay'
                /\ Journey'.open = (shown' = "parked" \/ rescanned')
                /\ JourneyType(Journey')
  BY DEF Journey, JourneyType, WalletInv, Outer, OnTheirWay

LEMMA Typed ==
  ASSUME Ongoing
  PROVE  /\ JourneyType(Journey) /\ JourneyType(Journey')
         /\ store \in [Instances -> Instance] /\ request \in [Requests -> Request]
         /\ store' \in [Instances -> Instance] /\ request' \in [Requests -> Request]
         /\ cached \in Instances \cup {NoInstance} /\ row \subseteq Facts
         /\ NoInstance \notin Instances /\ ~Nodeless(World) /\ ~Nodeless(World')
         /\ Lasting(World) = Facts /\ Lasting(World') = Facts /\ row' \subseteq Facts
<1>1. WalletInv /\ WalletInv'
  BY DEF Ongoing, Inv
<1>2. /\ JourneyType(Journey) /\ JourneyType(Journey')
  BY <1>1, JourneyTyped, JourneyTypedNext
<1>3. World.backend = "rpc" /\ World'.backend = "rpc"
  BY DEF Ongoing, OverRpc, World
<1> QED
  BY <1>1, <1>2, <1>3, WalletStoreAssumption
     DEF WalletInv, MemoryInv, Outer, Nodeless, Lasting

\* What knows the row after a step.
LEMMA RowIsKnown ==
  ASSUME Ongoing
  PROVE  /\ \A i \in Instances : InUse(request', cached', i) /\ ~store'[i].behind
                                   => row' \subseteq store'[i].aggregate
         /\ \A q \in Requests :
              /\ request'[q].step \in {"seed", "insert"} /\ ~request'[q].late
                   => row' \subseteq request'[q].facts
              /\ /\ request'[q].step = "write" /\ ~request'[q].late
                 /\ ~store'[request'[q].inst].behind
                 => row' \subseteq request'[q].facts
              /\ request'[q].step \in {"merge", "write"} => request'[q].inst \in Instances
<1>1. Memory(World', request', store', cached') /\ World'.row = row'
  BY DEF Ongoing, Inv, RowInv, World
<1>2. \A i \in Instances : InUse(request', cached', i) /\ ~store'[i].behind
                             => row' \subseteq store'[i].aggregate
  BY <1>1, Typed DEF Memory, InstSound, Ahead
<1>3. ASSUME NEW q \in Requests
      PROVE  SlotSound(World', request'[q], store'[request'[q].inst]) /\ request'[q] \in Request
  BY <1>1, Typed DEF Memory
<1>4. \A q \in Requests :
        /\ request'[q].step \in {"seed", "insert"} /\ ~request'[q].late
             => row' \subseteq request'[q].facts
        /\ /\ request'[q].step = "write" /\ ~request'[q].late
           /\ ~store'[request'[q].inst].behind
           => row' \subseteq request'[q].facts
  BY <1>1, <1>3, Typed DEF SlotSound, Loading, Carrying
<1>5. \A q \in Requests : request'[q].step \in {"merge", "write"} => request'[q].inst \in Instances
  BY <1>3 DEF SlotSound, Shape, Loose, Request
<1> QED
  BY <1>2, <1>4, <1>5

\* What moved is fine, and the rest stays as it was.
LEMMA ViewsStay ==
  ASSUME Ongoing, Onward(Journey, Journey', row'),
         \A i \in Instances : InUse(request', cached', i) /\ ~store'[i].behind =>
           \/ InstFine(Journey', store'[i])
           \/ SameInst(store[i], store'[i]) /\ InUse(request, cached, i),
         \A q \in Requests :
           \/ SlotFine(Journey', request'[q], store'[request'[q].inst])
           \/ /\ SameSlot(request[q], request'[q])
              /\ request[q].inst \in Instances =>
                   Extends(store[request[q].inst], store'[request[q].inst])
  PROVE  Views(Journey', request', store', cached')
<1> DEFINE w == Journey
           x == Journey'
<1>1. Views(w, request, store, cached) /\ JourneyType(w) /\ JourneyType(x)
  BY Typed DEF Ongoing, CoinGood
<1> HIDE DEF w, x
<1>2. ASSUME NEW i \in Instances, InUse(request', cached', i), ~store'[i].behind
      PROVE  InstFine(x, store'[i])
  <2>1. row' \subseteq store'[i].aggregate
    BY <1>2, RowIsKnown
  <2>2. CASE SameInst(store[i], store'[i]) /\ InUse(request, cached, i)
    <3>1. InstFine(w, store[i])
      BY <1>1, <1>2, <2>2, Typed DEF Views, SameInst, Instance
    <3>2. InstFine(w, store'[i])
      BY <2>2, <3>1 DEF SameInst, InstFine, Settled, StageAhead, LostExcused
    <3> QED
      BY <1>1, <2>1, <3>2, InstFineStays DEF w, x
  <2> QED
    BY <1>2, <2>2 DEF x
<1>3. ASSUME NEW q \in Requests
      PROVE  SlotFine(x, request'[q], store'[request'[q].inst])
  <2>1. CASE /\ SameSlot(request[q], request'[q])
             /\ request[q].inst \in Instances =>
                  Extends(store[request[q].inst], store'[request[q].inst])
    <3>1. SlotFine(w, request[q], store[request[q].inst])
      BY <1>1 DEF Views
    <3>2. request'[q].late \in BOOLEAN /\ request[q].late \in BOOLEAN
      BY Typed DEF Request
    <3>3. /\ request'[q].step \in {"seed", "insert"} /\ ~request'[q].late
               => row' \subseteq request'[q].facts
          /\ /\ request'[q].step = "write" /\ ~request'[q].late
             /\ ~store'[request'[q].inst].behind
             => row' \subseteq request'[q].facts
      BY RowIsKnown
    <3>4. request'[q].step \in {"merge", "write"} =>
            Extends(store[request[q].inst], store'[request'[q].inst])
      BY <2>1, RowIsKnown DEF SameSlot
    <3> QED
      BY <1>1, <2>1, <3>1, <3>2, <3>3, <3>4, SlotFineStays DEF w, x
  <2> QED
    BY <1>3, <2>1 DEF x
<1> QED
  BY <1>2, <1>3 DEF Views, x

\* What is carried is carried on, dropped, or written.
LEMMA OnwardFrom ==
  ASSUME WalletInv, WalletInv', UNCHANGED <<minedAt, height>>,
         shown = "parked" => shown' = "parked", rescanned => rescanned',
         dropped \subseteq dropped',
         \A q \in Requests : \A c \in Coins : Coin(c) \in Carried(q) =>
           (\E p \in Requests : Coin(c) \in Carried(p)') \/ c \in dropped' \/ Coin(c) \in row'
  PROVE  Onward(Journey, Journey', row')
<1>1. /\ JourneyType(Journey) /\ JourneyType(Journey')
      /\ Journey.mined = minedAt /\ Journey.height = height
      /\ Journey'.mined = minedAt' /\ Journey'.height = height'
      /\ Journey.open = (shown = "parked" \/ rescanned)
      /\ Journey'.open = (shown' = "parked" \/ rescanned')
      /\ Journey.excused = dropped \cup OnTheirWay
      /\ Journey'.excused = dropped' \cup OnTheirWay'
  BY JourneyTyped, JourneyTypedNext
<1>2. \A c \in OnTheirWay : c \in dropped' \/ Coin(c) \in row' \/ c \in OnTheirWay'
  BY DEF OnTheirWay
<1>3. height \in Nat
  BY HeightsAre DEF WalletInv, Outer
<1> DEFINE w == Journey
           x == Journey'
<1> HIDE DEF w, x
<1>4. /\ w.mined = minedAt /\ x.mined = minedAt /\ w.height = height /\ x.height = height
      /\ w.open => x.open
      /\ \A c \in w.excused : c \in x.excused \/ Coin(c) \in row'
  BY <1>1, <1>2 DEF w, x
<1>5. Onward(w, x, row')
  BY <1>3, <1>4 DEF Onward
<1> QED
  BY <1>5 DEF w, x

LEMMA Itself == \A s : Extends(s, s) /\ SameInst(s, s) /\ SameSlot(s, s)
  BY DEF Extends, SameInst, SameSlot

LEMMA AnyInstance ==
  ASSUME NEW w, NEW q, q.step \notin {"merge", "write"}, NEW s, SlotFine(w, q, s), NEW t
  PROVE  SlotFine(w, q, t)
  BY DEF SlotFine

\* A step of a slot with the instance it holds.
LEMMA ApplyFine ==
  ASSUME Ongoing, Onward(Journey, Journey', row'), cached' = cached, NEW r \in Requests,
         request[r].inst \in Instances, NEW next \in Request, next.inst \in {request[r].inst, NoInstance},
         NEW s \in Instance, Apply(r, next, [store EXCEPT ![request[r].inst] = s]),
         Extends(Its(r), s), ~s.behind => InstFine(Journey', s), SlotFine(Journey', next, s)
  PROVE  Views(Journey', request', store', cached')
<1> DEFINE j == request[r].inst
           x == Journey'
           insts == [store EXCEPT ![j] = s]
<1>1. /\ request'[r] = next /\ \A q \in Requests \ {r} : request'[q] = request[q]
      /\ insts[j] = s /\ \A i \in Instances \ {j} : insts[i] = store[i]
      /\ \A i \in Instances : InUse(request', cached', i) => store'[i] = insts[i]
  BY Typed DEF Apply, Freed, InUse
<1> HIDE DEF insts, x
<1>2. \A i \in Instances : InUse(request', cached', i) => InUse(request, cached, i)
  <2>1. \A q \in Requests : request'[q].inst \in {request[q].inst, NoInstance}
    BY <1>1
  <2> QED
    BY <2>1, Typed DEF InUse
<1>3. ASSUME NEW i \in Instances, InUse(request', cached', i), ~store'[i].behind
      PROVE  InstFine(x, store'[i]) \/ (SameInst(store[i], store'[i]) /\ InUse(request, cached, i))
  BY <1>1, <1>2, <1>3, Itself DEF x
<1>4. ASSUME NEW q \in Requests
      PROVE  \/ SlotFine(x, request'[q], store'[request'[q].inst])
             \/ /\ SameSlot(request[q], request'[q])
                /\ request[q].inst \in Instances =>
                     Extends(store[request[q].inst], store'[request[q].inst])
  <2>1. CASE q = r
    <3>1. CASE next.inst = j
      <4>1. store'[next.inst] = s
        BY <1>1, <3>1 DEF InUse
      <4> QED
        BY <1>1, <2>1, <4>1 DEF x
    <3>2. CASE next.inst = NoInstance
      <4>1. next.step \notin {"merge", "write"}
        BY <1>1, <3>2, RowIsKnown, Typed
      <4> QED
        BY <1>1, <2>1, <4>1, AnyInstance DEF x
    <3> QED
      BY <3>1, <3>2
  <2>2. CASE q # r
    <3>1. request'[q] = request[q]
      BY <1>1, <2>2
    <3>2. ASSUME request[q].inst \in Instances
          PROVE  Extends(store[request[q].inst], store'[request[q].inst])
      <4>1. store'[request[q].inst] = insts[request[q].inst]
        BY <1>1, <3>1, <3>2 DEF InUse
      <4> QED
        BY <1>1, <3>2, <4>1, Itself DEF Its
    <3> QED
      BY <3>1, <3>2, Itself
  <2> QED
    BY <2>1, <2>2
<1> QED
  BY <1>3, <1>4, ViewsStay DEF x

\* A step of a slot that leaves the instances alone.
LEMMA ApplySlotFine ==
  ASSUME Ongoing, Onward(Journey, Journey', row'), cached' \in {cached, NoInstance}, NEW r \in Requests,
         NEW next \in Request, next.inst \in {request[r].inst, NoInstance},
         request' = [request EXCEPT ![r] = next],
         store' = Freed(store, request', cached') \/ UNCHANGED store,
         SlotFine(Journey', next, store[next.inst])
  PROVE  Views(Journey', request', store', cached')
<1> DEFINE x == Journey'
<1>1. /\ request'[r] = next /\ \A q \in Requests \ {r} : request'[q] = request[q]
      /\ \A i \in Instances : InUse(request', cached', i) => store'[i] = store[i]
  BY Typed DEF Freed, InUse
<1> HIDE DEF x
<1>2. \A i \in Instances : InUse(request', cached', i) => InUse(request, cached, i)
  <2>1. \A q \in Requests : request'[q].inst \in {request[q].inst, NoInstance}
    BY <1>1
  <2> QED
    BY <2>1, Typed DEF InUse
<1>3. \A i \in Instances : InUse(request', cached', i) /\ ~store'[i].behind =>
        SameInst(store[i], store'[i]) /\ InUse(request, cached, i)
  BY <1>1, <1>2, Itself
<1>4. ASSUME NEW q \in Requests
      PROVE  \/ SlotFine(x, request'[q], store'[request'[q].inst])
             \/ /\ SameSlot(request[q], request'[q])
                /\ request[q].inst \in Instances =>
                     Extends(store[request[q].inst], store'[request[q].inst])
  <2>1. CASE q = r
    <3>1. CASE next.inst \in Instances
      <4>1. store'[next.inst] = store[next.inst]
        BY <1>1, <3>1 DEF InUse
      <4> QED
        BY <1>1, <2>1, <4>1 DEF x
    <3>2. CASE next.inst \notin Instances
      <4>1. next.step \notin {"merge", "write"}
        BY <1>1, <3>2, RowIsKnown
      <4> QED
        BY <1>1, <2>1, <4>1, AnyInstance DEF x
    <3> QED
      BY <3>1, <3>2
  <2>2. CASE q # r
    BY <1>1, <2>2, Itself DEF InUse
  <2> QED
    BY <2>1, <2>2
<1> QED
  BY <1>3, <1>4, ViewsStay DEF x

\* A write of the row leaves everyone but its own instance behind or late.
LEMMA WriteRowFine ==
  ASSUME Ongoing, Onward(Journey, Journey', row'), cached' = cached, NEW r \in Requests,
         NEW inst \in Instances \cup {NoInstance}, inst \in {request[r].inst, NoInstance},
         NEW facts, NEW next \in Request, next.inst \in {request[r].inst, NoInstance},
         next.step \notin {"merge", "write"}, SlotFine(Journey', next, Unused),
         WriteRow(r, inst, facts, next)
  PROVE  Views(Journey', request', store', cached')
<1> DEFINE x == Journey'
           reqs == [MarkedLate(r) EXCEPT ![r] = next]
           insts == MarkedBehind(inst)
<1>1. /\ request' = reqs /\ store' = Freed(insts, reqs, cached)
  BY DEF WriteRow
<1>2. /\ reqs[r] = next
      /\ \A q \in Requests \ {r} : SameSlot(request[q], reqs[q])
  BY Typed DEF MarkedLate, Request, SameSlot
<1>3. \A i \in Instances : SameInst(store[i], insts[i])
  BY Typed DEF MarkedBehind, Instance, SameInst
<1> HIDE DEF reqs, insts, x
<1>4. \A i \in Instances : InUse(request', cached', i) => store'[i] = insts[i]
  BY <1>1 DEF Freed, InUse
<1>5. \A i \in Instances : InUse(request', cached', i) => InUse(request, cached, i)
  <2>1. \A q \in Requests : request'[q].inst \in {request[q].inst, NoInstance}
    BY <1>1, <1>2 DEF SameSlot
  <2> QED
    BY <2>1, Typed DEF InUse
<1>6. \A i \in Instances : InUse(request', cached', i) =>
        SameInst(store[i], store'[i]) /\ InUse(request, cached, i)
  BY <1>3, <1>4, <1>5
<1>7. ASSUME NEW q \in Requests
      PROVE  \/ SlotFine(x, request'[q], store'[request'[q].inst])
             \/ /\ SameSlot(request[q], request'[q])
                /\ request[q].inst \in Instances =>
                     Extends(store[request[q].inst], store'[request[q].inst])
  <2>1. CASE q = r
    BY <1>1, <1>2, <2>1, AnyInstance DEF x
  <2>2. CASE q # r
    <3>1. SameSlot(request[q], request'[q])
      BY <1>1, <1>2, <2>2
    <3>2. ASSUME request[q].inst \in Instances
          PROVE  Extends(store[request[q].inst], store'[request[q].inst])
      <4>1. InUse(request', cached', request[q].inst)
        BY <3>1 DEF InUse, SameSlot
      <4>2. SameInst(store[request[q].inst], store'[request[q].inst])
        BY <1>6, <3>2, <4>1
      <4>3. /\ store[request[q].inst].behind \in BOOLEAN /\ store'[request[q].inst].behind \in BOOLEAN
        BY <3>2, Typed DEF Instance
      <4> QED
        BY <4>2, <4>3 DEF Extends, SameInst, Settled
    <3> QED
      BY <3>1, <3>2
  <2> QED
    BY <2>1, <2>2
<1> QED
  BY <1>6, <1>7, ViewsStay DEF x

\* The receive page is shown, if at all, over the row as it is then.
Showing == \/ shown' = shown
           \/ shown = "never" /\ shown' = IF Parked(row') THEN "parked" ELSE "tracked"

LEMMA ShownStays ==
  ASSUME ShownInTime, Showing, UNCHANGED minedAt, rescanned => rescanned',
         rescanned' \/ (~Parked(row) => ~Parked(row'))
  PROVE  ShownInTime' /\ (shown = "parked" => shown' = "parked")
  BY DEF ShownInTime, Showing, Parked, Blocks

LEMMA RowGrows ==
  \A cs, ds : cs \subseteq ds => (~Parked(cs) => ~Parked(ds))
  BY DEF Parked, Blocks

\* Whoever leaves the row alone and lets go of nothing unrecorded.
LEMMA QuietlyGood ==
  ASSUME Ongoing, UNCHANGED <<minedAt, row>>, rescanned' = rescanned, Showing,
         Onward(Journey, Journey', row'), Views(Journey', request', store', cached')
  PROVE  CoinGood'
<1>1. JourneyType(Journey) /\ JourneyType(Journey') /\ Fine(Journey, row) /\ ShownInTime
  BY Typed DEF Ongoing, CoinGood
<1>2. Fine(Journey', row')
  <2>1. row' = row
    OBVIOUS
  <2> QED
    BY <1>1, <2>1, FineStays
<1>3. ShownInTime'
  BY <1>1, ShownStays
<1> QED
  BY <1>2, <1>3 DEF CoinGood

LEMMA ItsFine ==
  ASSUME Ongoing, NEW r \in Requests
  PROVE  /\ request[r] \in Request /\ SlotFine(Journey, request[r], Its(r))
         /\ request[r].inst \in Instances => Its(r) \in Instance
         /\ request[r].inst \in Instances /\ ~Its(r).behind =>
              InstFine(Journey, Its(r)) /\ row \subseteq Its(r).aggregate
         /\ SlotSound(World, request[r], Its(r))
<1>1. Views(Journey, request, store, cached) /\ Inv
  BY DEF Ongoing, CoinGood
<1>2. /\ request[r] \in Request /\ SlotSound(World, request[r], Its(r))
      /\ request[r].inst \in Instances => Its(r) \in Instance /\ InstSound(World, Its(r))
  BY <1>1, SlotIs
<1>3. SlotFine(Journey, request[r], Its(r))
  BY <1>1 DEF Views, Its
<1>4. request[r].inst \in Instances /\ ~Its(r).behind => InstFine(Journey, Its(r))
  BY <1>1 DEF Views, Its, InUse
<1>5. request[r].inst \in Instances /\ ~Its(r).behind => row \subseteq Its(r).aggregate
  BY <1>2, Typed DEF InstSound, Ahead, World
<1> QED
  BY <1>2, <1>3, <1>4, <1>5

\* A step under the lock on the wallet.
LEMMA TouchFine ==
  ASSUME Ongoing, NEW r \in Requests, request[r].step = "touch",
         UNCHANGED <<chain, row, cached>>, Showing, rescanned' = rescanned, dropped \subseteq dropped',
         NEW next \in Request, next.inst \in {request[r].inst, NoInstance},
         next.step \notin {"seed", "insert", "write", "overwrite"},
         NEW s \in Instance, next.step = "merge" /\ ~Its(r).behind => next.facts \subseteq Settled(s),
         s.behind = Its(r).behind, s.aggregate = Its(r).aggregate,
         Settled(Its(r)) \subseteq Settled(s),
         ~Its(r).behind =>
           /\ s.staged \subseteq s.wallet /\ Fine(Journey, s.wallet) /\ StageAhead(Journey, s)
           /\ \A c \in CoinsOf(s.lost) :
                Coin(c) \in Its(r).lost \/ c \in dropped' \/ Coin(c) \in row,
         Apply(r, next, [store EXCEPT ![request[r].inst] = s])
  PROVE  CoinGood'
<1> DEFINE w == Journey
           x == Journey'
<1>1. request[r].inst \in Instances
  BY TouchIs DEF Ongoing
<1>2. /\ Its(r) \in Instance
      /\ ~Its(r).behind => InstFine(w, Its(r)) /\ row \subseteq Its(r).aggregate
  BY <1>1, ItsFine
<1>3. Onward(w, x, row')
  <2>1. \A q \in Requests : q # r => request'[q] = request[q]
    BY Typed DEF Apply
  <2>2. \A q \in Requests : \A c \in Coins : Coin(c) \in Carried(q) => Coin(c) \in Carried(q)'
    BY <2>1 DEF Carried
  <2>3. WalletInv /\ WalletInv' /\ UNCHANGED <<minedAt, height>>
    BY DEF Ongoing, Inv, chain
  <2>4. shown = "parked" => shown' = "parked"
    BY DEF Showing
  <2> QED
    BY <2>2, <2>3, <2>4, OnwardFrom
<1>4. JourneyType(w) /\ JourneyType(x) /\ x.mined = w.mined /\ dropped' \subseteq x.excused
  BY Typed, JourneyTyped, JourneyTypedNext DEF Ongoing, Inv, chain
<1> HIDE DEF w, x
<1>5. ASSUME ~s.behind
      PROVE  InstFine(x, s)
  <2>1. InstFine(w, Its(r)) /\ row' \subseteq s.aggregate
    BY <1>2, <1>5
  <2>2. s.aggregate \subseteq Settled(s)
    BY <2>1 DEF InstFine
  <2>3. row' \subseteq s.wallet
    BY <2>1, <2>2 DEF Settled
  <2>4. Fine(x, s.wallet)
    BY <1>3, <1>4, <1>5, <2>3, FineStays DEF w
  <2>5. Fine(x, s.aggregate)
    BY <1>3, <1>4, <2>1, FineStays DEF InstFine
  <2>6. StageAhead(x, s)
    BY <1>4, <1>5 DEF StageAhead, w
  <2>7. LostExcused(x, s)
    <3> SUFFICES ASSUME NEW c \in CoinsOf(s.lost)
                 PROVE  Coin(c) \in s.aggregate \/ c \in x.excused
      BY DEF LostExcused
    <3>1. CASE Coin(c) \in Its(r).lost
      <4>1. Coin(c) \in Its(r).aggregate \/ c \in w.excused
        BY <2>1, <3>1, CoinsAre DEF InstFine, LostExcused
      <4> QED
        BY <1>3, <2>1, <4>1 DEF Onward
    <3> QED
      BY <1>4, <1>5, <2>1, <3>1
  <2> QED
    BY <1>5, <2>2, <2>4, <2>5, <2>6, <2>7 DEF InstFine
<1>6. Extends(Its(r), s)
  BY DEF Extends
<1>7. SlotFine(x, next, s)
  BY DEF SlotFine
<1>8. Views(Journey', request', store', cached')
  BY <1>1, <1>3, <1>5, <1>6, <1>7, ApplyFine DEF w, x
<1> QED
  BY <1>3, <1>8, QuietlyGood DEF chain, w, x

-----------------------------------------------------------------------------
(* Under the lock on the wallet *)

\* A wallet that walks on, and one that is given addresses.
LEMMA WalkIsFine ==
  ASSUME WalletInv, NEW w, JourneyType(w), w.mined = minedAt, w.height = height,
         NEW cs, NEW to \in 0..height
  PROVE  /\ Fine(w, cs) => Fine(w, cs \cup Walk(cs, to))
         /\ \A c \in CoinsOf(Walk(cs, to)) : minedAt[c] > 0 /\ ~Below(minedAt[c], cs)
<1> DEFINE new == {h \in 1..to : ~Below(h, cs)}
           all == cs \cup Walk(cs, to)
<1>1. /\ JourneyType(w) /\ w.mined = minedAt /\ w.height = height
      /\ height \in Nat /\ to \in Nat /\ to <= height /\ height <= MaxHeight
      /\ \A c \in Coins : minedAt[c] \in Nat
  BY HeightsAre DEF WalletInv, Outer
<1>2. 1..to \subseteq Heights /\ \A h \in Heights : version[h] \in {1, 2}
  BY <1>1, HeightsAre DEF Heights, WalletInv, Outer
<1>3. \A c : Coin(c) \in Walk(cs, to) <=> c \in Coins /\ minedAt[c] \in new
  BY FactKinds DEF Walk, BlockAt
<1>4. \A b, v : Block(b, v) \in Walk(cs, to) => b \in new
  BY FactKinds DEF Walk, BlockAt
<1> HIDE DEF all
<1>5. \A c \in CoinsOf(Walk(cs, to)) : minedAt[c] > 0 /\ ~Below(minedAt[c], cs)
  BY <1>1, <1>3, CoinsAre
<1>6. ASSUME Fine(w, cs)
      PROVE  Fine(w, all)
  <2>1. \A h \in Heights : Below(h, all) =>
          Below(h, cs) \/ \E b \in new : h <= b
    BY <1>4, BlocksAre DEF all
  <2>2. Reaches(w, all)
    <3>1. \A h \in Heights, b \in new : h <= b => h <= height
      <4>1. new \subseteq 1..to
        OBVIOUS
      <4> HIDE DEF new
      <4> QED
        BY <1>1, <4>1, HeightsAre
    <3>2. \A h \in Heights : Below(h, cs) => h <= w.height
      BY <1>6 DEF Fine, Reaches
    <3> HIDE DEF new
    <3>3. \A h \in Heights : Below(h, all) => h <= w.height
      BY <1>1, <2>1, <3>1, <3>2
    <3> QED
      BY <3>3 DEF Reaches
  <2>3. ASSUME NEW c \in Missed(w, all)
        PROVE  Unaware(w, c, all) \/ c \in w.excused
    <3>1. /\ c \in Coins /\ minedAt[c] > 0 /\ Below(minedAt[c], all)
          /\ Coin(c) \notin cs /\ minedAt[c] \notin new
      BY <1>1, <1>3, <2>3, MissedIs DEF all
    <3>2. Below(minedAt[c], cs)
      <4>1. PICK b \in Heights, v \in {1, 2} : Block(b, v) \in all /\ minedAt[c] <= b
        BY <3>1, BlocksAre
      <4>2. CASE Block(b, v) \in cs
        BY <4>1, <4>2, BlocksAre
      <4>3. CASE b \in new
        BY <1>1, <3>1, <4>1, <4>3
      <4> QED
        BY <1>4, <4>1, <4>2, <4>3 DEF all
    <3>3. c \in Missed(w, cs)
      BY <1>1, <3>1, <3>2, MissedIs
    <3>4. ASSUME Before(w, c, cs)
          PROVE  Before(w, c, all)
      <4> SUFFICES ASSUME NEW b \in Heights, NEW v \in {1, 2}, Block(b, v) \in all
                   PROVE  w.mined[c] <= b
        BY DEF Before
      <4>1. CASE Block(b, v) \in cs
        BY <3>4, <4>1 DEF Before
      <4>2. CASE b \in new
        <5>1. ~Below(b, cs) /\ b \in Nat
          BY <4>2
        <5>2. PICK a \in Heights, z \in {1, 2} : Block(a, z) \in cs /\ minedAt[c] <= a
          BY <3>2, BlocksAre
        <5>3. minedAt[c] <= a /\ ~(b <= a)
          BY <5>1, <5>2, BlocksAre
        <5>4. w.mined[c] <= a
          BY <3>4, <5>2 DEF Before
        <5>5. \A d \in Heights, y \in {1, 2} : Block(d, y) \in cs => ~(b <= d)
          BY <5>1, BlocksAre
        <5> QED
          BY <1>1, <3>1, <5>1, <5>2, <5>3, HeightsAre
      <4> QED
        BY <1>4, <4>1, <4>2 DEF all
    <3> QED
      BY <1>6, <3>3, <3>4 DEF Fine, Unaware
  <2> QED
    BY <2>2, <2>3 DEF Fine
<1> QED
  BY <1>5, <1>6 DEF all

LEMMA AddressesAreFine ==
  ASSUME NEW w, NEW cs, NEW as \in SUBSET Addresses, Fine(w, cs)
  PROVE  Fine(w, cs \cup as)
<1> DEFINE all == cs \cup as
<1>1. /\ \A h : Below(h, all) <=> Below(h, cs)
      /\ \A b, v : Block(b, v) \in all <=> Block(b, v) \in cs
      /\ \A c : Coin(c) \in all <=> Coin(c) \in cs
  BY BelowAddresses, AddressTypes
<1> HIDE DEF all
<1>2. Reaches(w, all)
  BY <1>1 DEF Fine, Reaches
<1>3. ASSUME NEW c \in Missed(w, all)
      PROVE  c \in Missed(w, cs) /\ (Unaware(w, c, cs) => Unaware(w, c, all))
  BY <1>1, MissedIs DEF Unaware, Before
<1>4. Fine(w, all)
  BY <1>2, <1>3 DEF Fine
<1> QED
  BY <1>4 DEF all

\* What a wallet learned, and what was staged, is taken.
LEMMA CarryFine ==
  ASSUME Ongoing, NEW r \in Requests, request[r].step = "touch",
         UNCHANGED <<chain, row, cached>>, Showing, rescanned' = rescanned, dropped' = dropped,
         NEW new \in SUBSET Facts, NEW change \in 0..MaxChange, NEW s \in Instance,
         s.wallet = Its(r).wallet \cup new, s.aggregate = Its(r).aggregate,
         s.lost = Its(r).lost, s.behind = Its(r).behind, s.staged = {},
         ~Its(r).behind /\ Fine(Journey, Its(r).wallet) => Fine(Journey, s.wallet),
         Carry(r, new, change, s)
  PROVE  CoinGood'
<1> DEFINE delta == Its(r).staged \cup (new \ Its(r).wallet)
           q == request[r]
           carrying == [q EXCEPT !.step = "merge", !.facts = delta, !.change = change]
           storing == [q EXCEPT !.step = "store", !.change = change]
           next == IF delta # {} THEN carrying
                   ELSE IF q.op = "build" THEN storing ELSE Idle
<1>1. /\ q \in Request /\ q.inst \in Instances /\ Its(r) \in Instance
      /\ ~Its(r).behind => InstFine(Journey, Its(r))
  BY TouchIs, ItsFine DEF Ongoing
<1>2. delta \subseteq Facts
  BY <1>1 DEF Instance
<1>3. ~Its(r).behind => delta \subseteq s.wallet
  BY <1>1 DEF InstFine
<1> HIDE DEF delta
<1>4. /\ carrying \in Request /\ carrying.inst = q.inst /\ carrying.step = "merge"
      /\ carrying.facts = delta
      /\ storing \in Request /\ storing.inst = q.inst /\ storing.step = "store"
  BY <1>1, <1>2 DEF Request
<1>5. Apply(r, next, [store EXCEPT ![q.inst] = s])
  BY DEF Carry, delta
<1> HIDE DEF carrying, storing
<1>6. /\ next \in Request /\ next.inst \in {q.inst, NoInstance}
      /\ next.step \in {"merge", "store", "idle"}
      /\ next.step = "merge" => next.facts = delta
  BY <1>4, EmptyTypes
<1> HIDE DEF next
<1>7. Settled(s) = s.wallet /\ Settled(Its(r)) \subseteq s.wallet
  BY DEF Settled
<1>8. ~Its(r).behind =>
        /\ s.staged \subseteq s.wallet /\ Fine(Journey, s.wallet) /\ StageAhead(Journey, s)
        /\ \A c \in CoinsOf(s.lost) : Coin(c) \in Its(r).lost
  BY <1>1, CoinsAre DEF InstFine, StageAhead
<1> QED
  BY <1>3, <1>5, <1>6, <1>7, <1>8, TouchFine

LEMMA SyncFine ==
  ASSUME Ongoing, NEW r \in Requests, Sync(r)
  PROVE  CoinGood'
<1> DEFINE known == Its(r).wallet
           new == Walk(known, height)
<1>1. /\ request[r].step = "touch" /\ UNCHANGED <<chain, row, cached>>
      /\ UNCHANGED <<shown, rescanned, dropped>>
      /\ Carry(r, new, 0, Learned(r, new))
  BY DEF Sync, Touches, Holds, history, Ongoing
<1>2. WalletInv /\ height \in 0..height /\ Its(r) \in Instance
  BY <1>1, TouchIs, HeightsAre DEF Ongoing, Inv, WalletInv, Outer
<1>3. new \in SUBSET Facts /\ (Fine(Journey, known) => Fine(Journey, known \cup new))
  BY <1>2, WalkType, WalkIsFine, JourneyTyped DEF WalletInv
<1> HIDE DEF new
<1>4. /\ Learned(r, new) \in Instance /\ Learned(r, new).wallet = known \cup new
      /\ Learned(r, new).aggregate = Its(r).aggregate /\ Learned(r, new).staged = {}
      /\ Learned(r, new).lost = Its(r).lost /\ Learned(r, new).behind = Its(r).behind
  BY <1>2, <1>3, LearnedType, KeepsBehind
<1>5. 0 \in 0..MaxChange
  BY WalletStoreAssumption
<1> QED
  BY <1>1, <1>3, <1>4, <1>5, CarryFine DEF Showing

LEMMA RevealFine ==
  ASSUME Ongoing, NEW r \in Requests, Reveal(r) \/ RevealFirst(r)
  PROVE  CoinGood'
<1> DEFINE new == {External}
<1>1. /\ request[r].step = "touch" /\ UNCHANGED <<chain, row, cached>>
      /\ UNCHANGED <<rescanned, dropped>> /\ Showing
      /\ Carry(r, new, 0, Learned(r, new))
  BY DEF Reveal, RevealFirst, Touches, Holds, history, ShownBy, Showing
<1>2. Its(r) \in Instance
  BY <1>1, TouchIs DEF Ongoing
<1>3. new \in SUBSET Facts /\ new \in SUBSET Addresses
  BY AddressTypes
<1> HIDE DEF new
<1>4. /\ Learned(r, new) \in Instance /\ Learned(r, new).wallet = Its(r).wallet \cup new
      /\ Learned(r, new).aggregate = Its(r).aggregate /\ Learned(r, new).staged = {}
      /\ Learned(r, new).lost = Its(r).lost /\ Learned(r, new).behind = Its(r).behind
  BY <1>2, <1>3, LearnedType, KeepsBehind
<1>5. 0 \in 0..MaxChange
  BY WalletStoreAssumption
<1>6. Fine(Journey, Its(r).wallet) => Fine(Journey, Its(r).wallet \cup new)
  BY <1>3, AddressesAreFine
<1> QED
  BY <1>1, <1>3, <1>4, <1>5, <1>6, CarryFine

LEMMA BuildFine ==
  ASSUME Ongoing, NEW r \in Requests, Build(r)
  PROVE  CoinGood'
<1>1. /\ request[r].step = "touch" /\ UNCHANGED <<chain, row, cached>>
      /\ UNCHANGED <<shown, rescanned, dropped>>
  BY DEF Build, Touches, Holds, history
<1>2. Its(r) \in Instance /\ 0 \in 0..MaxChange
  BY <1>1, TouchIs, WalletStoreAssumption DEF Ongoing
<1>3. ASSUME Carry(r, {}, 0, Learned(r, {}))
      PROVE  CoinGood'
  <2> DEFINE new == {}
  <2>1. Carry(r, new, 0, Learned(r, new)) /\ new \in SUBSET Facts /\ new \in SUBSET Addresses
    BY <1>3
  <2> HIDE DEF new
  <2>2. /\ Learned(r, new) \in Instance /\ Learned(r, new).wallet = Its(r).wallet \cup new
        /\ Learned(r, new).aggregate = Its(r).aggregate /\ Learned(r, new).staged = {}
        /\ Learned(r, new).lost = Its(r).lost /\ Learned(r, new).behind = Its(r).behind
    BY <1>2, <2>1, LearnedType, KeepsBehind
  <2>3. Fine(Journey, Its(r).wallet) => Fine(Journey, Its(r).wallet \cup new)
    BY <2>1, AddressesAreFine
  <2> QED
    BY <1>1, <1>2, <2>1, <2>2, <2>3, CarryFine DEF Showing
<1>4. ASSUME NEW k \in 1..MaxChange, Carry(r, {Change(k)}, k, Marked(r, k))
      PROVE  CoinGood'
  <2> DEFINE s == Marked(r, k)
             new == {Change(k)}
  <2>1. /\ new \in SUBSET Facts /\ new \in SUBSET Addresses /\ k \in 0..MaxChange
    BY AddressTypes, WalletStoreAssumption
  <2>2. /\ s \in Instance /\ s.wallet = Its(r).wallet \cup new
        /\ s.aggregate = Its(r).aggregate /\ s.lost = Its(r).lost /\ s.staged = {}
        /\ s.behind = Its(r).behind
    BY <1>2, MarkedType, KeepsBehind
  <2>3. Carry(r, new, k, s)
    BY <1>4
  <2> HIDE DEF s, new
  <2>4. Fine(Journey, Its(r).wallet) => Fine(Journey, Its(r).wallet \cup new)
    BY <2>1, AddressesAreFine
  <2> QED
    BY <1>1, <2>1, <2>2, <2>3, <2>4, CarryFine DEF Showing
<1> QED
  BY <1>3, <1>4 DEF Build

\* What is staged and not taken stays above what was taken.
LEMMA SyncFailsFine ==
  ASSUME Ongoing, NEW r \in Requests, SyncFails(r)
  PROVE  CoinGood'
<1> DEFINE known == Its(r).wallet
<1>1. /\ request[r].step = "touch" /\ UNCHANGED <<chain, row, cached>>
      /\ UNCHANGED <<shown, rescanned, dropped>>
  BY DEF SyncFails, Touches, Holds, history
<1>2. /\ Its(r) \in Instance /\ WalletInv /\ request[r].inst \in Instances
      /\ ~Its(r).behind => InstFine(Journey, Its(r))
  BY <1>1, TouchIs, ItsFine DEF Ongoing, Inv
<1>3. PICK to \in 0..height :
        LET new == Walk(known, to) \ known
        IN  Apply(r, Idle, [store EXCEPT ![request[r].inst] =
              [Its(r) EXCEPT !.wallet = @ \cup new, !.staged = @ \cup new]])
  BY DEF SyncFails, Ongoing
<1> DEFINE new == Walk(known, to) \ known
           s == [Its(r) EXCEPT !.wallet = @ \cup new, !.staged = @ \cup new]
<1>4. /\ new \subseteq Facts /\ known \cap new = {}
      /\ Fine(Journey, known) => Fine(Journey, known \cup new)
  <2>1. known \cup new = known \cup Walk(known, to)
    OBVIOUS
  <2> QED
    BY <1>2, <2>1, WalkType, WalkIsFine, JourneyTyped DEF WalletInv
<1>5. \A c \in CoinsOf(new) : minedAt[c] > 0 /\ ~Below(minedAt[c], known)
  BY <1>2, WalkIsFine, CoinsAre, JourneyTyped
<1>6. Apply(r, Idle, [store EXCEPT ![request[r].inst] = s])
  BY <1>3
<1> HIDE DEF new
<1>7. /\ s \in Instance /\ s.wallet = known \cup new /\ s.staged = Its(r).staged \cup new
      /\ s.aggregate = Its(r).aggregate /\ s.behind = Its(r).behind /\ s.lost = Its(r).lost
  BY <1>2, <1>4 DEF Instance
<1> HIDE DEF s
<1>8. Settled(s) = Settled(Its(r)) /\ Settled(s) \subseteq known
  BY <1>4, <1>7 DEF Settled
<1>9. ASSUME ~Its(r).behind
      PROVE  /\ s.staged \subseteq s.wallet /\ Fine(Journey, s.wallet) /\ StageAhead(Journey, s)
             /\ \A c \in CoinsOf(s.lost) : Coin(c) \in Its(r).lost
  <2>1. s.staged \subseteq s.wallet /\ Fine(Journey, s.wallet)
    BY <1>2, <1>4, <1>7, <1>9 DEF InstFine
  <2>2. ASSUME NEW c \in CoinsOf(s.staged)
        PROVE  Journey.mined[c] > 0 /\ ~Below(Journey.mined[c], Settled(s))
    <3>1. CASE c \in CoinsOf(new)
      BY <1>2, <1>5, <1>8, <3>1, BelowGrows, JourneyTyped
    <3>2. CASE c \in CoinsOf(Its(r).staged)
      BY <1>2, <1>8, <1>9, <3>2 DEF InstFine, StageAhead
    <3> QED
      BY <1>7, <2>2, <3>1, <3>2, CoinsAre
  <2> QED
    BY <1>7, <2>1, <2>2, CoinsAre DEF StageAhead
<1>10. Idle \in Request /\ Idle.inst = NoInstance /\ Idle.step = "idle"
  BY EmptyTypes DEF Idle
<1> QED
  BY <1>1, <1>6, <1>7, <1>8, <1>9, <1>10, TouchFine DEF Showing

LEMMA BuildFailsFine ==
  ASSUME Ongoing, NEW r \in Requests, BuildFails(r)
  PROVE  CoinGood'
<1>1. /\ request[r].step = "touch" /\ UNCHANGED <<chain, row, cached>>
      /\ UNCHANGED <<shown, rescanned, dropped>>
  BY DEF BuildFails, Touches, Holds, history
<1>2. /\ Its(r) \in Instance /\ request[r].inst \in Instances
      /\ ~Its(r).behind => InstFine(Journey, Its(r))
  BY <1>1, TouchIs, ItsFine DEF Ongoing
<1>3. PICK k \in 1..MaxChange :
        Apply(r, Idle, [store EXCEPT ![request[r].inst] =
          [Marked(r, k) EXCEPT !.staged = Its(r).staged \cup ({Change(k)} \ Its(r).wallet)]])
  BY DEF BuildFails
<1> DEFINE new == {Change(k)}
           m == Marked(r, k)
           s == [m EXCEPT !.staged = Its(r).staged \cup (new \ Its(r).wallet)]
<1>4. /\ m \in Instance /\ m.wallet = Its(r).wallet \cup new
      /\ m.aggregate = Its(r).aggregate /\ m.behind = Its(r).behind /\ m.lost = Its(r).lost
  BY <1>2, MarkedType, KeepsBehind
<1>5. /\ new \in SUBSET Addresses /\ new \subseteq Facts /\ CoinsOf(new) = {}
      /\ Its(r).staged \subseteq Facts
  BY <1>2, AddressTypes, CoinsAre DEF Instance
<1>6. Apply(r, Idle, [store EXCEPT ![request[r].inst] = s])
  BY <1>3
<1> HIDE DEF m, new
<1>7. /\ s \in Instance /\ s.wallet = Its(r).wallet \cup new /\ s.aggregate = Its(r).aggregate
      /\ s.behind = Its(r).behind /\ s.lost = Its(r).lost
      /\ s.staged = Its(r).staged \cup (new \ Its(r).wallet)
  BY <1>4, <1>5 DEF Instance
<1> HIDE DEF s
<1>8. Settled(s) = Settled(Its(r))
  BY <1>7 DEF Settled
<1>9. CoinsOf(s.staged) \subseteq CoinsOf(Its(r).staged)
  BY <1>5, <1>7, CoinsAre
<1>10. Fine(Journey, Its(r).wallet) => Fine(Journey, Its(r).wallet \cup new)
  BY <1>5, AddressesAreFine
<1>11. ~Its(r).behind =>
         /\ s.staged \subseteq s.wallet /\ Fine(Journey, s.wallet) /\ StageAhead(Journey, s)
         /\ \A c \in CoinsOf(s.lost) : Coin(c) \in Its(r).lost
  BY <1>2, <1>7, <1>8, <1>9, <1>10, CoinsAre DEF InstFine, StageAhead
<1>12. Idle \in Request /\ Idle.inst = NoInstance /\ Idle.step = "idle"
  BY EmptyTypes DEF Idle
<1> QED
  BY <1>1, <1>6, <1>7, <1>8, <1>11, <1>12, TouchFine DEF Showing

\* What a preview throws away is dropped, unless the row has it.
LEMMA DiscardingFine ==
  ASSUME Ongoing, NEW r \in Requests, ComputeDrain(r) \/ BuildResweep(r)
  PROVE  CoinGood'
<1> DEFINE s == Discarded(r)
           evict == [request[r] EXCEPT !.step = "evict"]
<1>1. /\ request[r].step = "touch" /\ UNCHANGED <<chain, row, cached>>
      /\ UNCHANGED <<shown, rescanned>> /\ dropped' = dropped \cup CoinsOf(Its(r).staged \ row)
  BY DEF ComputeDrain, BuildResweep, Touches, Holds, Drop
<1>2. PICK next \in {Idle, evict} : Apply(r, next, [store EXCEPT ![request[r].inst] = s])
  BY DEF ComputeDrain, BuildResweep
<1>3. /\ request[r] \in Request /\ Its(r) \in Instance /\ request[r].inst \in Instances
      /\ ~Its(r).behind => InstFine(Journey, Its(r))
  BY <1>1, TouchIs, ItsFine DEF Ongoing
<1>4. /\ s \in Instance /\ s.wallet = Its(r).wallet /\ s.aggregate = Its(r).aggregate
      /\ s.staged = {} /\ s.behind = Its(r).behind /\ s.lost = Its(r).lost \cup Its(r).staged
  BY <1>3 DEF Discarded, Instance
<1>5. /\ evict \in Request /\ evict.step = "evict" /\ evict.inst = request[r].inst
  BY <1>3 DEF Request
<1> HIDE DEF s, evict
<1>6. /\ next \in Request /\ next.inst \in {request[r].inst, NoInstance}
      /\ next.step \in {"idle", "evict"}
  BY <1>5, EmptyTypes DEF Idle
<1>7. Settled(Its(r)) \subseteq Settled(s)
  BY <1>4 DEF Settled
<1>8. ~Its(r).behind =>
        /\ s.staged \subseteq s.wallet /\ Fine(Journey, s.wallet) /\ StageAhead(Journey, s)
        /\ \A c \in CoinsOf(s.lost) : Coin(c) \in Its(r).lost \/ c \in dropped' \/ Coin(c) \in row
  BY <1>1, <1>3, <1>4, CoinsAre DEF InstFine, StageAhead
<1> QED
  BY <1>1, <1>2, <1>4, <1>6, <1>7, <1>8, TouchFine DEF Showing

-----------------------------------------------------------------------------
(* The aggregate and the row *)

\* A part of a wallet without its stage misses a coin only for a cause, or
\* because the wallet has it and it is lost or on its way.
LEMMA PartIsFine ==
  ASSUME NEW w, NEW s, InstFine(w, s), NEW json, json \subseteq Settled(s),
         s.aggregate \subseteq json,
         \A c \in Coins : Coin(c) \in s.wallet => Kept(s, Coin(c)) \/ c \in w.excused
  PROVE  Fine(w, json)
<1>1. json \subseteq s.wallet
  BY DEF Settled
<1>2. Reaches(w, json)
  BY <1>1, BelowGrows DEF InstFine, Fine, Reaches
<1>3. ASSUME NEW c \in Missed(w, json)
      PROVE  Unaware(w, c, json) \/ c \in w.excused
  <2>1. c \in Coins /\ w.mined[c] > 0 /\ Below(w.mined[c], json) /\ Coin(c) \notin json
    BY MissedIs
  <2>2. Below(w.mined[c], Settled(s)) /\ Below(w.mined[c], s.wallet)
    BY <1>1, <2>1, BelowGrows
  <2>3. CASE Coin(c) \in s.wallet
    <3>1. CASE Coin(c) \in s.aggregate
      BY <2>1, <3>1
    <3>2. CASE Coin(c) \in s.staged
      BY <2>1, <2>2, <3>2, CoinsAre DEF InstFine, StageAhead
    <3>3. CASE Coin(c) \in s.lost
      BY <2>1, <3>3, CoinsAre DEF InstFine, LostExcused
    <3> QED
      BY <2>1, <2>3, <3>1, <3>2, <3>3 DEF Kept
  <2>4. CASE Coin(c) \notin s.wallet
    <3>1. c \in Missed(w, s.wallet)
      BY <2>1, <2>2, <2>4, MissedIs
    <3>2. Before(w, c, s.wallet) => Before(w, c, json)
      BY <1>1 DEF Before
    <3> QED
      BY <3>1, <3>2 DEF InstFine, Fine, Unaware
  <2> QED
    BY <2>3, <2>4
<1> QED
  BY <1>2, <1>3 DEF Fine

LEMMA MergeFine ==
  ASSUME Ongoing, NEW r \in Requests, Merge(r)
  PROVE  CoinGood'
<1> DEFINE w == Journey
           x == Journey'
           q == request[r]
           json == Its(r).aggregate \cup q.facts
           next == [q EXCEPT !.step = "write", !.facts = json]
           s == [Its(r) EXCEPT !.aggregate = json]
<1>1. /\ q.step = "merge" /\ UNCHANGED <<chain, row, cached>>
      /\ UNCHANGED <<shown, rescanned, dropped>>
  BY DEF Merge, Holds, history
<1>2. /\ q \in Request /\ q.inst \in Instances /\ Its(r) \in Instance /\ Inv
      /\ ~Its(r).behind => /\ InstFine(w, Its(r)) /\ row \subseteq Its(r).aggregate
                           /\ q.facts \subseteq Settled(Its(r))
  BY <1>1, CarrierIs, ItsFine DEF Ongoing, SlotFine
<1>3. json \subseteq Facts
  BY <1>2 DEF Request, Instance
<1>4. Apply(r, next, [store EXCEPT ![q.inst] = s])
  BY DEF Merge, Its
<1>5. Its(r).aggregate \subseteq json /\ q.facts \subseteq json
  OBVIOUS
<1>6. ~Its(r).behind => json \subseteq Settled(Its(r))
  BY <1>2 DEF InstFine
<1> HIDE DEF json
<1>7. /\ next \in Request /\ next.step = "write" /\ next.inst = q.inst /\ next.facts = json
      /\ next.late = q.late
  BY <1>2, <1>3 DEF Request
<1>8. /\ s \in Instance /\ s.wallet = Its(r).wallet /\ s.aggregate = json
      /\ s.staged = Its(r).staged /\ s.behind = Its(r).behind /\ s.lost = Its(r).lost
  BY <1>2, <1>3 DEF Instance
<1> HIDE DEF next, s
<1>9. Onward(w, x, row')
  <2>1. \A p \in Requests : p # r => request'[p] = request[p]
    BY Typed DEF Apply, Merge
  <2>2. request'[r] = next
    BY <1>4, Typed DEF Apply
  <2>3. \A p \in Requests : \A c \in Coins : Coin(c) \in Carried(p) => Coin(c) \in Carried(p)'
    BY <1>1, <1>5, <1>7, <2>1, <2>2 DEF Carried
  <2>4. WalletInv /\ WalletInv' /\ UNCHANGED <<minedAt, height>>
    BY <1>1 DEF Ongoing, Inv, chain
  <2> QED
    BY <1>1, <2>3, <2>4, OnwardFrom
<1>10. JourneyType(w) /\ JourneyType(x) /\ OnTheirWay \subseteq w.excused
  BY Typed, JourneyTyped DEF Ongoing, Inv
<1>11. \A c \in Coins : Coin(c) \in Its(r).wallet => Kept(Its(r), Coin(c)) \/ c \in w.excused
  <2> SUFFICES ASSUME NEW c \in Coins, Coin(c) \in Its(r).wallet
               PROVE  Kept(Its(r), Coin(c)) \/ c \in OnTheirWay
    BY <1>10
  <2>1. Kept(Its(r), Coin(c)) \/ \E p \in Requests : InTransit(request[p], q.inst, Coin(c))
    BY <1>1, <1>2, Holder DEF Inv
  <2> QED
    BY <2>1 DEF InTransit, OnTheirWay, Carried
<1> HIDE DEF w, x
<1>12. ASSUME ~s.behind
       PROVE  InstFine(x, s) /\ Fine(x, json)
  <2>1. InstFine(w, Its(r)) /\ row' \subseteq json /\ json \subseteq Settled(Its(r))
    BY <1>1, <1>2, <1>5, <1>6, <1>8, <1>12
  <2>2. Fine(w, json)
    BY <1>5, <1>11, <2>1, PartIsFine
  <2>3. Settled(s) = Settled(Its(r))
    BY <1>8 DEF Settled
  <2>4. InstFine(w, s)
    BY <1>5, <1>8, <2>1, <2>2, <2>3 DEF InstFine, StageAhead, LostExcused
  <2> QED
    BY <1>8, <1>9, <1>10, <2>1, <2>4, InstFineStays DEF InstFine
<1>13. Extends(Its(r), s)
  BY <1>5, <1>8 DEF Extends, Settled
<1>14. SlotFine(x, next, s)
  BY <1>7, <1>8, <1>12 DEF SlotFine
<1>15. Views(Journey', request', store', cached')
  BY <1>1, <1>2, <1>4, <1>7, <1>8, <1>9, <1>12, <1>13, <1>14, ApplyFine DEF w, x
<1> QED
  BY <1>1, <1>9, <1>15, QuietlyGood DEF chain, w, x, Showing

\* Over RPC nothing is rebuilt and no block is replaced.
LEMMA NoRebuilds ==
  ASSUME Ongoing
  PROVE  /\ ~Reorg /\ \A r \in Requests : ~SyncRebuilt(r) /\ ~Replace(r)
         /\ \A r \in Requests : request[r].step \notin {"replace", "rewrite"}
<1>1. \A r \in Requests : request[r].step \notin {"replace", "rewrite"}
  BY Typed, SlotIs DEF Ongoing, SlotSound, Shape
<1> QED
  BY <1>1 DEF Ongoing, Reorg, SyncRebuilt, Replace, Holds

\* Who writes the row carries what it writes to its end.
LEMMA WritesOnward ==
  ASSUME Ongoing, NEW r \in Requests, NEW inst, NEW next,
         WriteRow(r, inst, request[r].facts, next), UNCHANGED <<minedAt, height, dropped>>,
         shown = "parked" => shown' = "parked", rescanned => rescanned'
  PROVE  Onward(Journey, Journey', row')
<1>1. row' = request[r].facts
  BY DEF WriteRow
<1>2. ASSUME NEW p \in Requests, p # r
      PROVE  Carried(p)' = Carried(p)
  <2>1. request'[p] = MarkedLate(r)[p]
    BY <1>2 DEF WriteRow, MarkedLate
  <2>2. request'[p].step = request[p].step /\ request'[p].facts = request[p].facts
    BY <2>1, Typed DEF MarkedLate, Request
  <2> QED
    BY <2>2 DEF Carried
<1>3. Carried(r) \subseteq row'
  BY <1>1 DEF Carried
<1>4. \A p \in Requests : \A c \in Coins : Coin(c) \in Carried(p) =>
        (\E z \in Requests : Coin(c) \in Carried(z)') \/ c \in dropped' \/ Coin(c) \in row'
  BY <1>2, <1>3
<1>5. WalletInv /\ WalletInv'
  BY DEF Ongoing, Inv
<1> QED
  BY <1>4, <1>5, OnwardFrom

\* A write that is not out of date, over a row that it knew or a rescan's.
LEMMA WritingGood ==
  ASSUME Ongoing, NEW r \in Requests,
         NEW inst \in Instances \cup {NoInstance}, inst \in {request[r].inst, NoInstance},
         NEW next \in Request, next.inst \in {request[r].inst, NoInstance},
         next.step \notin {"merge", "write", "overwrite"},
         WriteRow(r, inst, request[r].facts, next),
         UNCHANGED <<minedAt, height, dropped, cached>>, Showing, rescanned => rescanned',
         rescanned' \/ row \subseteq request[r].facts,
         Onward(Journey, Journey', row'),
         Fine(Journey', request[r].facts),
         next.step \in {"seed", "insert"} => next.facts = request[r].facts
  PROVE  CoinGood'
<1>1. row' = request[r].facts
  BY DEF WriteRow
<1>2. SlotFine(Journey', next, Unused)
  BY DEF SlotFine
<1>3. Views(Journey', request', store', cached')
  BY <1>2, WriteRowFine
<1>4. ShownInTime'
  BY <1>1, RowGrows, ShownStays DEF Ongoing, CoinGood
<1> QED
  BY <1>1, <1>3, <1>4 DEF CoinGood

LEMMA WriteFine ==
  ASSUME Ongoing, NEW r \in Requests, Write(r)
  PROVE  CoinGood'
<1> DEFINE q == request[r]
           storing == [q EXCEPT !.step = "store", !.facts = {}, !.late = FALSE]
           w == Journey
           x == Journey'
<1>1. /\ q.step = "write" /\ WriteRow(r, q.inst, q.facts, AfterWrite(r)) /\ Showing
      /\ UNCHANGED <<minedAt, height, dropped, cached, rescanned>>
  BY NoRebuilds DEF Write, chain, ShownBy, Showing
<1>2. /\ q \in Request /\ q.inst \in Instances /\ SlotFine(w, q, Its(r))
      /\ q.late \in BOOLEAN /\ Its(r).behind \in BOOLEAN /\ NoInstance \notin Instances
  BY <1>1, CarrierIs, ItsFine DEF Ongoing, Request, Instance
<1>3. ~Outdated(r) /\ ~q.late /\ ~Its(r).behind
  BY <1>1, <1>2 DEF WriteRow, Ongoing, Outdated
<1>4. Fine(w, q.facts)
  BY <1>1, <1>2, <1>3 DEF SlotFine
<1>5. row \subseteq q.facts
  BY <1>1, <1>3, WriteKeeps, Typed DEF Ongoing
<1>6. storing \in Request /\ storing.inst = q.inst /\ storing.step = "store"
  BY <1>2 DEF Request
<1>7. AfterWrite(r) \in {Idle, storing}
  BY DEF AfterWrite, storing
<1> HIDE DEF storing
<1>8. /\ AfterWrite(r) \in Request /\ AfterWrite(r).inst \in {q.inst, NoInstance}
      /\ AfterWrite(r).step \in {"idle", "store"}
  BY <1>6, <1>7, EmptyTypes
<1>9. Onward(w, x, row')
  BY <1>1, WritesOnward DEF Showing
<1>10. row' = q.facts /\ JourneyType(w) /\ JourneyType(x)
  BY <1>1, Typed DEF WriteRow
<1> HIDE DEF w, x
<1>11. Fine(x, q.facts)
  BY <1>4, <1>9, <1>10, FineStays
<1> QED
  BY <1>1, <1>2, <1>5, <1>8, <1>9, <1>11, WritingGood DEF w, x

LEMMA WriteInitialFine ==
  ASSUME Ongoing, NEW r \in Requests, WriteInitial(r)
  PROVE  CoinGood'
<1> DEFINE q == request[r]
           next == [q EXCEPT !.step = "insert", !.late = FALSE]
           w == Journey
           x == Journey'
<1>1. /\ q.step = "seed" /\ WriteRow(r, NoInstance, q.facts, next)
      /\ UNCHANGED <<minedAt, height, dropped, cached, rescanned, shown>>
  BY DEF WriteInitial, Holds, chain
<1>2. /\ q \in Request /\ SlotFine(w, q, Its(r)) /\ Loading(World, q) /\ q.late \in BOOLEAN
  BY ItsFine DEF Request, SlotSound
<1>3. ~q.late
  BY <1>1 DEF WriteRow, Ongoing, Outdated
<1>4. Fine(w, q.facts) /\ row \subseteq q.facts
  BY <1>1, <1>2, <1>3 DEF SlotFine, Loading, World
<1>5. /\ next \in Request /\ next.inst = q.inst /\ next.step = "insert" /\ next.facts = q.facts
  BY <1>2 DEF Request
<1> HIDE DEF next
<1>6. Onward(w, x, row')
  BY <1>1, WritesOnward
<1>7. row' = q.facts /\ JourneyType(w) /\ JourneyType(x)
  BY <1>1, Typed DEF WriteRow
<1> HIDE DEF w, x
<1>8. Fine(x, q.facts)
  BY <1>4, <1>6, <1>7, FineStays
<1> QED
  BY <1>1, <1>4, <1>5, <1>6, <1>8, WritingGood DEF w, x, Showing

\* A rescan misses no coin above the height it was given.
LEMMA RescanWriteFine ==
  ASSUME Ongoing, NEW r \in Requests, RescanWrite(r)
  PROVE  CoinGood'
<1> DEFINE q == request[r]
           w == Journey
           x == Journey'
<1>1. /\ q.step = "overwrite" /\ WriteRow(r, NoInstance, q.facts, Idle)
      /\ UNCHANGED <<minedAt, height, dropped, cached, shown>> /\ rescanned' = TRUE
  BY DEF RescanWrite, Holds, chain
<1>2. Reaches(w, q.facts) /\ \A c \in Missed(w, q.facts) : Before(w, c, q.facts)
  BY <1>1, ItsFine DEF SlotFine
<1>3. Onward(w, x, row')
  BY <1>1, WritesOnward
<1>4. w.mined = x.mined /\ w.height = x.height /\ x.open
  BY <1>1, JourneyTyped, JourneyTypedNext DEF Ongoing, Inv
<1> HIDE DEF w, x
<1>5. Fine(x, q.facts)
  BY <1>2, <1>4 DEF Fine, Unaware, Before, Reaches, Missed
<1>6. Idle.step = "idle" /\ Idle.inst = NoInstance /\ Idle \in Request
  BY EmptyTypes
<1> QED
  BY <1>1, <1>3, <1>5, <1>6, WritingGood DEF w, x, Showing

\* Who leaves before its write is recorded as dropping what it carried.
LEMMA LeavingOnward ==
  ASSUME Ongoing, NEW r \in Requests, request' = [request EXCEPT ![r] = Idle],
         UNCHANGED <<minedAt, height, row, shown, rescanned>>,
         dropped' = dropped \cup CoinsOf(Carried(r) \ row)
  PROVE  Onward(Journey, Journey', row')
<1>1. \A p \in Requests : p # r => Carried(p)' = Carried(p)
  BY DEF Carried
<1>2. \A c \in Coins : Coin(c) \in Carried(r) => c \in dropped' \/ Coin(c) \in row'
  BY CoinsAre
<1>3. \A p \in Requests : \A c \in Coins : Coin(c) \in Carried(p) =>
        (\E z \in Requests : Coin(c) \in Carried(z)') \/ c \in dropped' \/ Coin(c) \in row'
  BY <1>1, <1>2
<1>4. WalletInv /\ WalletInv'
  BY DEF Ongoing, Inv
<1> QED
  BY <1>3, <1>4, OnwardFrom

LEMMA IdleFine == \A w, s : SlotFine(w, Idle, s)
  BY EmptyTypes DEF SlotFine

LEMMA LeavingFine ==
  ASSUME Ongoing, NEW r \in Requests,
         \/ WriteFails(r) \/ InsertProposal(r) \/ EvictCache(r)
         \/ Stop(r) /\ request[r].step # "merge"
  PROVE  CoinGood'
<1>1. /\ request' = [request EXCEPT ![r] = Idle] /\ cached' \in {cached, NoInstance}
      /\ store' = Freed(store, request', cached')
      /\ UNCHANGED <<minedAt, height, row, shown, rescanned>>
  BY NoRebuilds DEF WriteFails, InsertProposal, EvictCache, Stop, Apply, history, chain
<1>2. dropped' = dropped \cup CoinsOf(Carried(r) \ row)
  <2>1. CASE WriteFails(r) \/ Stop(r)
    BY <2>1 DEF WriteFails, Stop, Drop
  <2>2. CASE InsertProposal(r) \/ EvictCache(r)
    <3>1. Carried(r) = {} /\ dropped' = dropped
      BY <2>2 DEF InsertProposal, EvictCache, Holds, Carried, history
    <3> QED
      BY <3>1 DEF CoinsOf
  <2> QED
    BY <2>1, <2>2
<1>3. Onward(Journey, Journey', row')
  BY <1>1, <1>2, LeavingOnward
<1>4. Views(Journey', request', store', cached')
  BY <1>1, <1>3, EmptyTypes, IdleFine, ApplySlotFine
<1> QED
  BY <1>1, <1>3, <1>4, QuietlyGood DEF Showing

\* A client that hangs up between the two locks leaves what it took behind.
LEMMA StopFine ==
  ASSUME Ongoing, NEW r \in Requests, Stop(r)
  PROVE  CoinGood'
<1>1. CASE request[r].step # "merge"
  BY <1>1, LeavingFine
<1>2. CASE request[r].step = "merge"
  <2> DEFINE q == request[r]
             s == [Its(r) EXCEPT !.lost = @ \cup q.facts]
             w == Journey
             x == Journey'
  <2>1. /\ q \in Request /\ q.inst \in Instances /\ Its(r) \in Instance
        /\ ~Its(r).behind => InstFine(w, Its(r)) /\ row \subseteq Its(r).aggregate
    BY <1>2, CarrierIs, ItsFine DEF Ongoing
  <2>2. /\ s \in Instance /\ s.wallet = Its(r).wallet /\ s.aggregate = Its(r).aggregate
        /\ s.staged = Its(r).staged /\ s.behind = Its(r).behind
        /\ s.lost = Its(r).lost \cup q.facts
    BY <2>1 DEF Request, Instance
  <2>3. Apply(r, Idle, [store EXCEPT ![q.inst] = s])
    BY <1>2 DEF Stop, Its
  <2>4. /\ UNCHANGED <<minedAt, height, row, cached, shown, rescanned>>
        /\ dropped' = dropped \cup CoinsOf(q.facts \ row) /\ Carried(r) = q.facts
    BY <1>2 DEF Stop, chain, Drop, Carried
  <2> HIDE DEF s
  <2>5. Onward(w, x, row')
    BY <2>3, <2>4, LeavingOnward DEF Apply
  <2>6. JourneyType(w) /\ JourneyType(x) /\ dropped' \subseteq x.excused
    BY Typed, JourneyTypedNext DEF Ongoing, Inv
  <2> HIDE DEF w, x
  <2>7. ASSUME ~s.behind
        PROVE  InstFine(x, s)
    <3>1. InstFine(x, Its(r)) /\ row \subseteq Its(r).aggregate
      BY <2>1, <2>2, <2>4, <2>5, <2>6, <2>7, InstFineStays
    <3>2. \A c \in CoinsOf(q.facts) : Coin(c) \in s.aggregate \/ c \in x.excused
      BY <2>2, <2>4, <2>6, <3>1, CoinsAre
    <3>3. LostExcused(x, s)
      BY <2>2, <3>1, <3>2, CoinsAre DEF InstFine, LostExcused
    <3> QED
      BY <2>2, <3>1, <3>3 DEF InstFine, Settled, StageAhead
  <2>8. Extends(Its(r), s)
    BY <2>2 DEF Extends, Settled
  <2>9. Views(Journey', request', store', cached')
    BY <2>1, <2>2, <2>3, <2>4, <2>5, <2>7, <2>8, EmptyTypes, IdleFine, ApplyFine DEF w, x
  <2> QED
    BY <2>4, <2>5, <2>9, QuietlyGood DEF w, x, Showing
<1> QED
  BY <1>1, <1>2

-----------------------------------------------------------------------------
(* Loading *)

\* A slot that carries nothing takes up an operation, or the cached instance.
LEMMA JoiningFine ==
  ASSUME Ongoing, NEW r \in Requests, request[r].step \in {"idle", "insert"},
         NEW next, next.inst \in {cached, NoInstance}, request'[r] = next,
         \A q \in Requests \ {r} : SameSlot(request[q], request'[q]),
         UNCHANGED <<minedAt, height, row, cached, store, shown, history>>,
         Onward(Journey, Journey', row') => SlotFine(Journey', next, store[next.inst])
  PROVE  CoinGood'
<1>1. Onward(Journey, Journey', row')
  <2>1. \A q \in Requests \ {r} : Carried(q)' = Carried(q)
    BY DEF SameSlot, Carried
  <2>2. Carried(r) = {}
    BY DEF Carried
  <2>3. \A p \in Requests : \A c \in Coins : Coin(c) \in Carried(p) =>
          (\E z \in Requests : Coin(c) \in Carried(z)') \/ c \in dropped' \/ Coin(c) \in row'
    BY <2>1, <2>2
  <2>4. WalletInv /\ WalletInv' /\ dropped' = dropped /\ rescanned' = rescanned
    BY DEF Ongoing, Inv, history
  <2> QED
    BY <2>3, <2>4, OnwardFrom
<1>2. \A i \in Instances : InUse(request', cached', i) => InUse(request, cached, i)
  BY Typed DEF InUse, SameSlot
<1>3. ASSUME NEW q \in Requests
      PROVE  \/ SlotFine(Journey', request'[q], store'[request'[q].inst])
             \/ /\ SameSlot(request[q], request'[q])
                /\ request[q].inst \in Instances =>
                     Extends(store[request[q].inst], store'[request[q].inst])
  <2>1. CASE q = r
    BY <1>1, <2>1
  <2>2. CASE q # r
    BY <2>2, Itself
  <2> QED
    BY <2>1, <2>2
<1>4. Views(Journey', request', store', cached')
  BY <1>1, <1>2, <1>3, Itself, ViewsStay
<1> QED
  BY <1>1, <1>4, QuietlyGood DEF Showing, history

LEMMA NotAloneIsSame == Ongoing => \A q \in Requests : SameSlot(request[q], NotAlone[q])
  BY Typed DEF NotAlone, SameSlot, Request

LEMMA ArriveFine ==
  ASSUME Ongoing, NEW r \in Requests, NEW op \in Ops \ {"rescan"}, Arrive(r, op)
  PROVE  CoinGood'
<1> DEFINE quiet == \A q \in Requests : Holds(q, "idle")
           next == [Idle EXCEPT !.op = op, !.inst = cached, !.alone = quiet /\ op = "sync",
                                !.step = IF cached = NoInstance THEN "read" ELSE "touch"]
<1>1. request' = [NotAlone EXCEPT ![r] = next] /\ request[r].step = "idle"
  BY DEF Arrive, Holds
<1>2. UNCHANGED <<minedAt, height, row, cached, store, shown, history>>
  BY DEF Arrive, chain
<1>3. next.inst = cached /\ next.step \in {"read", "touch"}
  BY DEF Idle
<1> HIDE DEF next
<1>4. request'[r] = next /\ \A q \in Requests \ {r} : SameSlot(request[q], request'[q])
  BY <1>1, NotAloneIsSame DEF NotAlone
<1>5. SlotFine(Journey', next, store[next.inst])
  BY <1>3 DEF SlotFine
<1> QED
  BY <1>1, <1>2, <1>3, <1>4, <1>5, JoiningFine

\* A walk from a block misses only coins before that block.
LEMMA RescanWalkFine ==
  ASSUME Ongoing, NEW r \in Requests, RescanWalk(r)
  PROVE  CoinGood'
<1>1. PICK from \in 0..height :
        LET start == {Descriptor, External} \cup {Change(k) : k \in 1..MaxChange}
                       \cup {BlockAt(h) : h \in {from} \ {0}}
        IN  request' = [NotAlone EXCEPT ![r] =
              [Idle EXCEPT !.op = "rescan", !.step = "overwrite",
                           !.facts = start \cup Walk(start, height)]]
  BY DEF RescanWalk
<1> DEFINE start == {Descriptor, External} \cup {Change(k) : k \in 1..MaxChange}
                      \cup {BlockAt(h) : h \in {from} \ {0}}
           found == start \cup Walk(start, height)
           next == [Idle EXCEPT !.op = "rescan", !.step = "overwrite", !.facts = found]
           w == [mined |-> minedAt, height |-> height, excused |-> {}, open |-> TRUE]
<1>2. WalletInv /\ height \in 0..height /\ JourneyType(w)
  BY HeightsAre DEF Ongoing, Inv, WalletInv, Outer, JourneyType
<1>3. \A b, v : Block(b, v) \in start => b = from
  BY FactKinds DEF BlockAt
<1>4. Fine(w, start)
  <2>1. \A b : Below(b, start) => b <= from
    BY <1>3, BlocksAre
  <2>2. Reaches(w, start)
    BY <1>2, <2>1, HeightsAre DEF Reaches, WalletInv, Outer
  <2>3. ASSUME NEW c \in Missed(w, start)
        PROVE  Before(w, c, start)
    BY <1>3, <2>1, <2>3, MissedIs DEF Before
  <2> QED
    BY <2>2, <2>3 DEF Fine, Unaware
<1>5. request' = [NotAlone EXCEPT ![r] = next] /\ request[r].step = "idle"
  BY <1>1 DEF RescanWalk, Holds
<1>6. UNCHANGED <<minedAt, height, row, cached, store, shown, history>>
  BY DEF RescanWalk, chain
<1> HIDE DEF start
<1>7. Fine(w, found)
  BY <1>2, <1>4, WalkIsFine
<1> HIDE DEF found
<1>8. next.inst = NoInstance /\ next.step = "overwrite" /\ next.facts = found
  BY DEF Idle
<1> HIDE DEF next
<1>9. request'[r] = next /\ \A q \in Requests \ {r} : SameSlot(request[q], request'[q])
  BY <1>5, NotAloneIsSame DEF NotAlone
<1>10. SlotFine(Journey', next, store[next.inst])
  <2>1. Journey'.mined = minedAt /\ Journey'.height = height
    BY <1>6, JourneyTypedNext DEF Ongoing, Inv
  <2>2. Reaches(w, found) /\ \A c \in Missed(w, found) : Before(w, c, found)
    BY <1>7 DEF Fine, Unaware
  <2>3. Reaches(Journey', found) /\ \A c \in Missed(Journey', found) : Before(Journey', c, found)
    BY <2>1, <2>2 DEF Reaches, Missed, Before
  <2> QED
    BY <1>8, <2>3 DEF SlotFine
<1> QED
  BY <1>5, <1>6, <1>8, <1>9, <1>10, JoiningFine

\* A birthday goes to a row without a block, and then hides only what was paid
\* before anyone opened the wallet.
LEMMA BirthdayIsFine ==
  ASSUME Ongoing
  PROVE  Fine(Journey, (row \cup {Descriptor}) \cup Birthday(row \cup {Descriptor}))
<1> DEFINE w == Journey
           found == row \cup {Descriptor}
           all == found \cup Birthday(found)
<1>1. /\ w.mined = minedAt /\ w.height = height /\ w.open = (shown = "parked" \/ rescanned)
      /\ Fine(w, row) /\ ShownInTime /\ height \in Nat
      /\ shown \in {"never", "parked", "tracked"}
      /\ \A c \in Coins : minedAt[c] \in Nat /\ minedAt[c] <= height
  BY JourneyTyped, MinedBelow, HeightsAre DEF Ongoing, Inv, CoinGood, WalletInv, Outer
<1>2. /\ \A b, v : Block(b, v) \in found <=> Block(b, v) \in row
      /\ \A c : Coin(c) \in found <=> Coin(c) \in row
  BY FactKinds
<1>3. Parked(found) => \A b \in Heights, v \in {1, 2} : Block(b, v) \notin row
  BY <1>2 DEF Parked, Blocks
<1> HIDE DEF w, found
<1>4. CASE ~Parked(found) \/ height = 0
  <2>1. all = found
    BY <1>1, <1>4 DEF Birthday
  <2>2. /\ \A h : Below(h, found) <=> Below(h, row)
        /\ \A c : Before(w, c, row) <=> Before(w, c, found)
    BY <1>2, BlocksAre DEF Before
  <2>3. Fine(w, found)
    BY <1>1, <1>2, <2>2, MissedIs DEF Fine, Reaches, Unaware
  <2> QED
    BY <2>1, <2>3 DEF w, found
<1>5. CASE Parked(found) /\ height > 0
  <2>1. \A b \in Heights, v \in {1, 2} : Block(b, v) \in all => b = height
    <3> SUFFICES ASSUME NEW b \in Heights, NEW v \in {1, 2}, Block(b, v) \in all
                 PROVE  b = height
      OBVIOUS
    <3>1. Block(b, v) \in Birthday(found)
      BY <1>2, <1>3, <1>5
    <3>2. Block(b, v) = Block(height, version[height])
      BY <3>1 DEF Birthday, BlockAt
    <3> QED
      BY <3>2, FactKinds
  <2>2. \A h \in Heights : Below(h, all) => h <= height
    BY <2>1, BlocksAre
  <2>3. ASSUME NEW c \in Missed(w, all)
        PROVE  Unaware(w, c, all)
    <3>1. c \in Coins /\ minedAt[c] > 0 /\ minedAt[c] <= height
      BY <1>1, <2>3, MissedIs
    <3>2. Before(w, c, all)
      BY <1>1, <2>1, <3>1 DEF Before
    <3>3. Parked(row)
      BY <1>3, <1>5 DEF Parked, Blocks
    <3>4. c \in Sweeps \/ w.open
      BY <1>1, <3>1, <3>3 DEF ShownInTime, Coins
    <3> QED
      BY <3>2, <3>4 DEF Unaware
  <2> QED
    BY <1>1, <2>2, <2>3 DEF Fine, Reaches, w, found
<1> QED
  BY <1>1, <1>4, <1>5

LEMMA ReadRowFine ==
  ASSUME Ongoing, NEW r \in Requests, ReadRow(r)
  PROVE  CoinGood'
<1> DEFINE found == row \cup {Descriptor}
           loaded == found \cup Birthday(found)
           next == [request[r] EXCEPT !.facts = loaded,
                                      !.step = IF loaded = row THEN "insert" ELSE "seed"]
           w == Journey
           x == Journey'
<1>1. /\ request' = [request EXCEPT ![r] = next] /\ request[r].step = "read"
      /\ UNCHANGED <<minedAt, height, row, cached, store, shown, history>>
  BY DEF ReadRow, Holds, chain
<1>2. loaded \subseteq Facts
  BY BirthdayType, FactTypes DEF Ongoing, Inv, WalletInv, Outer
<1>3. Fine(w, loaded) /\ row \subseteq loaded
  BY BirthdayIsFine
<1> HIDE DEF loaded
<1>4. /\ next \in Request /\ next.inst = request[r].inst /\ next.facts = loaded
      /\ next.step \in {"seed", "insert"}
  BY <1>2, Typed DEF Request
<1> HIDE DEF next
<1>5. Onward(w, x, row')
  <2>1. Carried(r) = {} /\ \A q \in Requests \ {r} : Carried(q)' = Carried(q)
    BY <1>1 DEF Carried
  <2>2. \A p \in Requests : \A c \in Coins : Coin(c) \in Carried(p) =>
          (\E z \in Requests : Coin(c) \in Carried(z)') \/ c \in dropped' \/ Coin(c) \in row'
    BY <2>1
  <2>3. WalletInv /\ WalletInv' /\ dropped' = dropped /\ rescanned' = rescanned
    BY <1>1 DEF Ongoing, Inv, history
  <2> QED
    BY <1>1, <2>2, <2>3, OnwardFrom
<1>6. JourneyType(w) /\ JourneyType(x) /\ row' = row /\ rescanned' = rescanned
  BY <1>1, Typed DEF history
<1> HIDE DEF w, x
<1>7. Fine(x, loaded)
  BY <1>3, <1>5, <1>6, FineStays
<1>8. SlotFine(x, next, store[next.inst])
  BY <1>4, <1>7 DEF SlotFine
<1>9. Views(Journey', request', store', cached')
  BY <1>1, <1>4, <1>5, <1>8, ApplySlotFine DEF w, x
<1> QED
  BY <1>1, <1>5, <1>6, <1>9, QuietlyGood DEF w, x, Showing

\* An instance that was loaded from the row as it is.
LEMMA InsertCacheFine ==
  ASSUME Ongoing, NEW r \in Requests, InsertCache(r)
  PROVE  CoinGood'
<1> DEFINE q == request[r]
           next(i) == [q EXCEPT !.step = "touch", !.inst = i, !.facts = {}, !.late = FALSE]
           w == Journey
           x == Journey'
<1>1. /\ q.step = "insert" /\ q \in Request /\ SlotFine(w, q, Its(r)) /\ Inv
      /\ UNCHANGED <<minedAt, height, row, shown, history>>
  BY ItsFine DEF InsertCache, Holds, chain, Ongoing
<1>2. \A i : next(i).inst = i /\ next(i).step = "touch"
  BY <1>1 DEF Request
<1> HIDE DEF next
<1>3. CASE cached # NoInstance
  <2>1. request' = [request EXCEPT ![r] = next(cached)] /\ UNCHANGED <<store, cached>>
    BY <1>3 DEF InsertCache, next
  <2>2. /\ request'[r] = next(cached)
        /\ \A p \in Requests \ {r} : SameSlot(request[p], request'[p])
    BY <2>1, Typed, Itself
  <2>3. SlotFine(Journey', next(cached), store[next(cached).inst])
    BY <1>2 DEF SlotFine
  <2> QED
    BY <1>1, <1>2, <2>1, <2>2, <2>3, JoiningFine
<1>4. CASE cached = NoInstance
  <2> DEFINE fresh == [Unused EXCEPT !.wallet = q.facts, !.aggregate = q.facts, !.behind = q.late]
  <2>1. PICK i \in Instances : /\ ~Live(i) /\ cached' = i /\ store' = [store EXCEPT ![i] = fresh]
                               /\ request' = [request EXCEPT ![r] = next(i)]
    BY <1>4 DEF InsertCache, next
  <2>2. /\ fresh.wallet = q.facts /\ fresh.aggregate = q.facts /\ fresh.staged = {}
        /\ fresh.behind = q.late /\ fresh.lost = {}
    BY DEF Unused
  <2> HIDE DEF fresh
  <2>3. /\ request'[r] = next(i) /\ \A p \in Requests \ {r} : request'[p] = request[p]
        /\ store'[i] = fresh /\ \A j \in Instances \ {i} : store'[j] = store[j]
        /\ \A p \in Requests : request[p].inst # i
    BY <2>1, Typed DEF Live
  <2>4. Onward(w, x, row')
    <3>1. Carried(r) = {} /\ \A p \in Requests \ {r} : Carried(p)' = Carried(p)
      BY <1>1, <2>3 DEF Carried
    <3>2. \A p \in Requests : \A c \in Coins : Coin(c) \in Carried(p) =>
            (\E z \in Requests : Coin(c) \in Carried(z)') \/ c \in dropped' \/ Coin(c) \in row'
      BY <3>1
    <3>3. WalletInv /\ WalletInv' /\ dropped' = dropped /\ rescanned' = rescanned
      BY <1>1 DEF Ongoing, Inv, history
    <3> QED
      BY <1>1, <3>2, <3>3, OnwardFrom
  <2>5. JourneyType(w) /\ JourneyType(x) /\ rescanned' = rescanned
    BY <1>1, Typed DEF history
  <2> HIDE DEF w, x
  <2>6. ASSUME ~fresh.behind
        PROVE  InstFine(x, fresh)
    <3>1. row' \subseteq q.facts /\ Fine(w, q.facts)
      BY <1>1, <2>2, <2>6, SlotIs DEF SlotFine, SlotSound, Loading, World
    <3>2. Fine(x, q.facts)
      BY <2>4, <2>5, <3>1, FineStays
    <3> QED
      BY <2>2, <3>2, CoinsAre DEF InstFine, Settled, StageAhead, LostExcused
  <2>7. ASSUME NEW j \in Instances, InUse(request', cached', j), ~store'[j].behind
        PROVE  InstFine(x, store'[j]) \/ (SameInst(store[j], store'[j]) /\ InUse(request, cached, j))
    <3>1. CASE j = i
      BY <2>3, <2>6, <2>7, <3>1
    <3>2. CASE j # i
      <4>1. InUse(request, cached, j)
        BY <1>2, <2>1, <2>3, <2>7, <3>2 DEF InUse
      <4> QED
        BY <2>3, <3>2, <4>1, Itself
    <3> QED
      BY <3>1, <3>2
  <2>8. ASSUME NEW p \in Requests
        PROVE  \/ SlotFine(x, request'[p], store'[request'[p].inst])
               \/ /\ SameSlot(request[p], request'[p])
                  /\ request[p].inst \in Instances =>
                       Extends(store[request[p].inst], store'[request[p].inst])
    <3>1. CASE p = r
      <4>1. SlotFine(x, next(i), store'[request'[p].inst])
        BY <1>2 DEF SlotFine
      <4> QED
        BY <2>3, <3>1, <4>1
    <3>2. CASE p # r
      BY <2>3, <3>2, Itself
    <3> QED
      BY <3>1, <3>2
  <2>9. Views(Journey', request', store', cached')
    BY <2>4, <2>7, <2>8, ViewsStay DEF w, x
  <2> QED
    BY <1>1, <2>4, <2>5, <2>9, QuietlyGood DEF w, x, Showing
<1> QED
  BY <1>3, <1>4

-----------------------------------------------------------------------------
(* Restarts and blocks *)

LEMMA RestartFine ==
  ASSUME Ongoing, Restart
  PROVE  CoinGood'
<1>1. /\ request' = [r \in Requests |-> IF request[r].op = "rescan" THEN request[r] ELSE Idle]
      /\ cached' = NoInstance
      /\ dropped' = dropped \cup CoinsOf((UNION {Carried(r) : r \in Requests}) \ row)
      /\ UNCHANGED <<minedAt, height, row, shown, rescanned>>
  BY DEF Restart, Drop, chain
<1>2. ASSUME NEW r \in Requests, request[r].op = "rescan"
      PROVE  request[r].step = "overwrite" /\ request[r].inst = NoInstance
  BY <1>2, ItsFine DEF SlotSound, Shape, Loose
<1>3. Onward(Journey, Journey', row')
  <2>1. \A p \in Requests : \A c \in Coins : Coin(c) \in Carried(p) =>
          c \in dropped' \/ Coin(c) \in row'
    BY <1>1, CoinsAre
  <2>2. WalletInv /\ WalletInv'
    BY DEF Ongoing, Inv
  <2> QED
    BY <1>1, <2>1, <2>2, OnwardFrom
<1>4. \A r \in Requests : request'[r].inst = NoInstance
  BY <1>1, <1>2, EmptyTypes
<1>5. \A i \in Instances : ~InUse(request', cached', i)
  BY <1>1, <1>4, WalletStoreAssumption DEF InUse
<1>6. ASSUME NEW q \in Requests
      PROVE  \/ SlotFine(Journey', request'[q], store'[request'[q].inst])
             \/ /\ SameSlot(request[q], request'[q])
                /\ request[q].inst \in Instances =>
                     Extends(store[request[q].inst], store'[request[q].inst])
  <2>1. CASE request[q].op = "rescan"
    BY <1>1, <1>2, <2>1, Itself, WalletStoreAssumption
  <2>2. CASE request[q].op # "rescan"
    BY <1>1, <2>2, IdleFine
  <2> QED
    BY <2>1, <2>2
<1>7. Views(Journey', request', store', cached')
  BY <1>3, <1>5, <1>6, ViewsStay
<1> QED
  BY <1>1, <1>3, <1>7, QuietlyGood DEF Showing

\* A block pays coins above all that any wallet has seen, and a deposit only
\* when its address was shown.
LEMMA MineFine ==
  ASSUME Ongoing, Mine
  PROVE  CoinGood'
<1> DEFINE w == Journey
           x == Journey'
<1>1. /\ height' = height + 1
      /\ UNCHANGED <<row, cached, store, request, shown, dropped, rescanned>>
  BY DEF Mine, history
<1>2. PICK paid \in SUBSET {c \in Coins : minedAt[c] = 0 /\ (c \in Sweeps \/ shown # "never")} :
        minedAt' = [c \in Coins |-> IF c \in paid THEN height' ELSE minedAt[c]]
  BY DEF Mine
<1>3. height \in Nat
  BY HeightsAre DEF Ongoing, Inv, WalletInv, Outer
<1>4. /\ w.mined = minedAt /\ w.height = height /\ w.open = (shown = "parked" \/ rescanned)
      /\ w.excused = dropped \cup OnTheirWay /\ JourneyType(w)
  BY JourneyTyped DEF Ongoing, Inv
<1>5. /\ x.mined = minedAt' /\ x.height = height' /\ x.open = (shown' = "parked" \/ rescanned')
      /\ x.excused = dropped' \cup OnTheirWay' /\ JourneyType(x)
  BY JourneyTypedNext DEF Ongoing, Inv
<1>6. OnTheirWay' = OnTheirWay
  BY <1>1 DEF OnTheirWay, Carried
<1> HIDE DEF w, x
<1>7. Onward(w, x, row')
  <2>1. \A c \in Coins : minedAt'[c] = minedAt[c] \/ (minedAt[c] = 0 /\ minedAt'[c] = height + 1)
    BY <1>1, <1>2
  <2>2. w.height <= x.height /\ \A n : n = height + 1 => w.height < n
    BY <1>1, <1>3, <1>4, <1>5
  <2>3. \A c \in Coins : x.mined[c] = w.mined[c] \/ (w.mined[c] = 0 /\ w.height < x.mined[c])
    BY <1>4, <1>5, <2>1, <2>2
  <2>4. (w.open => x.open) /\ \A c \in w.excused : c \in x.excused
    BY <1>1, <1>4, <1>5, <1>6
  <2> QED
    BY <2>2, <2>3, <2>4 DEF Onward
<1>8. Views(Journey', request', store', cached')
  BY <1>1, <1>7, Itself, ViewsStay DEF w, x
<1>9. Fine(x, row')
  BY <1>1, <1>4, <1>5, <1>7, FineStays DEF Ongoing, CoinGood, w
<1>10. ShownInTime'
  <2>1. ShownInTime
    BY DEF Ongoing, CoinGood
  <2>2. ASSUME NEW c \in Deposits, minedAt'[c] > 0
        PROVE  shown' # "never"
    <3>1. c \in Coins /\ c \notin Sweeps
      BY WalletStoreAssumption DEF Coins
    <3> QED
      BY <1>1, <1>2, <2>1, <2>2, <3>1 DEF ShownInTime
  <2>3. shown' = "tracked" => ~Parked(row') \/ rescanned'
    BY <1>1, <2>1 DEF ShownInTime
  <2> QED
    BY <2>2, <2>3 DEF ShownInTime
<1> QED
  BY <1>8, <1>9, <1>10 DEF CoinGood, x

-----------------------------------------------------------------------------
(* Every step *)

LEMMA CoinInvAtFirst == Init => CoinInv
<1> SUFFICES ASSUME Init
             PROVE  CoinGood
  BY DEF CoinInv
<1>1. \A c \in Coins : minedAt[c] = 0
  BY DEF Init
<1>2. row = {} /\ shown = "never" /\ cached = NoInstance /\ NoInstance \notin Instances
  BY WalletStoreAssumption DEF Init
<1>3. \A r \in Requests : request[r] = Idle
  BY DEF Init
<1>4. Fine(Journey, row)
  <2>1. \A h : ~Below(h, row)
    BY <1>2, BlocksAre
  <2> QED
    BY <2>1, MissedIs DEF Fine, Reaches
<1>5. \A i \in Instances : ~InUse(request, cached, i)
  BY <1>2, <1>3, EmptyTypes DEF InUse
<1>6. Views(Journey, request, store, cached)
  BY <1>3, <1>5, IdleFine DEF Views
<1>7. ShownInTime
  BY <1>1, <1>2 DEF ShownInTime, Coins
<1> QED
  BY <1>4, <1>6, <1>7 DEF CoinGood

LEMMA CoinGoodUntouched ==
  ASSUME CoinGood, UNCHANGED vars
  PROVE  CoinGood'
<1>1. UNCHANGED <<minedAt, height, row, cached, store, request, shown, dropped, rescanned>>
  BY DEF vars, chain, history
<1>2. Journey' = Journey
  BY <1>1 DEF Journey, OnTheirWay, Carried
<1>3. Fine(Journey', row') /\ Views(Journey', request', store', cached')
  BY <1>1, <1>2 DEF CoinGood
<1> QED
  BY <1>1, <1>3 DEF CoinGood, ShownInTime, Parked, Blocks

\* A write is out of date for good, and the backend is configured once.
LEMMA WhatGoesOn ==
  ASSUME WalletInv, [Next]_vars
  PROVE  mix' = mix /\ (overtaken => overtaken')
<1>1. \A r, inst, facts, next : WriteRow(r, inst, facts, next) => (overtaken => overtaken')
  BY DEF WriteRow, WalletInv, Outer
<1>2. ASSUME NEW r \in Requests, WriteInitial(r) \/ Write(r) \/ RescanWrite(r)
      PROVE  mix' = mix /\ (overtaken => overtaken')
  BY <1>1, <1>2 DEF WriteInitial, Write, RescanWrite, chain
<1>3. ASSUME NEW r \in Requests,
             \/ \E op \in Ops \ {"rescan"} : Arrive(r, op)
             \/ ReadRow(r) \/ InsertCache(r) \/ EvictCache(r) \/ RescanWalk(r) \/ Stop(r)
      PROVE  mix' = mix /\ overtaken' = overtaken
  BY <1>3 DEF Arrive, ReadRow, InsertCache, EvictCache, RescanWalk, Stop, chain, history
<1>4. ASSUME NEW r \in Requests, Touch(r)
      PROVE  mix' = mix /\ overtaken' = overtaken
  BY <1>4 DEF Touch, Sync, SyncRebuilt, SyncFails, Reveal, RevealFirst, Build, BuildFails,
     ComputeDrain, BuildResweep, chain, history
<1>5. ASSUME NEW r \in Requests, Merge(r) \/ Replace(r) \/ WriteFails(r) \/ InsertProposal(r)
      PROVE  mix' = mix /\ overtaken' = overtaken
  BY <1>5 DEF Merge, Replace, WriteFails, InsertProposal, chain, history
<1>6. ASSUME Outside
      PROVE  mix' = mix /\ overtaken' = overtaken
  BY <1>6 DEF Outside, Restart, Mine, Reorg, chain, history
<1>7. CASE UNCHANGED vars
  BY <1>7 DEF vars, chain, history
<1> QED
  BY <1>2, <1>3, <1>4, <1>5, <1>6, <1>7 DEF Next, Load, Persist

LEMMA CoinInvInductive == Inv /\ Inv' /\ CoinInv /\ [Next]_vars => CoinInv'
<1> SUFFICES ASSUME Inv, Inv', CoinInv, [Next]_vars, OverRpc', ~overtaken'
             PROVE  CoinGood'
  BY DEF CoinInv
<1>1. mix' = mix /\ (overtaken => overtaken')
  BY WhatGoesOn DEF Inv
<1>2. Ongoing
  BY <1>1 DEF Ongoing, OverRpc, CoinInv
<1>3. ASSUME NEW r \in Requests, NEW op \in Ops \ {"rescan"}, Arrive(r, op)
      PROVE  CoinGood'
  BY <1>2, <1>3, ArriveFine
<1>4. ASSUME NEW r \in Requests,
             Load(r) \/ EvictCache(r) \/ RescanWalk(r) \/ RescanWrite(r) \/ Stop(r)
      PROVE  CoinGood'
  BY <1>2, <1>4, ReadRowFine, WriteInitialFine, InsertCacheFine, LeavingFine, RescanWalkFine,
     RescanWriteFine, StopFine DEF Load
<1>5. ASSUME NEW r \in Requests, Touch(r)
      PROVE  CoinGood'
  BY <1>2, <1>5, SyncFine, NoRebuilds, SyncFailsFine, RevealFine, BuildFine, BuildFailsFine,
     DiscardingFine DEF Touch
<1>6. ASSUME NEW r \in Requests, Persist(r)
      PROVE  CoinGood'
  BY <1>2, <1>6, MergeFine, NoRebuilds, WriteFine, LeavingFine DEF Persist
<1>7. ASSUME Outside
      PROVE  CoinGood'
  BY <1>2, <1>7, RestartFine, MineFine, NoRebuilds DEF Outside
<1>8. CASE UNCHANGED vars
  BY <1>2, <1>8, CoinGoodUntouched DEF Ongoing
<1> QED
  BY <1>3, <1>4, <1>5, <1>6, <1>7, <1>8 DEF Next

LEMMA CoinInvHolds == Spec => [](Inv /\ CoinInv)
<1>1. Init => CoinInv
  BY CoinInvAtFirst
<1> QED
  BY <1>1, InvHolds, CoinInvInductive, PTL DEF Spec

LEMMA CausesAreNamed == Inv /\ CoinInv => SkippedForACause
<1> SUFFICES ASSUME WalletInv, OverRpc, ~overtaken, CoinGood, NEW c \in Skipped(row)
             PROVE  \/ Early(c, row) \/ c \in dropped
                    \/ \E r \in Requests : Coin(c) \in Carried(r)
  BY DEF Inv, CoinInv, SkippedForACause
<1>1. /\ Journey.mined = minedAt /\ Journey.excused = dropped \cup OnTheirWay
      /\ Journey.open = (shown = "parked" \/ rescanned)
  BY JourneyTyped
<1>2. c \in Missed(Journey, row)
  BY <1>1 DEF Skipped, Missed
<1>3. Unaware(Journey, c, row) \/ c \in dropped \cup OnTheirWay
  BY <1>1, <1>2 DEF CoinGood, Fine
<1>4. Before(Journey, c, row) => \A b \in Blocks(row) : minedAt[c] <= b[2]
  BY <1>1, FactKinds DEF Before, Blocks
<1> QED
  BY <1>1, <1>3, <1>4 DEF Unaware, Early, OnTheirWay

\* Over RPC, and unless some write was out of date, the row lacks a coin below
\* its tip only for one of the reasons the code has: the birthday or a rescan
\* put the first block above it (wallet.rs load_or_init, rescan_federation.rs),
\* it was let go of (a preview or resweep discards the stage, a request ends
\* before update_federation_changeset), or a request is on its way with it.
THEOREM SkippedHaveACause == Spec => []SkippedForACause
  BY CoinInvHolds, CausesAreNamed, PTL
=============================================================================
