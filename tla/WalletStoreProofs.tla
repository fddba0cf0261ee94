-------------------------- MODULE WalletStoreProofs --------------------------
(***************************************************************************)
(* Theorems about WalletStore, for any number of operations at once, any   *)
(* number of instances of the wallet, chains of any length and any faults. *)
(***************************************************************************)
EXTENDS WalletStore, TLAPS

-----------------------------------------------------------------------------
(* The inductive invariant *)

\* A slot that works on a wallet, or carries what it took from one, has one.
HasInstance(q) == q.step \in {"touch", "merge", "replace"} => q.inst \in Instances
SlotsHold == \A r \in Requests : HasInstance(request[r])

\* MemoryAccounted, fact by fact.
InTransit(q, i, f) == q.inst = i /\ q.step \in {"merge", "replace"} /\ f \in q.facts
Kept(s, f) == f \in s.aggregate \/ f \in s.staged \/ f \in s.lost
FactsAccounted ==
  \A i \in Instances : \A f \in store[i].wallet :
    Kept(store[i], f) \/ \E r \in Requests : InTransit(request[r], i, f)

\* The part about what is in memory, and the part about the rest.
MemoryInv ==
  /\ store \in [Instances -> Instance] /\ request \in [Requests -> Request]
  /\ SlotsHold /\ FactsAccounted
Outer ==
  /\ mix \in Mixes /\ height \in 0..MaxHeight
  /\ version \in [Heights -> {1, 2}] /\ minedAt \in [Coins -> 0..MaxHeight]
  /\ row \subseteq Facts /\ cached \in Instances \cup {NoInstance}
  /\ proposals \subseteq 1..MaxChange /\ shown \in {"never", "parked", "tracked"}
  /\ overtaken \in BOOLEAN /\ dropped \subseteq Coins /\ rescanned \in BOOLEAN

WalletInv == MemoryInv /\ Outer

LEMMA InvImpliesType == WalletInv => TypeOK
  BY DEF WalletInv, MemoryInv, Outer, TypeOK

LEMMA InvImpliesAccounted == WalletInv => MemoryAccounted
<1> SUFFICES ASSUME WalletInv, NEW i \in Instances, NEW f \in store[i].wallet
             PROVE  f \in store[i].aggregate \cup store[i].staged \cup store[i].lost
                          \cup UNION {request[r].facts :
                                 r \in {q \in Requests : /\ request[q].inst = i
                                                        /\ request[q].step \in {"merge", "replace"}}}
  BY DEF MemoryAccounted
<1>1. Kept(store[i], f) \/ \E r \in Requests : InTransit(request[r], i, f)
  BY DEF WalletInv, MemoryInv, FactsAccounted
<1> QED
  BY <1>1 DEF Kept, InTransit

-----------------------------------------------------------------------------
(* Facts *)

LEMMA FactTypes ==
  /\ Descriptor \in Facts /\ External \in Facts
  /\ \A h \in Heights, v \in {1, 2} : Block(h, v) \in Facts
  /\ \A c \in Coins : Coin(c) \in Facts
  /\ \A k \in 1..MaxChange : Change(k) \in Facts
  BY DEF Facts

\* What a wallet makes of the chain are facts.
LEMMA BlockAtType ==
  ASSUME Outer, NEW h \in Heights
  PROVE  BlockAt(h) \in Facts
<1>1. version[h] \in {1, 2}
  BY DEF Outer
<1> QED
  BY <1>1, FactTypes DEF BlockAt

LEMMA WalkType ==
  ASSUME Outer, NEW cs, NEW to \in 0..height
  PROVE  Walk(cs, to) \subseteq Facts
<1>1. height \in 0..MaxHeight /\ MaxHeight \in Nat
  BY WalletStoreAssumption DEF Outer
<1>2. \A h \in 1..to : h \in Heights
  BY <1>1 DEF Heights
<1> QED
  BY <1>2, BlockAtType, FactTypes DEF Walk

LEMMA ScanType ==
  ASSUME Outer, NEW cs
  PROVE  Scan(cs) \subseteq Facts
<1>1. /\ height \in 0..MaxHeight /\ MaxHeight \in Nat
      /\ \A c \in Coins : minedAt[c] \in 0..MaxHeight
  BY WalletStoreAssumption DEF Outer
<1>2. \A c \in Coins : minedAt[c] > 0 => minedAt[c] \in Heights
  BY <1>1 DEF Heights
<1>3. \A h \in {height} \ {0} : h \in Heights
  BY <1>1 DEF Heights
<1> QED
  BY <1>2, <1>3, BlockAtType, FactTypes DEF Scan

LEMMA RebuildType ==
  ASSUME Outer, NEW cs \in SUBSET Facts
  PROVE  Rebuild(cs) \subseteq Facts
  BY ScanType, FactTypes DEF Rebuild, Revealed

LEMMA BirthdayType ==
  ASSUME Outer, NEW cs
  PROVE  Birthday(cs) \subseteq Facts
<1>1. height > 0 => height \in Heights
  BY WalletStoreAssumption DEF Outer, Heights
<1> QED
  BY <1>1, BlockAtType DEF Birthday

LEMMA CoinsOfType == \A cs : CoinsOf(cs) \subseteq Coins
  BY DEF CoinsOf

-----------------------------------------------------------------------------
(* Memory *)

LEMMA EmptyTypes ==
  /\ Unused \in Instance /\ Unused.wallet = {}
  /\ Idle \in Request /\ Idle.inst = NoInstance /\ Idle.step = "idle"
  BY WalletStoreAssumption DEF Unused, Instance, Idle, Request, Ops

\* The next state of memory, in terms of the requests and of the instances
\* before those that nothing refers to are freed.
Sound(reqs, insts) ==
  /\ insts \in [Instances -> Instance] /\ reqs \in [Requests -> Request]
  /\ \A r \in Requests : HasInstance(reqs[r])
  /\ \A i \in Instances : \A f \in insts[i].wallet :
       Kept(insts[i], f) \/ \E r \in Requests : InTransit(reqs[r], i, f)

LEMMA MemoryIsSound == MemoryInv <=> Sound(request, store)
  BY DEF MemoryInv, Sound, SlotsHold, FactsAccounted

\* Freeing an instance forgets only what nobody can reach.
LEMMA FreeingIsSound ==
  ASSUME NEW reqs, NEW insts, NEW keep, Sound(reqs, insts)
  PROVE  Sound(reqs, Freed(insts, reqs, keep))
<1> DEFINE next == Freed(insts, reqs, keep)
<1>1. next \in [Instances -> Instance]
  BY EmptyTypes DEF Freed, Sound
<1>2. \A i \in Instances : next[i] = insts[i] \/ next[i] = Unused
  BY DEF Freed
<1> HIDE DEF next
<1>3. \A i \in Instances : \A f \in next[i].wallet :
        Kept(next[i], f) \/ \E r \in Requests : InTransit(reqs[r], i, f)
  BY <1>2, EmptyTypes DEF Sound
<1> QED
  BY <1>1, <1>3 DEF Sound, next

\* One slot and its instance move; nothing is lost if every fact the instance
\* then knows is kept, carried by that slot, or still carried by another.
LEMMA MoveIsSound ==
  ASSUME Sound(request, store), NEW r \in Requests, NEW next \in Request,
         NEW j \in Instances, NEW s \in Instance,
         HasInstance(next), request[r].inst = j, next.inst \in {j, NoInstance},
         \A f \in s.wallet : \/ Kept(s, f) \/ InTransit(next, j, f)
                             \/ \E q \in Requests \ {r} : InTransit(request[q], j, f)
  PROVE  Sound([request EXCEPT ![r] = next], [store EXCEPT ![j] = s])
<1> DEFINE reqs == [request EXCEPT ![r] = next]
           insts == [store EXCEPT ![j] = s]
<1>1. /\ insts \in [Instances -> Instance] /\ reqs \in [Requests -> Request]
      /\ reqs[r] = next /\ \A q \in Requests \ {r} : reqs[q] = request[q]
      /\ insts[j] = s /\ \A i \in Instances \ {j} : insts[i] = store[i]
  BY DEF Sound
<1> HIDE DEF reqs, insts
<1>2. \A q \in Requests : HasInstance(reqs[q])
  BY <1>1 DEF Sound
<1>3. ASSUME NEW i \in Instances, NEW f \in insts[i].wallet
      PROVE  Kept(insts[i], f) \/ \E q \in Requests : InTransit(reqs[q], i, f)
  <2>1. CASE i = j
    BY <1>1, <1>3, <2>1
  <2>2. CASE i # j
    <3>1. Kept(store[i], f) \/ \E q \in Requests : InTransit(request[q], i, f)
      BY <1>1, <1>3, <2>2 DEF Sound
    <3>2. ~InTransit(request[r], i, f)
      BY <2>2 DEF InTransit
    <3> QED
      BY <1>1, <2>2, <3>1, <3>2
  <2> QED
    BY <2>1, <2>2
<1> QED
  BY <1>1, <1>2, <1>3 DEF Sound, reqs, insts

\* A slot that carries nothing on its way to an aggregate moves alone.
LEMMA SlotMoveIsSound ==
  ASSUME NEW old, NEW insts, Sound(old, insts), NEW r \in Requests, NEW next \in Request,
         HasInstance(next), old[r].step \notin {"merge", "replace"}
  PROVE  Sound([old EXCEPT ![r] = next], insts)
<1> DEFINE reqs == [old EXCEPT ![r] = next]
<1>1. /\ reqs \in [Requests -> Request]
      /\ reqs[r] = next /\ \A q \in Requests \ {r} : reqs[q] = old[q]
  BY DEF Sound
<1> HIDE DEF reqs
<1>2. \A q \in Requests : HasInstance(reqs[q])
  BY <1>1 DEF Sound
<1>3. ASSUME NEW i \in Instances, NEW f \in insts[i].wallet
      PROVE  Kept(insts[i], f) \/ \E q \in Requests : InTransit(reqs[q], i, f)
  <2>1. Kept(insts[i], f) \/ \E q \in Requests : InTransit(old[q], i, f)
    BY <1>3 DEF Sound
  <2>2. ~InTransit(old[r], i, f)
    BY DEF InTransit
  <2> QED
    BY <1>1, <2>1, <2>2
<1> QED
  BY <1>1, <1>2, <1>3 DEF Sound, reqs

\* Marks that histories leave disturb neither slots nor instances.
LEMMA MarksAreSound ==
  ASSUME Sound(request, store), NEW r \in Requests, NEW inst
  PROVE  Sound(MarkedLate(r), MarkedBehind(inst)) /\ Sound(NotAlone, store)
<1>1. /\ MarkedLate(r) \in [Requests -> Request] /\ NotAlone \in [Requests -> Request]
      /\ MarkedBehind(inst) \in [Instances -> Instance]
  <2>1. ASSUME NEW q \in Request
        PROVE  [q EXCEPT !.late = TRUE] \in Request /\ [q EXCEPT !.alone = FALSE] \in Request
    BY DEF Request
  <2>2. ASSUME NEW s \in Instance
        PROVE  [s EXCEPT !.behind = TRUE] \in Instance
    BY DEF Instance
  <2> QED
    BY <2>1, <2>2 DEF Sound, MarkedLate, NotAlone, MarkedBehind
<1>2. \A q \in Requests :
        /\ MarkedLate(r)[q].inst = request[q].inst /\ MarkedLate(r)[q].step = request[q].step
        /\ MarkedLate(r)[q].facts = request[q].facts
        /\ NotAlone[q].inst = request[q].inst /\ NotAlone[q].step = request[q].step
        /\ NotAlone[q].facts = request[q].facts
  BY DEF Sound, MarkedLate, NotAlone, Request
<1>3. \A i \in Instances :
        /\ MarkedBehind(inst)[i].wallet = store[i].wallet
        /\ MarkedBehind(inst)[i].aggregate = store[i].aggregate
        /\ MarkedBehind(inst)[i].staged = store[i].staged
        /\ MarkedBehind(inst)[i].lost = store[i].lost
  BY DEF Sound, MarkedBehind, Instance
<1>4. \A q \in Requests : HasInstance(MarkedLate(r)[q]) /\ HasInstance(NotAlone[q])
  BY <1>2 DEF Sound, HasInstance
<1>5. \A q \in Requests, i \in Instances : \A f :
        /\ InTransit(MarkedLate(r)[q], i, f) <=> InTransit(request[q], i, f)
        /\ InTransit(NotAlone[q], i, f) <=> InTransit(request[q], i, f)
  BY <1>2 DEF InTransit
<1>6. \A i \in Instances : \A f : Kept(MarkedBehind(inst)[i], f) <=> Kept(store[i], f)
  BY <1>3 DEF Kept
<1> QED
  BY <1>1, <1>3, <1>4, <1>5, <1>6 DEF Sound

-----------------------------------------------------------------------------
(* What the steps have in common *)

\* A step of a slot under the lock on its wallet or on its aggregate.
LEMMA ApplyIsSound ==
  ASSUME MemoryInv, NEW r \in Requests, NEW next \in Request,
         NEW s \in Instance, HasInstance(next), request[r].inst \in Instances,
         next.inst \in {request[r].inst, NoInstance},
         \A f \in s.wallet : \/ Kept(s, f) \/ InTransit(next, request[r].inst, f)
                             \/ \E q \in Requests \ {r} : InTransit(request[q], request[r].inst, f),
         Apply(r, next, [store EXCEPT ![request[r].inst] = s])
  PROVE  MemoryInv'
<1>1. Sound([request EXCEPT ![r] = next], [store EXCEPT ![request[r].inst] = s])
  BY MoveIsSound, MemoryIsSound
<1>2. Sound(request', store')
  BY <1>1, FreeingIsSound DEF Apply
<1> QED
  BY <1>2, MemoryIsSound DEF MemoryInv, Sound, SlotsHold, FactsAccounted

\* A step of a slot that leaves every instance as it is, or frees it.
LEMMA ApplySlotIsSound ==
  ASSUME MemoryInv, NEW r \in Requests, NEW next \in Request, HasInstance(next),
         request[r].step \notin {"merge", "replace"}, Apply(r, next, store)
  PROVE  MemoryInv'
<1>1. Sound([request EXCEPT ![r] = next], store)
  BY SlotMoveIsSound, MemoryIsSound
<1>2. Sound(request', store')
  BY <1>1, FreeingIsSound DEF Apply
<1> QED
  BY <1>2 DEF MemoryInv, Sound, SlotsHold, FactsAccounted

\* A write of the row.
LEMMA WriteRowIsSound ==
  ASSUME MemoryInv, NEW r \in Requests, NEW inst, NEW facts, NEW next \in Request,
         HasInstance(next), request[r].step \notin {"merge", "replace"},
         WriteRow(r, inst, facts, next)
  PROVE  MemoryInv'
<1>1. Sound(MarkedLate(r), MarkedBehind(inst))
  BY MarksAreSound, MemoryIsSound
<1>2. MarkedLate(r)[r] = request[r]
  BY DEF MarkedLate
<1>3. Sound([MarkedLate(r) EXCEPT ![r] = next], MarkedBehind(inst))
  BY <1>1, <1>2, SlotMoveIsSound
<1>4. Sound(request', store')
  BY <1>3, FreeingIsSound DEF WriteRow
<1> QED
  BY <1>4 DEF MemoryInv, Sound, SlotsHold, FactsAccounted

LEMMA MemoryUntouched ==
  ASSUME MemoryInv, UNCHANGED <<request, store>>
  PROVE  MemoryInv'
  BY DEF MemoryInv, SlotsHold, FactsAccounted

-----------------------------------------------------------------------------
(* Loading *)

LEMMA ArriveStep ==
  ASSUME WalletInv, NEW r \in Requests, NEW op \in Ops, Arrive(r, op)
  PROVE  MemoryInv'
<1> DEFINE quiet == \A q \in Requests : Holds(q, "idle")
           next == [Idle EXCEPT !.op = op, !.inst = cached, !.alone = quiet /\ op = "sync",
                                !.step = IF cached = NoInstance THEN "read" ELSE "touch"]
<1>1. next \in Request /\ HasInstance(next)
  <2>1. (quiet /\ op = "sync") \in BOOLEAN
    OBVIOUS
  <2>2. cached \in Instances \cup {NoInstance}
    BY DEF WalletInv, Outer
  <2>3. ASSUME NEW b \in BOOLEAN, NEW step \in {"read", "touch"}
        PROVE  LET q == [Idle EXCEPT !.op = op, !.inst = cached, !.alone = b, !.step = step]
               IN  q \in Request /\ q.step = step /\ q.inst = cached
    BY <2>2, EmptyTypes DEF Request
  <2>4. next \in Request /\ next.inst = cached
        /\ next.step = IF cached = NoInstance THEN "read" ELSE "touch"
    BY <2>1, <2>3
  <2> HIDE DEF next
  <2> QED
    BY <2>2, <2>4 DEF HasInstance
<1>2. request' = [NotAlone EXCEPT ![r] = next] /\ store' = store
  BY DEF Arrive
<1> HIDE DEF next
<1>3. Sound(NotAlone, store) /\ NotAlone[r].step = "idle"
  BY MarksAreSound, MemoryIsSound DEF WalletInv, MemoryInv, Arrive, Holds, NotAlone, Request
<1>4. Sound(request', store')
  BY <1>1, <1>2, <1>3, SlotMoveIsSound
<1> QED
  BY <1>4 DEF MemoryInv, Sound, SlotsHold, FactsAccounted

LEMMA ReadRowStep ==
  ASSUME WalletInv, NEW r \in Requests, ReadRow(r)
  PROVE  MemoryInv'
<1> DEFINE found == row \cup {Descriptor}
           loaded == found \cup Birthday(found)
           next == [request[r] EXCEPT !.facts = loaded,
                                      !.step = IF loaded = row THEN "insert" ELSE "seed"]
<1>1. loaded \subseteq Facts
  BY BirthdayType, FactTypes DEF WalletInv, Outer
<1>2. request[r] \in Request /\ request[r].step = "read"
  BY DEF WalletInv, MemoryInv, ReadRow, Holds
<1>3. request' = [request EXCEPT ![r] = next] /\ store' = store
  BY DEF ReadRow
<1> HIDE DEF loaded
<1>4. next \in Request /\ HasInstance(next)
  BY <1>1, <1>2 DEF Request, HasInstance
<1> HIDE DEF next
<1>5. Sound(request', store')
  BY <1>2, <1>3, <1>4, SlotMoveIsSound, MemoryIsSound DEF WalletInv
<1> QED
  BY <1>5 DEF MemoryInv, Sound, SlotsHold, FactsAccounted

LEMMA WriteInitialStep ==
  ASSUME WalletInv, NEW r \in Requests, WriteInitial(r)
  PROVE  MemoryInv'
<1> DEFINE next == [request[r] EXCEPT !.step = "insert", !.late = FALSE]
<1>1. request[r] \in Request /\ request[r].step = "seed"
  BY DEF WalletInv, MemoryInv, WriteInitial, Holds
<1>2. next \in Request /\ HasInstance(next)
  BY <1>1 DEF Request, HasInstance
<1>3. WriteRow(r, NoInstance, request[r].facts, next)
  BY DEF WriteInitial
<1> QED
  BY <1>1, <1>2, <1>3, WriteRowIsSound DEF WalletInv

\* An instance enters the cache with nothing but what it was built from.
LEMMA InsertCacheStep ==
  ASSUME WalletInv, NEW r \in Requests, InsertCache(r)
  PROVE  MemoryInv'
<1>1. /\ request[r] \in Request /\ request[r].step = "insert"
      /\ cached \in Instances \cup {NoInstance}
  BY DEF WalletInv, MemoryInv, Outer, InsertCache, Holds
<1> DEFINE next(i) == [request[r] EXCEPT !.step = "touch", !.inst = i, !.facts = {}, !.late = FALSE]
<1>2. ASSUME NEW i \in Instances
      PROVE  next(i) \in Request /\ HasInstance(next(i))
  BY <1>1 DEF Request, HasInstance
<1>3. CASE cached # NoInstance
  <2>1. request' = [request EXCEPT ![r] = next(cached)] /\ store' = store
    BY <1>3 DEF InsertCache
  <2>2. next(cached) \in Request /\ HasInstance(next(cached))
    BY <1>1, <1>2, <1>3
  <2> HIDE DEF next
  <2>3. Sound(request', store')
    BY <1>1, <2>1, <2>2, SlotMoveIsSound, MemoryIsSound DEF WalletInv
  <2> QED
    BY <2>3 DEF MemoryInv, Sound, SlotsHold, FactsAccounted
<1>4. CASE cached = NoInstance
  <2> DEFINE fresh == [Unused EXCEPT !.wallet = request[r].facts, !.aggregate = request[r].facts,
                                     !.behind = request[r].late]
  <2>1. PICK i \in Instances : /\ store' = [store EXCEPT ![i] = fresh]
                               /\ request' = [request EXCEPT ![r] = next(i)]
    BY <1>4 DEF InsertCache
  <2>2. /\ fresh \in Instance /\ fresh.wallet = request[r].facts
        /\ fresh.aggregate = request[r].facts
    <3>1. request[r].facts \subseteq Facts /\ request[r].late \in BOOLEAN
      BY <1>1 DEF Request
    <3> QED
      BY <3>1 DEF Unused, Instance
  <2> HIDE DEF fresh
  <2>3. Sound(request, store)
    BY MemoryIsSound DEF WalletInv
  <2>4. Sound(request, store')
    <3>1. /\ store' \in [Instances -> Instance] /\ store'[i] = fresh
          /\ \A k \in Instances \ {i} : store'[k] = store[k]
      BY <2>1, <2>2, <2>3 DEF Sound
    <3>2. \A f \in fresh.wallet : Kept(fresh, f)
      BY <2>2 DEF Kept
    <3>3. \A k \in Instances : \A f \in store'[k].wallet :
            Kept(store'[k], f) \/ \E q \in Requests : InTransit(request[q], k, f)
      BY <2>3, <3>1, <3>2 DEF Sound
    <3> QED
      BY <2>3, <3>1, <3>3 DEF Sound
  <2>5. next(i) \in Request /\ HasInstance(next(i))
    BY <1>2
  <2> HIDE DEF next
  <2>6. Sound(request', store')
    BY <1>1, <2>1, <2>4, <2>5, SlotMoveIsSound
  <2> QED
    BY <2>6 DEF MemoryInv, Sound, SlotsHold, FactsAccounted
<1> QED
  BY <1>3, <1>4

-----------------------------------------------------------------------------
(* Under the lock on the wallet *)

\* The slot that holds the lock, and its instance.
LEMMA Holder ==
  ASSUME WalletInv, NEW r \in Requests, request[r].step \in {"touch", "merge", "replace"}
  PROVE  /\ request[r] \in Request /\ request[r].inst \in Instances
         /\ Its(r) \in Instance
         /\ \A f \in Its(r).wallet : Kept(Its(r), f)
              \/ \E q \in Requests : InTransit(request[q], request[r].inst, f)
<1>1. request[r] \in Request /\ request[r].inst \in Instances
  BY DEF WalletInv, MemoryInv, SlotsHold, HasInstance
<1> QED
  BY <1>1 DEF WalletInv, MemoryInv, FactsAccounted, Its

\* What is learned, and what was staged, is carried to the aggregate.
LEMMA CarryIsSound ==
  ASSUME WalletInv, NEW r \in Requests, request[r].step = "touch",
         NEW new \in SUBSET Facts, NEW change \in 0..MaxChange, NEW s \in Instance,
         s.wallet = Its(r).wallet \cup new, s.aggregate = Its(r).aggregate,
         s.lost = Its(r).lost, Carry(r, new, change, s)
  PROVE  MemoryInv'
<1> DEFINE delta == Its(r).staged \cup (new \ Its(r).wallet)
           q == request[r]
           carrying == [q EXCEPT !.step = "merge", !.facts = delta, !.change = change]
           storing == [q EXCEPT !.step = "store", !.change = change]
           next == IF delta # {} THEN carrying
                   ELSE IF q.op = "build" THEN storing ELSE Idle
<1>1. /\ q \in Request /\ q.inst \in Instances /\ Its(r) \in Instance
      /\ \A f \in Its(r).wallet : Kept(Its(r), f)
           \/ \E p \in Requests : InTransit(request[p], q.inst, f)
  BY Holder
<1>2. delta \subseteq Facts
  BY <1>1 DEF Instance
<1> HIDE DEF delta
<1>3. /\ carrying \in Request /\ carrying.inst = q.inst /\ carrying.step = "merge"
      /\ carrying.facts = delta
      /\ storing \in Request /\ storing.inst = q.inst /\ storing.step = "store"
  BY <1>1, <1>2 DEF Request
<1> HIDE DEF carrying, storing
<1>4. next \in Request /\ HasInstance(next) /\ next.inst \in {q.inst, NoInstance}
  BY <1>1, <1>3, EmptyTypes DEF HasInstance
<1>5. ASSUME NEW f \in s.wallet
      PROVE  \/ Kept(s, f) \/ InTransit(next, q.inst, f)
             \/ \E p \in Requests \ {r} : InTransit(request[p], q.inst, f)
  <2>1. f \in delta => InTransit(next, q.inst, f)
    BY <1>3 DEF InTransit
  <2>2. f \notin delta => f \in Its(r).wallet /\ f \notin Its(r).staged
    BY <1>5 DEF delta
  <2>3. ~InTransit(request[r], q.inst, f)
    BY DEF InTransit
  <2> QED
    BY <1>1, <2>1, <2>2, <2>3 DEF Kept
<1>6. Apply(r, next, [store EXCEPT ![q.inst] = s])
  BY DEF Carry, next, carrying, storing, delta
<1> HIDE DEF next
<1> QED
  BY <1>1, <1>4, <1>5, <1>6, ApplyIsSound DEF WalletInv

LEMMA LearnedType ==
  ASSUME NEW r, Its(r) \in Instance, NEW new \in SUBSET Facts
  PROVE  LET s == Learned(r, new)
         IN  /\ s \in Instance /\ s.wallet = Its(r).wallet \cup new
             /\ s.aggregate = Its(r).aggregate /\ s.lost = Its(r).lost /\ s.used = Its(r).used
             /\ s.staged = {}
  BY DEF Learned, Instance

LEMMA MarkedType ==
  ASSUME NEW r, Its(r) \in Instance, NEW k \in 1..MaxChange
  PROVE  LET s == Marked(r, k)
         IN  /\ s \in Instance /\ s.wallet = Its(r).wallet \cup {Change(k)}
             /\ s.aggregate = Its(r).aggregate /\ s.lost = Its(r).lost /\ s.staged = {}
<1> DEFINE l == Learned(r, {Change(k)})
<1>1. /\ l \in Instance /\ l.wallet = Its(r).wallet \cup {Change(k)}
      /\ l.aggregate = Its(r).aggregate /\ l.lost = Its(r).lost /\ l.staged = {}
  BY LearnedType, FactTypes
<1> HIDE DEF l
<1>2. Marked(r, k) = [l EXCEPT !.used = @ \cup {k}]
  BY DEF Marked, l
<1> QED
  BY <1>1, <1>2 DEF Instance

LEMMA LearningSteps ==
  ASSUME WalletInv, NEW r \in Requests, Sync(r) \/ Reveal(r) \/ RevealFirst(r) \/ Build(r)
  PROVE  MemoryInv'
<1>1. request[r].step = "touch" /\ Its(r) \in Instance
  BY Holder DEF Sync, Reveal, RevealFirst, Build, Touches, Holds
<1>2. ASSUME NEW new \in SUBSET Facts, Carry(r, new, 0, Learned(r, new))
      PROVE  MemoryInv'
  <2>1. /\ Learned(r, new) \in Instance /\ Learned(r, new).wallet = Its(r).wallet \cup new
        /\ Learned(r, new).aggregate = Its(r).aggregate /\ Learned(r, new).lost = Its(r).lost
    BY <1>1, LearnedType
  <2>2. 0 \in 0..MaxChange
    BY WalletStoreAssumption
  <2> QED
    BY <1>1, <1>2, <2>1, <2>2, CarryIsSound
<1>3. CASE Sync(r)
  <2> DEFINE new == IF OverRpc THEN Walk(Its(r).wallet, height) ELSE Scan(Its(r).wallet)
  <2>1. height \in 0..height
    BY WalletStoreAssumption DEF WalletInv, Outer
  <2>2. new \in SUBSET Facts
    BY <2>1, WalkType, ScanType DEF WalletInv
  <2>3. Carry(r, new, 0, Learned(r, new))
    BY <1>3 DEF Sync
  <2> HIDE DEF new
  <2> QED
    BY <1>2, <2>2, <2>3
<1>4. CASE Reveal(r) \/ RevealFirst(r)
  <2>1. {External} \in SUBSET Facts
    BY FactTypes
  <2>2. Carry(r, {External}, 0, Learned(r, {External}))
    BY <1>4 DEF Reveal, RevealFirst
  <2> QED
    BY <1>2, <2>1, <2>2
<1>5. CASE Build(r)
  <2>1. ASSUME NEW k \in 1..MaxChange, Carry(r, {Change(k)}, k, Marked(r, k))
        PROVE  MemoryInv'
    <3>1. {Change(k)} \in SUBSET Facts /\ k \in 0..MaxChange
      BY FactTypes, WalletStoreAssumption
    <3> QED
      BY <1>1, <2>1, <3>1, MarkedType, CarryIsSound
  <2>2. Carry(r, {}, 0, Learned(r, {})) => MemoryInv'
    <3>1. {} \in SUBSET Facts
      OBVIOUS
    <3> QED
      BY <1>2, <3>1
  <2>3. \/ Carry(r, {}, 0, Learned(r, {}))
        \/ \E k \in 1..MaxChange : Carry(r, {Change(k)}, k, Marked(r, k))
    BY <1>5 DEF Build
  <2> QED
    BY <2>1, <2>2, <2>3
<1> QED
  BY <1>3, <1>4, <1>5

\* A rebuild replaces the wallet with what the slot carries.
LEMMA SyncRebuiltStep ==
  ASSUME WalletInv, NEW r \in Requests, SyncRebuilt(r)
  PROVE  MemoryInv'
<1> DEFINE rebuilt == Rebuild(Its(r).wallet)
           next == [request[r] EXCEPT !.step = "replace", !.facts = rebuilt]
           s == [Its(r) EXCEPT !.wallet = rebuilt, !.staged = {}, !.lost = {}]
<1>1. request[r] \in Request /\ request[r].inst \in Instances /\ Its(r) \in Instance
  BY Holder DEF SyncRebuilt, Touches, Holds
<1>2. rebuilt \subseteq Facts
  BY <1>1, RebuildType DEF WalletInv, Instance
<1>3. Apply(r, next, [store EXCEPT ![request[r].inst] = s])
  BY DEF SyncRebuilt
<1> HIDE DEF rebuilt
<1>4. /\ next \in Request /\ next.inst = request[r].inst /\ next.step = "replace"
      /\ next.facts = rebuilt
  BY <1>1, <1>2 DEF Request
<1>5. s \in Instance /\ s.wallet = rebuilt
  BY <1>1, <1>2 DEF Instance
<1> HIDE DEF next, s
<1>6. HasInstance(next) /\ \A f \in s.wallet : InTransit(next, request[r].inst, f)
  BY <1>1, <1>4, <1>5 DEF HasInstance, InTransit
<1> QED
  BY <1>1, <1>3, <1>4, <1>5, <1>6, ApplyIsSound DEF WalletInv

\* A slot that carried nothing gives up, or goes on to the eviction, and leaves
\* an instance that knows what it knew or what is staged.
LEMMA EndingIsSound ==
  ASSUME WalletInv, NEW r \in Requests, request[r].step = "touch", NEW next \in Request,
         next.step \in {"idle", "evict"}, next.inst \in {request[r].inst, NoInstance},
         NEW s \in Instance, s.aggregate = Its(r).aggregate,
         \A f \in s.wallet : f \in s.staged \/ f \in Its(r).wallet,
         \A f \in Its(r).staged : f \in s.staged \/ f \in s.lost,
         Its(r).lost \subseteq s.lost,
         Apply(r, next, [store EXCEPT ![request[r].inst] = s])
  PROVE  MemoryInv'
<1>1. /\ request[r].inst \in Instances
      /\ \A f \in Its(r).wallet : Kept(Its(r), f)
           \/ \E q \in Requests : InTransit(request[q], request[r].inst, f)
  BY Holder
<1>2. \A f : ~InTransit(request[r], request[r].inst, f)
  BY DEF InTransit
<1>3. \A f \in s.wallet : \/ Kept(s, f)
                          \/ \E q \in Requests \ {r} : InTransit(request[q], request[r].inst, f)
  BY <1>1, <1>2 DEF Kept
<1>4. HasInstance(next)
  BY DEF HasInstance
<1> QED
  BY <1>1, <1>3, <1>4, ApplyIsSound DEF WalletInv

LEMMA SyncFailsStep ==
  ASSUME WalletInv, NEW r \in Requests, SyncFails(r)
  PROVE  MemoryInv'
<1>1. request[r].step = "touch" /\ Its(r) \in Instance
  BY Holder DEF SyncFails, Touches, Holds
<1>2. PICK to \in IF OverRpc THEN 0..height ELSE {0} :
        LET new == Walk(Its(r).wallet, to) \ Its(r).wallet
        IN  Apply(r, Idle, [store EXCEPT ![request[r].inst] =
              [Its(r) EXCEPT !.wallet = @ \cup new, !.staged = @ \cup new]])
  BY DEF SyncFails
<1> DEFINE new == Walk(Its(r).wallet, to) \ Its(r).wallet
           s == [Its(r) EXCEPT !.wallet = @ \cup new, !.staged = @ \cup new]
<1>3. to \in 0..height
  BY <1>2, WalletStoreAssumption DEF WalletInv, Outer
<1>4. new \subseteq Facts
  BY <1>3, WalkType DEF WalletInv
<1>5. Apply(r, Idle, [store EXCEPT ![request[r].inst] = s])
  BY <1>2
<1> HIDE DEF new
<1>6. /\ s \in Instance /\ s.wallet = Its(r).wallet \cup new
      /\ s.staged = Its(r).staged \cup new /\ s.aggregate = Its(r).aggregate
      /\ s.lost = Its(r).lost
  BY <1>1, <1>4 DEF Instance
<1> HIDE DEF s
<1> QED
  BY <1>1, <1>5, <1>6, EmptyTypes, EndingIsSound

LEMMA BuildFailsStep ==
  ASSUME WalletInv, NEW r \in Requests, BuildFails(r)
  PROVE  MemoryInv'
<1>1. request[r].step = "touch" /\ Its(r) \in Instance
  BY Holder DEF BuildFails, Touches, Holds
<1>2. PICK k \in 1..MaxChange :
        Apply(r, Idle, [store EXCEPT ![request[r].inst] =
          [Marked(r, k) EXCEPT !.staged = Its(r).staged \cup ({Change(k)} \ Its(r).wallet)]])
  BY DEF BuildFails
<1> DEFINE m == Marked(r, k)
           s == [m EXCEPT !.staged = Its(r).staged \cup ({Change(k)} \ Its(r).wallet)]
<1>3. /\ m \in Instance /\ m.wallet = Its(r).wallet \cup {Change(k)}
      /\ m.aggregate = Its(r).aggregate /\ m.lost = Its(r).lost
  BY <1>1, MarkedType
<1>4. Change(k) \in Facts /\ Its(r).staged \subseteq Facts
  BY <1>1, FactTypes DEF Instance
<1> HIDE DEF m
<1>5. /\ s \in Instance /\ s.wallet = m.wallet /\ s.aggregate = m.aggregate
      /\ s.lost = m.lost /\ s.staged = Its(r).staged \cup ({Change(k)} \ Its(r).wallet)
  BY <1>3, <1>4 DEF Instance
<1>6. Apply(r, Idle, [store EXCEPT ![request[r].inst] = s])
  BY <1>2 DEF m
<1> HIDE DEF s
<1> QED
  BY <1>1, <1>3, <1>5, <1>6, EmptyTypes, EndingIsSound

\* Previews and resweeps throw the stage away.
LEMMA DiscardingSteps ==
  ASSUME WalletInv, NEW r \in Requests, ComputeDrain(r) \/ BuildResweep(r)
  PROVE  MemoryInv'
<1>1. request[r].step = "touch" /\ Its(r) \in Instance /\ request[r] \in Request
  BY Holder DEF ComputeDrain, BuildResweep, Touches, Holds
<1> DEFINE s == Discarded(r)
           evict == [request[r] EXCEPT !.step = "evict"]
<1>2. /\ s \in Instance /\ s.wallet = Its(r).wallet /\ s.aggregate = Its(r).aggregate
      /\ s.staged = {} /\ s.lost = Its(r).lost \cup Its(r).staged
  BY <1>1 DEF Discarded, Instance
<1>3. evict \in Request /\ evict.step = "evict" /\ evict.inst = request[r].inst
  BY <1>1 DEF Request
<1>4. \E next \in {Idle, evict} : Apply(r, next, [store EXCEPT ![request[r].inst] = s])
  BY DEF ComputeDrain, BuildResweep
<1> HIDE DEF s, evict
<1> QED
  BY <1>1, <1>2, <1>3, <1>4, EmptyTypes, EndingIsSound

-----------------------------------------------------------------------------
(* The aggregate and the row *)

LEMMA ReplaceStep ==
  ASSUME WalletInv, NEW r \in Requests, Replace(r)
  PROVE  MemoryInv'
<1> DEFINE q == request[r]
           forgotten == (Its(r).aggregate \ q.facts) \cap Its(r).wallet
           next == [q EXCEPT !.step = "rewrite"]
           s == [Its(r) EXCEPT !.aggregate = q.facts, !.lost = @ \cup forgotten,
                               !.behind = @ \/ forgotten # {}]
<1>1. /\ q \in Request /\ q.inst \in Instances /\ q.step = "replace" /\ Its(r) \in Instance
      /\ \A f \in Its(r).wallet : Kept(Its(r), f)
           \/ \E p \in Requests : InTransit(request[p], q.inst, f)
  BY Holder DEF Replace, Holds
<1>2. next \in Request /\ next.step = "rewrite" /\ next.inst = q.inst
  BY <1>1 DEF Request
<1>3. /\ s \in Instance /\ s.wallet = Its(r).wallet /\ s.aggregate = q.facts
      /\ s.staged = Its(r).staged /\ s.lost = Its(r).lost \cup forgotten
  <2>1. q.facts \subseteq Facts /\ forgotten \subseteq Facts
    BY <1>1 DEF Request, Instance
  <2>2. (Its(r).behind \/ forgotten # {}) \in BOOLEAN
    OBVIOUS
  <2>3. ASSUME NEW b \in BOOLEAN
        PROVE  LET t == [Its(r) EXCEPT !.aggregate = q.facts, !.lost = @ \cup forgotten,
                                       !.behind = b]
               IN  /\ t \in Instance /\ t.wallet = Its(r).wallet /\ t.aggregate = q.facts
                   /\ t.staged = Its(r).staged /\ t.lost = Its(r).lost \cup forgotten
    BY <1>1, <2>1 DEF Instance
  <2> QED
    BY <2>2, <2>3
<1>4. Apply(r, next, [store EXCEPT ![q.inst] = s])
  BY DEF Replace
<1> HIDE DEF next, s
<1>5. ASSUME NEW f \in s.wallet
      PROVE  Kept(s, f) \/ \E p \in Requests \ {r} : InTransit(request[p], q.inst, f)
  BY <1>1, <1>3 DEF Kept, InTransit, forgotten
<1>6. HasInstance(next)
  BY <1>2 DEF HasInstance
<1> QED
  BY <1>1, <1>2, <1>3, <1>4, <1>5, <1>6, ApplyIsSound DEF WalletInv

LEMMA MergeStep ==
  ASSUME WalletInv, NEW r \in Requests, Merge(r)
  PROVE  MemoryInv'
<1> DEFINE q == request[r]
           json == Its(r).aggregate \cup q.facts
           next == [q EXCEPT !.step = "write", !.facts = json]
           s == [Its(r) EXCEPT !.aggregate = json]
<1>1. /\ q \in Request /\ q.inst \in Instances /\ q.step = "merge" /\ Its(r) \in Instance
      /\ \A f \in Its(r).wallet : Kept(Its(r), f)
           \/ \E p \in Requests : InTransit(request[p], q.inst, f)
  BY Holder DEF Merge, Holds
<1>2. json \subseteq Facts
  BY <1>1 DEF Request, Instance
<1>3. next \in Request /\ next.step = "write" /\ next.inst = q.inst
  BY <1>1, <1>2 DEF Request
<1>4. /\ s \in Instance /\ s.wallet = Its(r).wallet /\ s.aggregate = json
      /\ s.staged = Its(r).staged /\ s.lost = Its(r).lost
  BY <1>1, <1>2 DEF Instance
<1>5. Apply(r, next, [store EXCEPT ![q.inst] = s])
  BY DEF Merge, Its
<1> HIDE DEF next, s
<1>6. ASSUME NEW f \in s.wallet
      PROVE  Kept(s, f) \/ \E p \in Requests \ {r} : InTransit(request[p], q.inst, f)
  BY <1>1, <1>4 DEF Kept, InTransit
<1>7. HasInstance(next)
  BY <1>3 DEF HasInstance
<1> QED
  BY <1>1, <1>3, <1>4, <1>5, <1>6, <1>7, ApplyIsSound DEF WalletInv

LEMMA WriteStep ==
  ASSUME WalletInv, NEW r \in Requests, Write(r)
  PROVE  MemoryInv'
<1> DEFINE q == request[r]
           storing == [q EXCEPT !.step = "store", !.facts = {}, !.late = FALSE]
<1>1. q \in Request /\ q.step \in {"write", "rewrite"}
  BY DEF WalletInv, MemoryInv, Write
<1>2. storing \in Request /\ HasInstance(storing)
  BY <1>1 DEF Request, HasInstance
<1>3. AfterWrite(r) \in {Idle, storing}
  BY DEF AfterWrite
<1> HIDE DEF storing
<1>4. AfterWrite(r) \in Request /\ HasInstance(AfterWrite(r))
  BY <1>2, <1>3, EmptyTypes DEF HasInstance
<1>5. WriteRow(r, q.inst, q.facts, AfterWrite(r))
  BY DEF Write
<1> QED
  BY <1>1, <1>4, <1>5, WriteRowIsSound DEF WalletInv

LEMMA LeavingSteps ==
  ASSUME WalletInv, NEW r \in Requests, WriteFails(r) \/ InsertProposal(r) \/ RescanWrite(r)
  PROVE  MemoryInv'
<1>1. Idle \in Request /\ HasInstance(Idle)
  BY EmptyTypes DEF HasInstance
<1>2. CASE WriteFails(r) \/ InsertProposal(r)
  <2>1. request[r].step \in {"seed", "write", "rewrite", "store"} /\ Apply(r, Idle, store)
    BY <1>2 DEF WriteFails, InsertProposal, Holds
  <2> QED
    BY <1>1, <2>1, ApplySlotIsSound DEF WalletInv
<1>3. CASE RescanWrite(r)
  <2>1. request[r].step = "overwrite" /\ WriteRow(r, NoInstance, request[r].facts, Idle)
    BY <1>3 DEF RescanWrite, Holds
  <2> QED
    BY <1>1, <2>1, WriteRowIsSound DEF WalletInv
<1> QED
  BY <1>2, <1>3

LEMMA EvictCacheStep ==
  ASSUME WalletInv, NEW r \in Requests, EvictCache(r)
  PROVE  MemoryInv'
<1>1. /\ request[r].step = "evict" /\ request' = [request EXCEPT ![r] = Idle]
      /\ store' = Freed(store, request', NoInstance)
  BY DEF EvictCache, Holds
<1>2. Idle \in Request /\ HasInstance(Idle)
  BY EmptyTypes DEF HasInstance
<1>3. Sound(request', store)
  BY <1>1, <1>2, SlotMoveIsSound, MemoryIsSound DEF WalletInv
<1>4. Sound(request', store')
  BY <1>1, <1>3, FreeingIsSound
<1> QED
  BY <1>4 DEF MemoryInv, Sound, SlotsHold, FactsAccounted

LEMMA RescanWalkStep ==
  ASSUME WalletInv, NEW r \in Requests, RescanWalk(r)
  PROVE  MemoryInv'
<1>1. PICK from \in 0..height :
        LET start == {Descriptor, External} \cup {Change(k) : k \in 1..MaxChange}
                       \cup {BlockAt(h) : h \in {from} \ {0}}
        IN  request' = [NotAlone EXCEPT ![r] =
              [Idle EXCEPT !.op = "rescan", !.step = "overwrite",
                           !.facts = start \cup Walk(start, height)]]
  BY DEF RescanWalk
<1> DEFINE start == {Descriptor, External} \cup {Change(k) : k \in 1..MaxChange}
                      \cup {BlockAt(h) : h \in {from} \ {0}}
           found == start \cup Walk(start, height)
           next == [Idle EXCEPT !.op = "rescan", !.step = "overwrite", !.facts = found]
<1>2. found \subseteq Facts
  <2>1. /\ height \in 0..height
        /\ \A h \in {from} \ {0} : h \in Heights
    BY WalletStoreAssumption DEF WalletInv, Outer, Heights
  <2>2. start \subseteq Facts
    BY <2>1, FactTypes, BlockAtType DEF WalletInv
  <2> HIDE DEF start
  <2> QED
    BY <2>1, <2>2, WalkType DEF WalletInv
<1>3. request' = [NotAlone EXCEPT ![r] = next] /\ store' = store
  BY <1>1 DEF RescanWalk
<1> HIDE DEF found
<1>4. next \in Request /\ next.step = "overwrite"
  BY <1>2, EmptyTypes DEF Request, Ops
<1> HIDE DEF next
<1>5. HasInstance(next)
  BY <1>4 DEF HasInstance
<1>6. Sound(NotAlone, store) /\ NotAlone[r].step = "idle"
  BY MarksAreSound, MemoryIsSound DEF WalletInv, MemoryInv, RescanWalk, Holds, NotAlone, Request
<1>7. Sound(request', store')
  BY <1>3, <1>4, <1>5, <1>6, SlotMoveIsSound
<1> QED
  BY <1>7 DEF MemoryInv, Sound, SlotsHold, FactsAccounted

\* A client that hangs up drops what its slot carried, which is then `lost`.
LEMMA StopStep ==
  ASSUME WalletInv, NEW r \in Requests, Stop(r)
  PROVE  MemoryInv'
<1>1. CASE request[r].step \in {"merge", "replace"}
  <2> DEFINE q == request[r]
             s == [Its(r) EXCEPT !.lost = @ \cup q.facts]
  <2>1. /\ q \in Request /\ q.inst \in Instances /\ Its(r) \in Instance
        /\ \A f \in Its(r).wallet : Kept(Its(r), f)
             \/ \E p \in Requests : InTransit(request[p], q.inst, f)
    BY <1>1, Holder
  <2>2. /\ s \in Instance /\ s.wallet = Its(r).wallet /\ s.aggregate = Its(r).aggregate
        /\ s.staged = Its(r).staged /\ s.lost = Its(r).lost \cup q.facts
    BY <2>1 DEF Request, Instance
  <2>3. Apply(r, Idle, [store EXCEPT ![q.inst] = s])
    BY <1>1 DEF Stop, Its
  <2> HIDE DEF s
  <2>4. ASSUME NEW f \in s.wallet
        PROVE  Kept(s, f) \/ \E p \in Requests \ {r} : InTransit(request[p], q.inst, f)
    BY <2>1, <2>2 DEF Kept, InTransit
  <2>5. HasInstance(Idle)
    BY EmptyTypes DEF HasInstance
  <2> QED
    BY <2>1, <2>2, <2>3, <2>4, <2>5, EmptyTypes, ApplyIsSound DEF WalletInv
<1>2. CASE request[r].step \notin {"merge", "replace"}
  <2>1. Apply(r, Idle, store)
    BY <1>2 DEF Stop
  <2> QED
    BY <1>2, <2>1, EmptyTypes, ApplySlotIsSound DEF WalletInv, HasInstance
<1> QED
  BY <1>1, <1>2

\* After a restart there is nothing in memory to account for.
LEMMA RestartStep ==
  ASSUME WalletInv, Restart
  PROVE  MemoryInv'
<1>1. /\ request' = [r \in Requests |-> IF request[r].op = "rescan" THEN request[r] ELSE Idle]
      /\ store' = [i \in Instances |-> Unused]
  BY DEF Restart
<1>2. \A r \in Requests : request'[r] \in {request[r], Idle}
  BY <1>1
<1>3. request' \in [Requests -> Request] /\ store' \in [Instances -> Instance]
  BY <1>1, EmptyTypes DEF WalletInv, MemoryInv
<1>4. \A r \in Requests : HasInstance(request'[r])
  BY <1>2, EmptyTypes DEF WalletInv, MemoryInv, SlotsHold, HasInstance
<1>5. \A i \in Instances : store'[i].wallet = {}
  BY <1>1, EmptyTypes
<1> QED
  BY <1>3, <1>4, <1>5 DEF MemoryInv, SlotsHold, FactsAccounted

-----------------------------------------------------------------------------
(* The rest of the state *)

\* The chain grows, or its tip is replaced.
LEMMA ChainSteps ==
  ASSUME WalletInv, Mine \/ Reorg
  PROVE  Outer'
<1>1. /\ Outer /\ MaxHeight \in Nat \ {0}
  BY WalletStoreAssumption DEF WalletInv
<1>2. CASE Mine
  <2>1. height' = height + 1 /\ height' \in 0..MaxHeight
    BY <1>1, <1>2 DEF Mine, Outer
  <2>2. PICK paid : minedAt' = [c \in Coins |-> IF c \in paid THEN height' ELSE minedAt[c]]
    BY <1>2 DEF Mine
  <2>3. minedAt' \in [Coins -> 0..MaxHeight]
    BY <1>1, <2>1, <2>2 DEF Outer
  <2> QED
    BY <1>1, <1>2, <2>1, <2>3 DEF Mine, Outer, history
<1>3. CASE Reorg
  <2>1. version' \in [Heights -> {1, 2}]
    BY <1>1, <1>3 DEF Reorg, Outer
  <2>2. minedAt' \in [Coins -> 0..MaxHeight]
    <3>1. minedAt' = [c \in Coins |-> IF minedAt[c] = height THEN 0 ELSE minedAt[c]]
      BY <1>3 DEF Reorg
    <3> QED
      BY <1>1, <3>1 DEF Outer
  <2> QED
    BY <1>1, <1>3, <2>1, <2>2 DEF Reorg, Outer, history
<1> QED
  BY <1>2, <1>3

\* A write puts in the row what its slot carries.
LEMMA RowType ==
  ASSUME WalletInv, NEW r \in Requests, NEW inst, NEW next,
         WriteRow(r, inst, request[r].facts, next)
  PROVE  row' \subseteq Facts /\ overtaken' \in BOOLEAN
<1>1. row' = request[r].facts /\ request[r] \in Request
  BY DEF WriteRow, WalletInv, MemoryInv
<1>2. overtaken' \in BOOLEAN
  BY DEF WriteRow, Outdated, WalletInv, Outer
<1> QED
  BY <1>1, <1>2 DEF Request

LEMMA WritingSteps ==
  ASSUME WalletInv, NEW r \in Requests, WriteInitial(r) \/ Write(r) \/ RescanWrite(r)
  PROVE  Outer'
<1>1. row' \subseteq Facts /\ overtaken' \in BOOLEAN
  BY RowType DEF WriteInitial, Write, RescanWrite
<1>2. shown' \in {"never", "parked", "tracked"}
  BY DEF WriteInitial, Write, RescanWrite, ShownBy, WalletInv, Outer
<1> QED
  BY <1>1, <1>2 DEF WriteInitial, Write, RescanWrite, WalletInv, Outer, chain, history

\* Steps that let go of coins.
LEMMA LettingGoSteps ==
  ASSUME WalletInv,
         Restart \/ \E r \in Requests : WriteFails(r) \/ Stop(r) \/ ComputeDrain(r) \/ BuildResweep(r)
  PROVE  Outer'
<1>1. \E cs : dropped' = dropped \cup CoinsOf(cs)
  BY DEF Restart, WriteFails, Stop, ComputeDrain, BuildResweep, Drop
<1>2. dropped' \subseteq Coins
  BY <1>1, CoinsOfType DEF WalletInv, Outer
<1>3. cached' \in Instances \cup {NoInstance}
  BY DEF Restart, WriteFails, Stop, ComputeDrain, BuildResweep, WalletInv, Outer
<1> QED
  BY <1>2, <1>3 DEF Restart, WriteFails, Stop, ComputeDrain, BuildResweep, WalletInv, Outer, chain

LEMMA InsertProposalStep ==
  ASSUME WalletInv, NEW r \in Requests, InsertProposal(r)
  PROVE  Outer'
<1>1. request[r].change \in 0..MaxChange /\ MaxChange \in Nat
  BY WalletStoreAssumption DEF WalletInv, MemoryInv, Request
<1>2. {request[r].change} \ {0} \subseteq 1..MaxChange
  BY <1>1
<1>3. proposals \subseteq 1..MaxChange /\ proposals' = proposals \cup ({request[r].change} \ {0})
  BY DEF InsertProposal, WalletInv, Outer
<1>4. proposals' \subseteq 1..MaxChange
  BY <1>2, <1>3
<1> QED
  BY <1>4 DEF InsertProposal, WalletInv, Outer, chain, history

\* Steps that move slots and instances only, or show the receive page.
LEMMA InnerSteps ==
  ASSUME WalletInv, NEW r \in Requests,
         \/ \E op \in Ops : Arrive(r, op)
         \/ ReadRow(r) \/ InsertCache(r) \/ Touch(r) \/ Merge(r) \/ Replace(r)
         \/ RescanWalk(r) \/ EvictCache(r)
  PROVE  Outer'
<1>1. CASE InsertCache(r)
  <2>1. cached' \in Instances \cup {NoInstance}
    BY <1>1 DEF InsertCache, WalletInv, Outer
  <2> QED
    BY <1>1, <2>1 DEF InsertCache, WalletInv, Outer, chain, history
<1>2. CASE Reveal(r)
  <2>1. shown' \in {"never", "parked", "tracked"}
    BY <1>2 DEF Reveal, ShownBy, WalletInv, Outer
  <2> QED
    BY <1>2, <2>1 DEF Reveal, WalletInv, Outer, chain, history
<1>3. CASE ComputeDrain(r) \/ BuildResweep(r)
  BY <1>3, LettingGoSteps
<1>4. CASE EvictCache(r)
  BY <1>4 DEF EvictCache, WalletInv, Outer, chain, history
<1>5. CASE ~(\/ InsertCache(r) \/ Reveal(r) \/ ComputeDrain(r) \/ BuildResweep(r) \/ EvictCache(r))
  <2>1. UNCHANGED <<chain, row, cached, proposals, shown, history>>
    BY <1>5 DEF Arrive, ReadRow, Touch, Sync, SyncRebuilt, SyncFails, RevealFirst, Build,
                BuildFails, Merge, Replace, RescanWalk
  <2> QED
    BY <2>1 DEF WalletInv, Outer, chain, history
<1> QED
  BY <1>1, <1>2, <1>3, <1>4, <1>5

-----------------------------------------------------------------------------
(* The invariant holds *)

LEMMA InitHolds == Init => WalletInv
<1> SUFFICES ASSUME Init
             PROVE  WalletInv
  OBVIOUS
<1>1. store \in [Instances -> Instance] /\ request \in [Requests -> Request]
  BY EmptyTypes DEF Init
<1>2. SlotsHold /\ FactsAccounted
  BY EmptyTypes DEF Init, SlotsHold, HasInstance, FactsAccounted
<1>3. MaxHeight \in Nat \ {0} /\ Heights = 1..MaxHeight
  BY WalletStoreAssumption DEF Heights
<1>4. /\ height \in 0..MaxHeight /\ version \in [Heights -> {1, 2}]
      /\ minedAt \in [Coins -> 0..MaxHeight]
  BY <1>3 DEF Init
<1> QED
  BY <1>1, <1>2, <1>4 DEF Init, WalletInv, MemoryInv, Outer

LEMMA RequestStep ==
  ASSUME WalletInv, NEW r \in Requests,
         \/ \E op \in Ops \ {"rescan"} : Arrive(r, op)
         \/ Load(r) \/ Touch(r) \/ Persist(r) \/ EvictCache(r)
         \/ RescanWalk(r) \/ RescanWrite(r) \/ Stop(r)
  PROVE  WalletInv'
<1>1. CASE \E op \in Ops \ {"rescan"} : Arrive(r, op)
  BY <1>1, ArriveStep, InnerSteps DEF WalletInv
<1>2. CASE Load(r)
  BY <1>2, ReadRowStep, WriteInitialStep, InsertCacheStep, InnerSteps, WritingSteps
     DEF WalletInv, Load
<1>3. CASE Touch(r)
  <2>1. MemoryInv'
    BY <1>3, LearningSteps, SyncRebuiltStep, SyncFailsStep, BuildFailsStep, DiscardingSteps
       DEF Touch
  <2> QED
    BY <1>3, <2>1, InnerSteps DEF WalletInv
<1>4. CASE Persist(r)
  <2>1. MemoryInv'
    BY <1>4, MergeStep, ReplaceStep, WriteStep, LeavingSteps DEF Persist
  <2>2. Outer'
    BY <1>4, InnerSteps, WritingSteps, LettingGoSteps, InsertProposalStep DEF Persist
  <2> QED
    BY <2>1, <2>2 DEF WalletInv
<1>5. CASE EvictCache(r) \/ Stop(r)
  BY <1>5, EvictCacheStep, StopStep, InnerSteps, LettingGoSteps DEF WalletInv
<1>6. CASE RescanWalk(r) \/ RescanWrite(r)
  BY <1>6, RescanWalkStep, LeavingSteps, InnerSteps, WritingSteps DEF WalletInv
<1> QED
  BY <1>1, <1>2, <1>3, <1>4, <1>5, <1>6

LEMMA OutsideStep ==
  ASSUME WalletInv, Outside
  PROVE  WalletInv'
<1>1. CASE Restart
  BY <1>1, RestartStep, LettingGoSteps DEF WalletInv
<1>2. CASE Mine \/ Reorg
  <2>1. UNCHANGED <<request, store>>
    BY <1>2 DEF Mine, Reorg
  <2> QED
    BY <1>2, <2>1, MemoryUntouched, ChainSteps DEF WalletInv
<1> QED
  BY <1>1, <1>2 DEF Outside

LEMMA WalletInvInductive == WalletInv /\ [Next]_vars => WalletInv'
<1> SUFFICES ASSUME WalletInv, [Next]_vars
             PROVE  WalletInv'
  OBVIOUS
<1>1. CASE Next
  BY <1>1, RequestStep, OutsideStep DEF Next
<1>2. CASE UNCHANGED vars
  <2>1. MemoryInv'
    BY <1>2, MemoryUntouched DEF WalletInv, vars
  <2>2. Outer'
    BY <1>2 DEF WalletInv, Outer, vars, chain, history
  <2> QED
    BY <2>1, <2>2 DEF WalletInv
<1> QED
  BY <1>1, <1>2

LEMMA WalletInvHolds == Spec => []WalletInv
<1> QED
  BY InitHolds, WalletInvInductive, PTL DEF Spec

\* Every variable keeps its type, for any number of operations and instances:
\* in particular every coin and block a request carries is one that exists.
THEOREM TypeCorrect == Spec => []TypeOK
<1> QED
  BY WalletInvHolds, InvImpliesType, PTL

\* Nothing a wallet learned slips away between its lock and the lock on the
\* aggregate, however operations, failures, hang-ups, rebuilds, evictions and
\* restarts interleave (wallet.rs, the seam of every operation).
THEOREM MemoryIsAccounted == Spec => []MemoryAccounted
<1> QED
  BY WalletInvHolds, InvImpliesAccounted, PTL
=============================================================================
