----------------------------- MODULE VaultProofs -----------------------------
(***************************************************************************)
(* The rosters of a lineage follow from one another and can sign, for any  *)
(* members, devices and requests: no interleaving of onboarding, creation, *)
(* migrations and version flips seats a member with another key, leaves a  *)
(* version without a quorum or a successor that its record does not        *)
(* explain.                                                                *)
(***************************************************************************)
EXTENDS Vault, FiniteSetTheorems, TLAPS

-----------------------------------------------------------------------------
(* The inductive invariant *)

\* The parts of RostersFollow, for one record of a version, stored or drafted.
SeatsSound(seats) ==
  \A u \in Users : seats[u] # NoDevice => HasSigner(u) /\ seats[u] = SignerOf(u)
HasQuorum(d) ==
  d.threshold \in 1..Cardinality({d.seats[u] : u \in {w \in Users : d.seats[w] # NoDevice}})
Explains(d, base) ==
  /\ \A u \in Users : /\ d.seats[u] # NoDevice <=> d.change[u] \in {"keep", "add"}
                      /\ base.seats[u] # NoDevice <=> d.change[u] \in {"keep", "remove"}
  /\ d.elements = base.elements

\* A draft that a migration carries to its store: sound, and still explained by
\* the base it was made from, whatever has happened to that one since.
DraftSound(q) ==
  /\ q.version \in Indices
  /\ q.draft[1] \in Version /\ q.draft[1].status = "pending"
  /\ SeatsSound(q.draft[1].seats) /\ HasQuorum(q.draft[1])
  /\ Explains(q.draft[1], versions[q.version])

\* Only a migration stores, and only what it drafted.
SlotSound(q) ==
  /\ {"op", "step", "version", "draft"} \subseteq DOMAIN q
  /\ q.step \in {"status", "build"} => q.op = "create"
  /\ q.step = "describe" => q.op \in {"create", "migrate"}
  /\ q.step \in {"store", "sweep", "open", "flip"} => q.op = "migrate"
  /\ q.op = "migrate" => DraftSound(q)

VersionsSound ==
  /\ \A v \in Indices : SeatsSound(versions[v].seats) /\ HasQuorum(versions[v])
  /\ \A v \in Indices \ {1} : Explains(versions[v], versions[v - 1])
SlotsSound == DOMAIN request = Requests /\ \A r \in Requests : SlotSound(request[r])

RosterInv == mix \in Mixes /\ RosterTypeOK /\ VersionsSound /\ SlotsSound

\* The invariant is what it was made for.
LEMMA RosterInvSuffices == RosterTypeOK => (VersionsSound <=> RostersFollow)
  BY DEF VersionsSound, RostersFollow, SeatsAreFirstKeys, QuorumExists, ChangesExplainRoster,
         SeatsSound, HasQuorum, Explains, IsMember, Members, Indices, RosterTypeOK

-----------------------------------------------------------------------------
(* Signers and builders *)

\* The oldest key at the path is one key, and stays the oldest.
LEMMA OnboardingKeepsSigners ==
  ASSUME RosterTypeOK, NEW u \in Users, NEW d \in Devices, NEW atPath \in BOOLEAN,
         Onboard(u, d, atPath)
  PROVE  /\ RosterTypeOK'
         /\ \A w \in Users : HasSigner(w) => HasSigner(w)' /\ SignerOf(w)' = SignerOf(w)
<1> DEFINE row == [device |-> d, atPath |-> atPath]
<1>1. row \in SignerRow
  BY DEF SignerRow
<1>2. signers[u] \in Seq(SignerRow)
  BY DEF RosterTypeOK
<1>3. signers' = [signers EXCEPT ![u] = Append(signers[u], row)]
  BY DEF Onboard
<1>4. Append(signers[u], row) \in Seq(SignerRow)
  BY <1>1, <1>2
<1>5. RosterTypeOK'
  BY <1>3, <1>4 DEF RosterTypeOK, Onboard
<1>6. ASSUME NEW w \in Users, HasSigner(w)
      PROVE  HasSigner(w)' /\ SignerOf(w)' = SignerOf(w)
  <2> DEFINE old == signers[w]
             new == signers'[w]
  <2>1. old \in Seq(SignerRow) /\ new \in Seq(SignerRow)
    BY <1>5 DEF RosterTypeOK
  <2>2. /\ DOMAIN old \subseteq DOMAIN new
        /\ \A i \in DOMAIN old : new[i] = old[i]
        /\ \A i \in DOMAIN new \ DOMAIN old : \A j \in DOMAIN old : j < i
    <3>1. CASE w = u
      <4>1. new = Append(old, row)
        BY <3>1, <1>3 DEF RosterTypeOK
      <4> QED
        BY <4>1, <2>1, <1>1
    <3>2. CASE w # u
      <4>1. new = old
        BY <3>2, <1>3 DEF RosterTypeOK
      <4> QED
        BY <4>1
    <3> QED
      BY <3>1, <3>2
  <2>3. HasSigner(w)'
    BY <1>6, <2>2 DEF HasSigner
  <2> DEFINE First(keys, i) == /\ i \in DOMAIN keys /\ keys[i].atPath
                               /\ \A j \in 1..(i - 1) : ~keys[j].atPath
  <2>4. \A i : First(new, i) <=> First(old, i)
    <3>1. PICK k \in DOMAIN old : old[k].atPath
      BY <1>6 DEF HasSigner
    <3>2. /\ DOMAIN old = 1..Len(old) /\ DOMAIN new = 1..Len(new)
          /\ Len(old) \in Nat /\ Len(new) \in Nat
      BY <2>1
    <3>3. \A i \in DOMAIN old : new[i].atPath <=> old[i].atPath
      BY <2>2
    <3>4. \A i \in DOMAIN new : First(new, i) => i \in DOMAIN old
      BY <3>1, <3>2, <3>3, <2>2
    <3>5. \A i \in DOMAIN old : \A j \in 1..(i - 1) : j \in DOMAIN old
      BY <3>2
    <3>6. \A i \in DOMAIN old : First(new, i) <=> First(old, i)
      BY <3>3, <3>5, <2>2
    <3> QED
      BY <3>4, <3>6
  <2>5. PICK i : First(old, i)
    <3>1. PICK k \in DOMAIN old : old[k].atPath
      BY <1>6 DEF HasSigner
    <3> DEFINE S == {n \in DOMAIN old : old[n].atPath}
    <3>2. S \subseteq Nat /\ k \in S
      BY <2>1, <3>1
    <3>3. PICK i \in S : \A n \in S : ~(<<n, i>> \in OpToRel(<, Nat))
      BY <3>2, WFMin, NatLessThanWellFounded
    <3>4. \A n \in S : ~(n < i)
      BY <3>2, <3>3 DEF OpToRel
    <3>5. \A j \in 1..(i - 1) : j \in DOMAIN old /\ j < i
      BY <2>1
    <3>6. \A j \in 1..(i - 1) : ~old[j].atPath
      BY <3>4, <3>5
    <3> QED
      BY <3>6
  <2>6. ASSUME NEW j, First(old, j)
        PROVE  j = i
    <3>1. i \in Nat /\ j \in Nat /\ i > 0 /\ j > 0
      BY <2>1, <2>5, <2>6
    <3>2. ~(i < j) /\ ~(j < i)
      BY <3>1, <2>5, <2>6
    <3> QED
      BY <3>1, <3>2
  <2>7. (CHOOSE n \in DOMAIN old : First(old, n)) = i
    BY <2>5, <2>6
  <2>8. (CHOOSE n \in DOMAIN new : First(new, n)) = i
    BY <2>4, <2>5, <2>6
  <2>9. SignerOf(w) = old[i].device /\ SignerOf(w)' = new[i].device
    BY <2>7, <2>8 DEF SignerOf, FirstAtPath
  <2> QED
    BY <2>3, <2>9, <2>2, <2>5
<1> QED
  BY <1>5, <1>6

\* So whatever was sound before a key is onboarded is sound after.
LEMMA SeatsSurviveOnboarding ==
  ASSUME NEW seats, SeatsSound(seats),
         \A w \in Users : HasSigner(w) => HasSigner(w)' /\ SignerOf(w)' = SignerOf(w)
  PROVE  SeatsSound(seats)'
  BY DEF SeatsSound

\* A key at the path is of a real device.
LEMMA SignerIsDevice ==
  ASSUME RosterTypeOK, NEW u \in Users, HasSigner(u)
  PROVE  SignerOf(u) \in Devices
<1>1. PICK i \in DOMAIN signers[u] : signers[u][i].atPath
  BY DEF HasSigner
<1>2. signers[u] \in Seq(SignerRow)
  BY DEF RosterTypeOK
<1> DEFINE S == {n \in DOMAIN signers[u] : signers[u][n].atPath}
<1>3. S \subseteq Nat /\ i \in S
  BY <1>1, <1>2
<1>4. PICK k \in S : \A n \in S : ~(<<n, k>> \in OpToRel(<, Nat))
  BY <1>3, WFMin, NatLessThanWellFounded
<1>5. \A n \in S : ~(n < k)
  BY <1>3, <1>4 DEF OpToRel
<1>6. \A j \in 1..(k - 1) : j \in DOMAIN signers[u] /\ j < k
  BY <1>2
<1>7. FirstAtPath(u, k)
  BY <1>5, <1>6 DEF FirstAtPath
<1>8. (CHOOSE n \in DOMAIN signers[u] : FirstAtPath(u, n)) \in DOMAIN signers[u]
  BY <1>7
<1>9. \A n \in DOMAIN signers[u] : signers[u][n] \in SignerRow
  BY <1>2
<1>10. \A n \in DOMAIN signers[u] : signers[u][n].device \in Devices
  BY <1>9 DEF SignerRow
<1> QED
  BY <1>8, <1>10 DEF SignerOf

\* The seats resolve_member_signers fills are sound, and are filled for exactly
\* the members it was asked for.
LEMMA ResolvedSound ==
  ASSUME RosterTypeOK, NEW members \in SUBSET Users, \A u \in members : HasSigner(u)
  PROVE  /\ Resolved(members) \in [Users -> Devices \cup {NoDevice}]
         /\ SeatsSound(Resolved(members))
         /\ \A u \in Users : Resolved(members)[u] # NoDevice <=> u \in members
<1>1. \A u \in members : SignerOf(u) \in Devices /\ SignerOf(u) # NoDevice
  BY SignerIsDevice, RosterAssumption
<1> QED
  BY <1>1 DEF Resolved, SeatsSound

\* Seats a builder accepts are as many devices as members, so a threshold that
\* was validated against the members is one the devices can meet.
LEMMA AcceptedHaveQuorum ==
  ASSUME NEW members \in SUBSET Users, NEW d,
         \A u \in Users : d.seats[u] # NoDevice <=> u \in members,
         BuilderAccepts(d.seats), d.threshold \in Nat, ValidThreshold(d.threshold, members)
  PROVE  HasQuorum(d)
<1> DEFINE devices == {d.seats[u] : u \in members}
           f == [u \in members |-> d.seats[u]]
<1>1. {w \in Users : d.seats[w] # NoDevice} = members
  OBVIOUS
<1>2. IsFiniteSet(members)
  BY RosterAssumption, FS_Subset
<1>3. f \in [members -> devices]
  OBVIOUS
<1>4. IsInjective(f)
  BY DEF IsInjective, BuilderAccepts
<1>5. f \in Bijection(members, devices)
  BY <1>3, <1>4 DEF Bijection, Injection, Surjection
<1>6. Cardinality(devices) = Cardinality(members)
  BY <1>2, <1>5, FS_Bijection DEF ExistsBijection
<1>7. Cardinality(members) \in Nat
  BY <1>2, FS_CardinalityType
<1>8. d.threshold \in 1..Cardinality(devices)
  BY <1>6, <1>7 DEF ValidThreshold
<1> QED
  BY <1>1, <1>8 DEF HasQuorum

\* What a migration drafts is sound and explained by its base.
LEMMA DraftsAreSound ==
  ASSUME RosterTypeOK, NEW base \in Indices, NEW add \in SUBSET Users,
         NEW remove \in SUBSET Users, NEW m \in Nat, NEW d \in Drafts(base, add, remove, m)
  PROVE  /\ d \in Version /\ SeatsSound(d.seats) /\ HasQuorum(d)
         /\ Explains(d, versions[base]) /\ d.status = "pending"
<1> DEFINE change == Plan(base, add, remove)
           next == {u \in Users : change[u] \in {"keep", "add"}}
<1>1. /\ d = Successor(base, m, change)
      /\ ValidThreshold(m, next) /\ \A w \in next : HasSigner(w)
      /\ BuilderAccepts(d.seats)
  BY DEF Drafts
<1>2. versions[base] \in Version
  BY DEF RosterTypeOK, Indices
<1>3. d.seats = Resolved(next) /\ d.threshold = m /\ d.change = change
      /\ d.elements = versions[base].elements /\ d.status = "pending"
  BY <1>1 DEF Successor
<1>4. /\ Resolved(next) \in [Users -> Devices \cup {NoDevice}]
      /\ SeatsSound(Resolved(next))
      /\ \A u \in Users : Resolved(next)[u] # NoDevice <=> u \in next
  BY <1>1, ResolvedSound
<1>5. change \in [Users -> {"none", "keep", "add", "remove"}]
  BY DEF Plan
<1>6. d \in Version
  BY <1>1, <1>2, <1>4, <1>5 DEF Successor, Version
<1>7. HasQuorum(d)
  BY <1>1, <1>3, <1>4, AcceptedHaveQuorum
<1>8. \A u \in Users : /\ d.seats[u] # NoDevice <=> d.change[u] \in {"keep", "add"}
                       /\ versions[base].seats[u] # NoDevice <=> d.change[u] \in {"keep", "remove"}
  BY <1>3, <1>4 DEF Plan, IsMember
<1> QED
  BY <1>3, <1>4, <1>6, <1>7, <1>8 DEF Explains

-----------------------------------------------------------------------------
(* Versions *)

\* A rewrite of statuses, which is all that flips and cancellations do.
SameRosters(vs, ws) ==
  /\ DOMAIN ws = DOMAIN vs
  /\ \A v \in DOMAIN vs : /\ ws[v].seats = vs[v].seats /\ ws[v].threshold = vs[v].threshold
                          /\ ws[v].change = vs[v].change /\ ws[v].elements = vs[v].elements

LEMMA VersionWithStatus ==
  ASSUME NEW d \in Version, NEW status \in {"pending", "active", "superseded", "abandoned"}
  PROVE  LET e == [d EXCEPT !.status = status]
         IN  /\ e \in Version /\ e.seats = d.seats /\ e.threshold = d.threshold
             /\ e.change = d.change /\ e.elements = d.elements
  BY DEF Version

LEMMA VersionWithMigration ==
  ASSUME NEW d \in Version, NEW migration \in {"none", "proposed", "enacted", "cancelled"}
  PROVE  LET e == [d EXCEPT !.migration = migration]
         IN  /\ e \in Version /\ e.seats = d.seats /\ e.threshold = d.threshold
             /\ e.change = d.change /\ e.elements = d.elements
  BY DEF Version

LEMMA RewrittenVersion ==
  ASSUME NEW vs \in Seq(Version), NEW v, NEW d,
         v \in DOMAIN vs => /\ d \in Version
                            /\ d.seats = vs[v].seats /\ d.threshold = vs[v].threshold
                            /\ d.change = vs[v].change /\ d.elements = vs[v].elements
  PROVE  LET ws == [vs EXCEPT ![v] = d]
         IN  ws \in Seq(Version) /\ SameRosters(vs, ws) /\ Len(ws) = Len(vs)
<1> DEFINE ws == [vs EXCEPT ![v] = d]
<1>1. vs \in [1..Len(vs) -> Version] /\ Len(vs) \in Nat
  OBVIOUS
<1>2. \A x \in DOMAIN vs : ws[x] = IF x = v THEN d ELSE vs[x]
  BY <1>1
<1>3. ws \in [1..Len(vs) -> Version]
  BY <1>1, <1>2
<1>4. ws \in Seq(Version) /\ Len(ws) = Len(vs)
  BY <1>1, <1>3
<1>5. SameRosters(vs, ws)
  BY <1>1, <1>2, <1>3 DEF SameRosters
<1> QED
  BY <1>4, <1>5

LEMMA SameRostersAdd ==
  ASSUME NEW vs, NEW ws, NEW xs, SameRosters(vs, ws), SameRosters(ws, xs)
  PROVE  SameRosters(vs, xs)
  BY DEF SameRosters

LEMMA FlippedKeepsRosters ==
  ASSUME NEW vs \in Seq(Version), NEW v
  PROVE  /\ Flipped(vs, v) \in Seq(Version) /\ SameRosters(vs, Flipped(vs, v))
         /\ Len(Flipped(vs, v)) = Len(vs)
<1> DEFINE a == [vs EXCEPT ![v - 1] = [vs[v - 1] EXCEPT !.status = "superseded"]]
           b == [a EXCEPT ![v] = [a[v] EXCEPT !.status = "active"]]
           c == [b EXCEPT ![v] = [b[v] EXCEPT !.migration = "enacted"]]
<1> HIDE DEF a, b, c
<1>1. Flipped(vs, v) = c
  BY DEF Flipped, a, b, c
<1>2. a \in Seq(Version) /\ SameRosters(vs, a) /\ Len(a) = Len(vs)
  <2>1. v - 1 \in DOMAIN vs => vs[v - 1] \in Version
    OBVIOUS
  <2> QED
    BY <2>1, VersionWithStatus, RewrittenVersion DEF a
<1>3. b \in Seq(Version) /\ SameRosters(a, b) /\ Len(b) = Len(a)
  <2>1. v \in DOMAIN a => a[v] \in Version
    BY <1>2
  <2> QED
    BY <2>1, <1>2, VersionWithStatus, RewrittenVersion DEF b
<1>4. c \in Seq(Version) /\ SameRosters(b, c) /\ Len(c) = Len(b)
  <2>1. v \in DOMAIN b => b[v] \in Version
    BY <1>3
  <2> QED
    BY <2>1, <1>3, VersionWithMigration, RewrittenVersion DEF c
<1> QED
  BY <1>1, <1>2, <1>3, <1>4, SameRostersAdd

LEMMA CancelledKeepsRosters ==
  ASSUME versions \in Seq(Version), NEW v \in Indices
  PROVE  /\ Cancelled(v) \in Seq(Version) /\ SameRosters(versions, Cancelled(v))
         /\ Len(Cancelled(v)) = Len(versions)
<1> DEFINE a == [versions EXCEPT ![v] = [versions[v] EXCEPT !.migration = "cancelled"]]
           status == IF a[v].status = "pending" THEN "abandoned" ELSE a[v].status
           b == [a EXCEPT ![v] = [a[v] EXCEPT !.status = status]]
<1> HIDE DEF a, b, status
<1>1. Cancelled(v) = b
  BY DEF Cancelled, a, b, status
<1>2. a \in Seq(Version) /\ SameRosters(versions, a) /\ Len(a) = Len(versions)
  <2>1. versions[v] \in Version
    BY DEF Indices
  <2> QED
    BY <2>1, VersionWithMigration, RewrittenVersion DEF a
<1>3. b \in Seq(Version) /\ SameRosters(a, b) /\ Len(b) = Len(a)
  <2>1. a[v] \in Version
    BY <1>2 DEF Indices, SameRosters
  <2>2. status \in {"pending", "active", "superseded", "abandoned"}
    BY <2>1 DEF Version, status
  <2>3. b = [a EXCEPT ![v] = [a[v] EXCEPT !.status = status]]
    BY DEF b
  <2> QED
    BY <2>1, <2>2, <2>3, <1>2, VersionWithStatus, RewrittenVersion
<1> QED
  BY <1>1, <1>2, <1>3, SameRostersAdd

LEMMA SameQuorum ==
  ASSUME NEW d, NEW e, d.seats = e.seats, d.threshold = e.threshold
  PROVE  HasQuorum(d) <=> HasQuorum(e)
  BY DEF HasQuorum

\* Rewriting statuses disturbs nothing, neither of the versions nor of drafts.
LEMMA StatusesDisturbNothing ==
  ASSUME RosterTypeOK, VersionsSound, versions' \in Seq(Version), Len(versions') = Len(versions),
         SameRosters(versions, versions'), UNCHANGED signers
  PROVE  /\ RosterTypeOK' /\ VersionsSound'
         /\ \A q : SlotSound(q) => SlotSound(q)'
<1>1. DOMAIN versions = 1..Len(versions) /\ DOMAIN versions' = DOMAIN versions
      /\ Len(versions) \in Nat
  BY DEF RosterTypeOK, SameRosters
<1>2. RosterTypeOK'
  BY DEF RosterTypeOK
<1>3. \A seats : SeatsSound(seats)' <=> SeatsSound(seats)
  BY DEF SeatsSound, HasSigner, SignerOf, FirstAtPath
<1>4. ASSUME NEW v \in Indices
      PROVE  /\ HasQuorum(versions'[v]) <=> HasQuorum(versions[v])
             /\ versions'[v].seats = versions[v].seats
  <2>1. versions'[v].seats = versions[v].seats /\ versions'[v].threshold = versions[v].threshold
    BY DEF SameRosters, Indices
  <2> QED
    BY <2>1, SameQuorum
<1>5. \A v \in Indices : \A d : Explains(d, versions[v])' <=> Explains(d, versions[v])
  BY DEF Explains, SameRosters, Indices
<1>6. \A v \in Indices \ {1} : v - 1 \in Indices
  BY <1>1 DEF Indices
<1>7. \A v \in Indices \ {1} : Explains(versions[v], versions[v - 1])' <=> Explains(versions[v], versions[v - 1])
  BY <1>6 DEF Explains, SameRosters, Indices
<1>8. VersionsSound'
  BY <1>1, <1>3, <1>4, <1>7 DEF VersionsSound, Indices
<1>9. ASSUME NEW q, SlotSound(q)
      PROVE  SlotSound(q)'
  <2>1. DraftSound(q) => DraftSound(q)'
    BY <1>1, <1>3, <1>5 DEF DraftSound, Indices, HasQuorum
  <2> QED
    BY <1>9, <2>1 DEF SlotSound
<1> QED
  BY <1>2, <1>8, <1>9

LEMMA OnboardingDisturbsNothing ==
  ASSUME RosterTypeOK, VersionsSound, NEW u \in Users, NEW d \in Devices,
         NEW atPath \in BOOLEAN, Onboard(u, d, atPath)
  PROVE  /\ RosterTypeOK' /\ VersionsSound'
         /\ \A q : SlotSound(q) => SlotSound(q)'
<1>1. RosterTypeOK' /\ versions' = versions
  BY OnboardingKeepsSigners DEF Onboard
<1>2. \A w \in Users : HasSigner(w) => HasSigner(w)' /\ SignerOf(w)' = SignerOf(w)
  BY OnboardingKeepsSigners
<1>3. \A seats : SeatsSound(seats) => SeatsSound(seats)'
  BY <1>2, SeatsSurviveOnboarding
<1>4. VersionsSound'
  BY <1>1, <1>3 DEF VersionsSound, Indices, HasQuorum, Explains
<1>5. \A q : DraftSound(q) => DraftSound(q)'
  BY <1>1, <1>3 DEF DraftSound, Indices, HasQuorum, Explains
<1> QED
  BY <1>1, <1>4, <1>5 DEF SlotSound

LEMMA SameExplanation ==
  ASSUME NEW d, NEW e, NEW base, NEW other, d.seats = e.seats, d.change = e.change,
         d.elements = e.elements, base.seats = other.seats, base.elements = other.elements
  PROVE  Explains(d, base) <=> Explains(e, other)
  BY DEF Explains

\* A draft is stored on top of the version it was made from, and may take over
\* at once.
LEMMA StoringIsSound ==
  ASSUME RosterTypeOK, VersionsSound, NEW base \in Indices, Storable(base),
         NEW d \in Version, SeatsSound(d.seats), HasQuorum(d), Explains(d, versions[base]),
         versions' \in Seq(Version), Len(versions') = Len(versions) + 1,
         SameRosters(Append(versions, d), versions'), UNCHANGED signers
  PROVE  /\ RosterTypeOK' /\ VersionsSound'
         /\ \A q : SlotSound(q) => SlotSound(q)'
<1> DEFINE stored == Append(versions, d)
<1>1. /\ versions \in Seq(Version) /\ Len(versions) \in Nat /\ base = Len(versions)
      /\ Len(versions) < LastVersion /\ LastVersion \in Nat
  BY RosterAssumption DEF RosterTypeOK, Storable
<1>2. /\ DOMAIN stored = 1..(base + 1) /\ DOMAIN versions = 1..base
      /\ stored[base + 1] = d /\ \A v \in 1..base : stored[v] = versions[v]
  BY <1>1
<1>3. /\ DOMAIN versions' = 1..(base + 1)
      /\ \A v \in 1..(base + 1) :
           /\ versions'[v].seats = stored[v].seats
           /\ versions'[v].threshold = stored[v].threshold
           /\ versions'[v].change = stored[v].change
           /\ versions'[v].elements = stored[v].elements
  BY <1>2 DEF SameRosters
<1> HIDE DEF stored
<1>4. RosterTypeOK'
  BY <1>1 DEF RosterTypeOK
<1>5. \A seats : SeatsSound(seats)' <=> SeatsSound(seats)
  BY DEF SeatsSound, HasSigner, SignerOf, FirstAtPath
<1>6. ASSUME NEW v \in 1..(base + 1)
      PROVE  /\ SeatsSound(stored[v].seats) /\ HasQuorum(stored[v])
             /\ v # 1 => v - 1 \in 1..base /\ Explains(stored[v], stored[v - 1])
  <2>1. CASE v = base + 1
    <3>1. v # 1 => v - 1 = base /\ base \in 1..base
      BY <2>1, <1>1
    <3> QED
      BY <2>1, <3>1, <1>1, <1>2
  <2>2. CASE v # base + 1
    <3>1. v \in 1..base /\ (v # 1 => v - 1 \in 1..base)
      BY <2>2, <1>1
    <3> QED
      BY <3>1, <1>2 DEF VersionsSound, Indices
  <2> QED
    BY <2>1, <2>2
<1>7. ASSUME NEW v \in 1..(base + 1)
      PROVE  /\ SeatsSound(versions'[v].seats) /\ HasQuorum(versions'[v])
             /\ v # 1 => Explains(versions'[v], versions'[v - 1])
  <2>1. SeatsSound(versions'[v].seats) /\ HasQuorum(versions'[v])
    BY <1>3, <1>6, SameQuorum
  <2>2. ASSUME v # 1
        PROVE  Explains(versions'[v], versions'[v - 1])
    <3>1. v - 1 \in 1..(base + 1) /\ Explains(stored[v], stored[v - 1])
      BY <2>2, <1>1, <1>6
    <3> QED
      BY <3>1, <1>3, SameExplanation
  <2> QED
    BY <2>1, <2>2
<1>8. VersionsSound'
  <2>1. \A v \in 1..(base + 1) : SeatsSound(versions[v].seats)'
    BY <1>5, <1>7
  <2> QED
    BY <1>3, <1>7, <2>1 DEF VersionsSound, Indices
<1>9. ASSUME NEW q, DraftSound(q)
      PROVE  DraftSound(q)'
  <2>1. q.version \in 1..base /\ Explains(q.draft[1], versions[q.version])
    BY <1>2, <1>9 DEF DraftSound, Indices
  <2>2. q.version \in 1..(base + 1) /\ Explains(q.draft[1], versions'[q.version])
    <3>1. q.version \in 1..(base + 1) /\ stored[q.version] = versions[q.version]
      BY <2>1, <1>1, <1>2
    <3> QED
      BY <2>1, <3>1, <1>3, SameExplanation
  <2> QED
    BY <2>2, <1>3, <1>5, <1>9 DEF DraftSound, Indices
<1> QED
  BY <1>4, <1>8, <1>9 DEF SlotSound

-----------------------------------------------------------------------------
(* Slots *)

\* What the step of a slot says of its operation.
StepSound(op, step) ==
  /\ step \in {"status", "build"} => op = "create"
  /\ step = "describe" => op \in {"create", "migrate"}
  /\ step \in {"store", "sweep", "open", "flip"} => op = "migrate"

\* A handler's step keeps who asked for what.
LEMMA SlotKept ==
  ASSUME NEW q, SlotSound(q), NEW s, DOMAIN s = DOMAIN q,
         s.op = q.op, s.version = q.version, s.draft = q.draft, StepSound(s.op, s.step)
  PROVE  SlotSound(s)
  BY DEF SlotSound, StepSound, DraftSound

LEMMA IdleSound == SlotSound(Idle)
  BY DEF SlotSound, Idle

LEMMA NewSlotSound ==
  ASSUME NEW r, NEW op, op # "migrate", NEW u, NEW v, NEW chain, NEW step, StepSound(op, step)
  PROVE  LET s == Slot(r, op, u, v, chain, step)
         IN  /\ SlotSound(s) /\ s.op = op /\ s.version = v /\ s.step = step
             /\ {"asset", "amount", "to", "listed"} \subseteq DOMAIN s
  BY DEF Slot, Idle, SlotSound, StepSound

LEMMA NoticingSound ==
  ASSUME SlotsSound, NEW now
  PROVE  DOMAIN Noticing(now) = Requests /\ \A q \in Requests : SlotSound(Noticing(now)[q])
<1>1. DOMAIN Noticing(now) = Requests
  BY DEF Noticing
<1>2. ASSUME NEW q \in Requests
      PROVE  SlotSound(Noticing(now)[q])
  <2> DEFINE s == Noticing(now)[q]
  <2>1. \/ s = request[q]
        \/ \E x : s = [request[q] EXCEPT !.moved = x]
    BY DEF Noticing
  <2>2. /\ DOMAIN s = DOMAIN request[q] /\ s.op = request[q].op /\ s.step = request[q].step
        /\ s.version = request[q].version /\ s.draft = request[q].draft
    BY <2>1 DEF SlotsSound, SlotSound
  <2>3. SlotSound(request[q])
    BY DEF SlotsSound
  <2>4. StepSound(s.op, s.step)
    BY <2>2, <2>3 DEF SlotSound, StepSound
  <2> QED
    BY <2>2, <2>3, <2>4, SlotKept
<1> QED
  BY <1>1, <1>2

LEMMA WitnessingSound ==
  ASSUME SlotsSound, NEW vs
  PROVE  DOMAIN Witnessing(vs) = Requests /\ \A q \in Requests : SlotSound(Witnessing(vs)[q])
<1>1. DOMAIN Witnessing(vs) = Requests
  BY DEF Witnessing
<1>2. ASSUME NEW q \in Requests
      PROVE  SlotSound(Witnessing(vs)[q])
  <2> DEFINE s == Witnessing(vs)[q]
  <2>1. \/ s = Idle
        \/ \E x : s = [request[q] EXCEPT !.heads = x]
    BY DEF Witnessing
  <2>2. CASE s = Idle
    BY <2>2, IdleSound
  <2>3. CASE \E x : s = [request[q] EXCEPT !.heads = x]
    <3>1. /\ DOMAIN s = DOMAIN request[q] /\ s.op = request[q].op /\ s.step = request[q].step
          /\ s.version = request[q].version /\ s.draft = request[q].draft
      BY <2>3 DEF SlotsSound, SlotSound
    <3>2. SlotSound(request[q])
      BY DEF SlotsSound
    <3>3. StepSound(s.op, s.step)
      BY <3>1, <3>2 DEF SlotSound, StepSound
    <3> QED
      BY <3>1, <3>2, <3>3, SlotKept
  <2> QED
    BY <2>1, <2>2, <2>3
<1> QED
  BY <1>1, <1>2

\* The slots of the next state, judged by the rosters of this one.
NextSlotsSound == DOMAIN request' = Requests /\ \A q \in Requests : SlotSound(request'[q])

LEMMA SlotsUntouched ==
  ASSUME SlotsSound, UNCHANGED request
  PROVE  NextSlotsSound
  BY DEF SlotsSound, NextSlotsSound

LEMMA OneSlotSteps ==
  ASSUME SlotsSound, NEW r \in Requests, NEW next, SlotSound(next), Step(r, next)
  PROVE  NextSlotsSound
  BY DEF SlotsSound, NextSlotsSound, Step

LEMMA OneSlotSyncs ==
  ASSUME SlotsSound, NEW r \in Requests, NEW now, NEW next, SlotSound(next),
         SyncAnd(r, now, next)
  PROVE  NextSlotsSound
  BY NoticingSound DEF NextSlotsSound, SyncAnd

\* As long as no row of the rosters is written, sound slots are all it takes.
LEMMA RostersUntouched ==
  ASSUME RosterInv, UNCHANGED <<mix, rosterVars>>, NextSlotsSound
  PROVE  RosterInv'
<1>1. RosterTypeOK' /\ mix' \in Mixes
  BY DEF RosterInv, RosterTypeOK, rosterVars
<1>2. \A seats : SeatsSound(seats)' <=> SeatsSound(seats)
  BY DEF SeatsSound, HasSigner, SignerOf, FirstAtPath, rosterVars
<1>3. VersionsSound'
  BY <1>2 DEF RosterInv, VersionsSound, Indices, rosterVars
<1>4. \A q : DraftSound(q) => DraftSound(q)'
  BY <1>2 DEF DraftSound, Indices, rosterVars
<1>5. \A q : SlotSound(q) => SlotSound(q)'
  BY <1>4 DEF SlotSound
<1>6. SlotsSound'
  BY <1>5 DEF NextSlotsSound, SlotsSound
<1> QED
  BY <1>1, <1>3, <1>6 DEF RosterInv

-----------------------------------------------------------------------------
(* Steps that write no row of the rosters *)

LEMMA MigrateStep ==
  ASSUME RosterInv, NEW r \in Requests, NEW u \in Users, NEW base \in Indices,
         NEW add \in SUBSET Users, NEW remove \in SUBSET Users, NEW m \in Nat,
         Migrate(r, u, base, add, remove, m)
  PROVE  RosterInv'
<1> USE DEF RosterInv
<1> DEFINE slot(draft) == [Slot(r, "migrate", u, base, "bitcoin", "describe") EXCEPT
                             !.draft = <<draft>>]
           synced == [c \in DOMAIN coins |-> Synced(base, Chain(coins[c].asset))[c]]
           seen(a) == {c \in DOMAIN coins : /\ synced[c].owner = base /\ synced[c].asset = a
                                            /\ synced[c].seen \in {"untrusted", "trusted"}}
           onBoth(draft) == [slot(draft) EXCEPT
                               !.step = "store", !.inputs = UNION {seen(a) : a \in Assets},
                               !.funded = {chain \in Chains : seen(Policy(chain)) # {}}]
           onOne(draft, inputs) == [slot(draft) EXCEPT !.inputs = inputs,
                                                       !.funded = {"bitcoin"}]
<1>1. PICK draft \in Drafts(base, add, remove, m) :
        \/ SyncAnd(r, synced, onBoth(draft))
        \/ \E inputs \in Drains(Held(base, "BTC")) : Step(r, onOne(draft, inputs))
  BY DEF Migrate
<1>2. /\ draft \in Version /\ SeatsSound(draft.seats) /\ HasQuorum(draft)
      /\ Explains(draft, versions[base]) /\ draft.status = "pending"
  BY DraftsAreSound
<1>3. ASSUME NEW s, {"op", "step", "version", "draft"} \subseteq DOMAIN s, s.op = "migrate",
             s.version = base, s.draft[1] = draft, s.step \in {"describe", "store"}
      PROVE  SlotSound(s)
  BY <1>2, <1>3 DEF SlotSound, DraftSound
<1>4. /\ {"op", "step", "version", "draft", "inputs", "funded"} \subseteq DOMAIN slot(draft)
      /\ slot(draft).op = "migrate" /\ slot(draft).version = base
      /\ slot(draft).draft = <<draft>> /\ slot(draft).step = "describe"
  BY DEF Slot, Idle
<1>5. slot(draft).draft[1] = draft
  BY <1>4
<1> HIDE DEF slot, synced, seen
<1>6. SlotSound(onBoth(draft))
  <2>1. /\ {"op", "step", "version", "draft"} \subseteq DOMAIN onBoth(draft)
        /\ onBoth(draft).op = "migrate" /\ onBoth(draft).version = base
        /\ onBoth(draft).draft = slot(draft).draft /\ onBoth(draft).step = "store"
    BY <1>4
  <2> HIDE DEF onBoth
  <2> QED
    BY <1>3, <1>5, <2>1
<1>7. ASSUME NEW inputs
      PROVE  SlotSound(onOne(draft, inputs))
  <2>1. /\ {"op", "step", "version", "draft"} \subseteq DOMAIN onOne(draft, inputs)
        /\ onOne(draft, inputs).op = "migrate" /\ onOne(draft, inputs).version = base
        /\ onOne(draft, inputs).draft = slot(draft).draft
        /\ onOne(draft, inputs).step = "describe"
    BY <1>4
  <2> HIDE DEF onOne
  <2> QED
    BY <1>3, <1>5, <2>1
<1> HIDE DEF onBoth, onOne
<1>8. NextSlotsSound
  BY <1>1, <1>6, <1>7, OneSlotSteps, OneSlotSyncs
<1> QED
  BY <1>8, RostersUntouched DEF Migrate

LEMMA CreationSteps ==
  ASSUME RosterInv, NEW r \in Requests,
         CheckStatus(r) \/ Build(r) \/ Describe(r) \/ InsertProposal(r)
  PROVE  RosterInv'
<1> USE DEF RosterInv
<1>1. SlotSound(request[r])
  BY DEF SlotsSound
<1> DEFINE q == request[r]
<1>2. ASSUME NEW next, DOMAIN next = DOMAIN q, next.op = q.op, next.version = q.version,
             next.draft = q.draft, StepSound(q.op, next.step), Step(r, next)
      PROVE  NextSlotsSound
  BY <1>1, <1>2, SlotKept, OneSlotSteps
<1>3. CASE CheckStatus(r)
  <2> DEFINE next == [q EXCEPT !.current = Current, !.step = "build"]
  <2>1. q.op = "create"
    BY <1>1, <1>3 DEF SlotSound, CheckStatus, Holds
  <2>2. /\ DOMAIN next = DOMAIN q /\ next.op = q.op /\ next.version = q.version
        /\ next.draft = q.draft /\ next.step = "build"
    BY <1>1 DEF SlotSound
  <2>3. Step(r, next)
    BY <1>3 DEF CheckStatus
  <2>4. NextSlotsSound
    BY <1>2, <2>1, <2>2, <2>3 DEF StepSound
  <2> QED
    BY <1>3, <2>4, RostersUntouched DEF CheckStatus
<1>4. CASE Build(r)
  <2>1. q.op = "create"
    BY <1>1, <1>4 DEF SlotSound, Build, Holds
  <2>2. CASE Step(r, Idle)
    <3>1. NextSlotsSound
      BY <2>2, IdleSound, OneSlotSteps
    <3> QED
      BY <1>4, <3>1, RostersUntouched DEF Build
  <2> DEFINE drained == q.asset = "BTC" /\ ~IsCurrentSigner(q.user, q.current)
             built(inputs) ==
               [q EXCEPT
                  !.inputs = inputs, !.amount = IF drained THEN 0 ELSE @,
                  !.total = IF q.chain = "elements" /\ q.amount = 0 THEN Value(inputs) ELSE 0,
                  !.step = IF q.chain = "bitcoin" THEN "describe" ELSE "insert"]
  <2>3. CASE \E inputs \in Selectable(r) : Step(r, built(inputs))
    <3>1. PICK inputs : Step(r, built(inputs))
      BY <2>3
    <3>2. /\ DOMAIN built(inputs) = DOMAIN q /\ built(inputs).op = q.op
          /\ built(inputs).version = q.version /\ built(inputs).draft = q.draft
          /\ built(inputs).step \in {"describe", "insert"}
      BY <1>1 DEF SlotSound
    <3>3. StepSound(q.op, built(inputs).step)
      BY <2>1, <3>2 DEF StepSound
    <3> HIDE DEF built
    <3>4. NextSlotsSound
      BY <1>2, <3>1, <3>2, <3>3
    <3> QED
      BY <1>4, <3>4, RostersUntouched DEF Build
  <2>4. Step(r, Idle) \/ \E inputs \in Selectable(r) : Step(r, built(inputs))
    BY <1>4 DEF Build
  <2> QED
    BY <2>2, <2>3, <2>4
<1>5. CASE Describe(r)
  <2> DEFINE total == Value(q.inputs \cap Held(q.version, "BTC"))
             step  == Described(q)
             next  == [q EXCEPT !.total = total, !.step = step]
  <2>1. q.op \in {"create", "migrate"}
    BY <1>1, <1>5 DEF SlotSound, Describe, Holds
  <2>2. /\ DOMAIN next = DOMAIN q /\ next.op = q.op /\ next.version = q.version
        /\ next.draft = q.draft /\ next.step = step
    BY <1>1 DEF SlotSound
  <2>3. Step(r, next)
    BY <1>5 DEF Describe
  <2>4. StepSound(q.op, next.step)
    BY <2>1, <2>2 DEF StepSound, Described
  <2> HIDE DEF next
  <2>5. NextSlotsSound
    BY <1>2, <2>2, <2>3, <2>4
  <2> QED
    BY <1>5, <2>5, RostersUntouched DEF Describe
<1>6. CASE InsertProposal(r)
  <2>1. NextSlotsSound
    BY <1>6, IdleSound, OneSlotSteps DEF InsertProposal
  <2> QED
    BY <1>6, <2>1, RostersUntouched DEF InsertProposal
<1> QED
  BY <1>3, <1>4, <1>5, <1>6

\* The sweeps of a stored version, and requests that end before they are done.
LEMMA SweepSteps ==
  ASSUME RosterInv, NEW r \in Requests,
         BuildSweep(r) \/ OpenSweep(r) \/ SweepFails(r) \/ Stop(r)
  PROVE  RosterInv'
<1> USE DEF RosterInv
<1> DEFINE q == request[r]
<1>1. SlotSound(q)
  BY DEF SlotsSound
<1>2. UNCHANGED <<mix, rosterVars>>
  BY DEF BuildSweep, OpenSweep, SweepFails, Stop
<1>3. ASSUME NEW next, DOMAIN next = DOMAIN q, next.op = q.op, next.version = q.version,
             next.draft = q.draft, StepSound(q.op, next.step), Step(r, next)
      PROVE  NextSlotsSound
  BY <1>1, <1>3, SlotKept, OneSlotSteps
<1>4. CASE Step(r, Idle)
  BY <1>2, <1>4, IdleSound, OneSlotSteps, RostersUntouched
<1>5. CASE BuildSweep(r)
  <2> DEFINE onElements(inputs) ==
               [q EXCEPT !.chain = "elements", !.inputs = inputs,
                  !.total = Value(inputs \cap Held(q.version, "L-BTC")), !.step = "open"]
             onBitcoin(inputs) ==
               [q EXCEPT !.chain = "bitcoin", !.inputs = inputs, !.step = "describe"]
  <2>1. q.op = "migrate"
    BY <1>1, <1>5 DEF SlotSound, BuildSweep, Holds
  <2>2. PICK inputs : Step(r, onElements(inputs)) \/ Step(r, onBitcoin(inputs))
    BY <1>5 DEF BuildSweep
  <2>3. \A next \in {onElements(inputs), onBitcoin(inputs)} :
          /\ DOMAIN next = DOMAIN q /\ next.op = q.op /\ next.version = q.version
          /\ next.draft = q.draft /\ next.step \in {"open", "describe"}
    BY <1>1 DEF SlotSound
  <2> HIDE DEF onElements, onBitcoin
  <2>4. NextSlotsSound
    BY <1>3, <2>1, <2>2, <2>3 DEF StepSound
  <2> QED
    BY <1>2, <2>4, RostersUntouched
<1>6. CASE OpenSweep(r)
  <2> DEFINE next == [q EXCEPT !.funded = q.funded \ {q.chain}, !.step = "sweep"]
  <2>1. q.op = "migrate"
    BY <1>1, <1>6 DEF SlotSound, OpenSweep, Holds
  <2>2. Step(r, Idle) \/ Step(r, next)
    BY <1>6 DEF OpenSweep
  <2>3. /\ DOMAIN next = DOMAIN q /\ next.op = q.op /\ next.version = q.version
        /\ next.draft = q.draft /\ next.step = "sweep"
    BY <1>1 DEF SlotSound
  <2> HIDE DEF next
  <2>4. CASE Step(r, next)
    <3>1. NextSlotsSound
      BY <1>3, <2>1, <2>3, <2>4 DEF StepSound
    <3> QED
      BY <1>2, <3>1, RostersUntouched
  <2> QED
    BY <1>4, <2>2, <2>4
<1> QED
  BY <1>4, <1>5, <1>6 DEF SweepFails, Stop

\* A request that starts a page or a proposal.
LEMMA ArrivingSteps ==
  ASSUME RosterInv, NEW r \in Requests, NEW u, NEW v, NEW chain, NEW to, NEW amount,
         \/ \E op \in {"receive", "manage"} : OpenPage(r, op, u, v, chain)
         \/ OpenSend(r, u, v, chain) \/ Show(r, u, v, chain)
         \/ \E p : Detail(r, u, p)
         \/ \E asset : RequestCreate(r, u, v, asset, amount, to)
  PROVE  RosterInv'
<1> USE DEF RosterInv
<1>1. ASSUME NEW op \in {"receive", "manage"}, OpenPage(r, op, u, v, chain)
      PROVE  RosterInv'
  <2> DEFINE first(step) == Slot(r, op, u, v, chain, step)
  <2>1. \A step \in {"reserve", "visible"} : SlotSound(first(step))
    BY NewSlotSound DEF StepSound
  <2> HIDE DEF first
  <2>2. \E step \in {"reserve", "visible"} : Step(r, first(step))
    BY <1>1 DEF OpenPage, first
  <2>3. NextSlotsSound
    BY <2>1, <2>2, OneSlotSteps
  <2> QED
    BY <1>1, <2>3, RostersUntouched DEF OpenPage
<1>2. CASE Show(r, u, v, chain)
  <2> DEFINE slot == Slot(r, "show", u, v, chain, "answer")
             next == [slot EXCEPT !.listed = {v}]
  <2>1. /\ SlotSound(slot) /\ slot.op = "show" /\ slot.step = "answer"
        /\ StepSound("show", "answer")
    BY NewSlotSound DEF StepSound
  <2> HIDE DEF slot
  <2>2. /\ DOMAIN next = DOMAIN slot /\ next.op = slot.op /\ next.version = slot.version
        /\ next.draft = slot.draft /\ next.step = slot.step
    BY <2>1 DEF SlotSound
  <2>3. SyncAnd(r, Synced(v, chain), next)
    BY <1>2 DEF Show, slot
  <2> HIDE DEF next
  <2>4. NextSlotsSound
    BY <2>1, <2>2, <2>3, SlotKept, OneSlotSyncs
  <2> QED
    BY <1>2, <2>4, RostersUntouched DEF Show
<1>3. ASSUME NEW asset, RequestCreate(r, u, v, asset, amount, to)
      PROVE  RosterInv'
  <2> DEFINE step == IF asset = "BTC" THEN "status" ELSE "build"
             slot == Slot(r, "create", u, v, Chain(asset), step)
             next == [slot EXCEPT !.asset = asset, !.amount = amount, !.to = to]
  <2>1. /\ SlotSound(slot) /\ slot.op = "create" /\ slot.step = step
        /\ StepSound("create", step)
    BY NewSlotSound DEF StepSound
  <2> HIDE DEF step, slot
  <2>2. /\ DOMAIN next = DOMAIN slot /\ next.op = slot.op /\ next.version = slot.version
        /\ next.draft = slot.draft /\ next.step = slot.step
    BY <2>1 DEF SlotSound
  <2>3. SyncAnd(r, Synced(v, Chain(asset)), next)
    BY <1>3 DEF RequestCreate, slot, step
  <2> HIDE DEF next
  <2>4. NextSlotsSound
    BY <2>1, <2>2, <2>3, SlotKept, OneSlotSyncs
  <2> QED
    BY <1>3, <2>4, RostersUntouched DEF RequestCreate
<1>4. CASE OpenSend(r, u, v, chain)
  <2>1. SlotSound(Slot(r, "send", u, v, chain, "reserve"))
    BY NewSlotSound DEF StepSound
  <2>2. NextSlotsSound
    BY <1>4, <2>1, OneSlotSyncs DEF OpenSend
  <2> QED
    BY <1>4, <2>2, RostersUntouched DEF OpenSend
<1>5. ASSUME NEW p, Detail(r, u, p)
      PROVE  RosterInv'
  <2> DEFINE w == proposals[p].version
             slot == Slot(r, "detail", u, w, proposals[p].chain, "answer")
             next == [slot EXCEPT !.listed = {w}]
  <2>1. /\ SlotSound(slot) /\ slot.op = "detail" /\ slot.step = "answer"
        /\ StepSound("detail", "answer")
    BY NewSlotSound DEF StepSound
  <2> HIDE DEF slot, w
  <2>2. /\ DOMAIN next = DOMAIN slot /\ next.op = slot.op /\ next.version = slot.version
        /\ next.draft = slot.draft /\ next.step = slot.step
    BY <2>1 DEF SlotSound
  <2>3. Step(r, next)
    BY <1>5 DEF Detail, slot, w
  <2> HIDE DEF next
  <2>4. NextSlotsSound
    BY <2>1, <2>2, <2>3, SlotKept, OneSlotSteps
  <2> QED
    BY <1>5, <2>4, RostersUntouched DEF Detail
<1> QED
  BY <1>1, <1>2, <1>3, <1>4, <1>5

LEMMA MaxSpendStep ==
  ASSUME RosterInv, NEW u, NEW v, NEW chain, MaxSpend(u, v, chain)
  PROVE  RosterInv'
<1>1. NextSlotsSound
  BY NoticingSound DEF RosterInv, MaxSpend, NextSlotsSound
<1> QED
  BY <1>1, RostersUntouched DEF MaxSpend

LEMMA ViewingSteps ==
  ASSUME RosterInv, NEW r \in Requests,
         \/ ReadVisible(r) \/ ListVersions(r) \/ LockRecipient(r) \/ Panel(r)
         \/ ExternalRows(r) \/ ChangeRows(r) \/ ReserveTotal(r) \/ SyncPage(r)
         \/ ReadBalance(r) \/ Reply(r)
  PROVE  RosterInv'
<1> USE DEF RosterInv
<1> DEFINE q == request[r]
           viewing == {"visible", "list", "lock", "answer", "panel", "external", "change",
                       "reserve", "sync", "balance"}
<1>1. SlotSound(q)
  BY DEF SlotsSound
<1>2. ASSUME NEW next, DOMAIN next = DOMAIN q, next.op = q.op, next.version = q.version,
             next.draft = q.draft, next.step \in viewing,
             UNCHANGED <<mix, rosterVars>>, Step(r, next) \/ \E now : SyncAnd(r, now, next)
      PROVE  RosterInv'
  <2>1. SlotSound(next)
    BY <1>1, <1>2, SlotKept DEF StepSound
  <2>2. NextSlotsSound
    BY <1>2, <2>1, OneSlotSteps, OneSlotSyncs
  <2> QED
    BY <1>2, <2>2, RostersUntouched
<1>3. CASE ReadVisible(r)
  <2> DEFINE next == [q EXCEPT !.current = Current, !.step = "list"]
  <2>1. /\ DOMAIN next = DOMAIN q /\ next.op = q.op /\ next.version = q.version
        /\ next.draft = q.draft /\ next.step = "list"
    BY <1>1 DEF SlotSound
  <2>2. \E now : SyncAnd(r, now, next)
    BY <1>3 DEF ReadVisible
  <2> HIDE DEF next
  <2> QED
    BY <1>2, <1>3, <2>1, <2>2 DEF ReadVisible
<1>4. CASE ListVersions(r)
  <2> DEFINE listed == Visible(q.user, q.current)
             step == CASE q.op = "send" -> "lock" [] q.op = "receive" -> "panel"
                       [] OTHER -> "answer"
             next == [q EXCEPT !.listed = listed, !.current = 0,
                               !.left = IF q.op = "receive" THEN listed ELSE {}, !.step = step]
  <2>1. /\ DOMAIN next = DOMAIN q /\ next.op = q.op /\ next.version = q.version
        /\ next.draft = q.draft /\ next.step \in {"lock", "panel", "answer"}
    BY <1>1 DEF SlotSound
  <2>2. Step(r, next)
    BY <1>4 DEF ListVersions
  <2> HIDE DEF next
  <2> QED
    BY <1>2, <1>4, <2>1, <2>2 DEF ListVersions
<1>5. CASE LockRecipient(r)
  <2> DEFINE next == [q EXCEPT !.to = IF IsCurrentSigner(q.user, Current) THEN 0 ELSE Current,
                               !.step = "answer"]
  <2>1. /\ DOMAIN next = DOMAIN q /\ next.op = q.op /\ next.version = q.version
        /\ next.draft = q.draft /\ next.step = "answer"
    BY <1>1 DEF SlotSound
  <2>2. Step(r, next)
    BY <1>5 DEF LockRecipient
  <2> HIDE DEF next
  <2> QED
    BY <1>2, <1>5, <2>1, <2>2 DEF LockRecipient
<1>6. CASE Panel(r)
  <2> DEFINE v == CHOOSE w \in q.left : \A x \in q.left : x <= w
             next == [q EXCEPT !.left = @ \ {v},
                               !.step = IF v = q.version THEN "external" ELSE "panel"]
  <2>1. /\ DOMAIN next = DOMAIN q /\ next.op = q.op /\ next.version = q.version
        /\ next.draft = q.draft /\ next.step \in {"external", "panel"}
    BY <1>1 DEF SlotSound
  <2>2. \E now : SyncAnd(r, now, next)
    BY <1>6 DEF Panel
  <2> HIDE DEF next
  <2> QED
    BY <1>2, <1>6, <2>1, <2>2 DEF Panel
<1>7. CASE ExternalRows(r)
  <2> DEFINE next == [q EXCEPT !.rows = UnspentRows(q.version, q.asset, FALSE),
                               !.step = IF q.chain = "bitcoin" THEN "change" ELSE "reserve"]
  <2>1. /\ DOMAIN next = DOMAIN q /\ next.op = q.op /\ next.version = q.version
        /\ next.draft = q.draft /\ next.step \in {"change", "reserve"}
    BY <1>1 DEF SlotSound
  <2>2. Step(r, next)
    BY <1>7 DEF ExternalRows
  <2> HIDE DEF next
  <2> QED
    BY <1>2, <1>7, <2>1, <2>2 DEF ExternalRows
<1>8. CASE ChangeRows(r)
  <2> DEFINE next == [q EXCEPT !.rows = @ + UnspentRows(q.version, q.asset, TRUE),
                               !.step = "reserve"]
  <2>1. /\ DOMAIN next = DOMAIN q /\ next.op = q.op /\ next.version = q.version
        /\ next.draft = q.draft /\ next.step = "reserve"
    BY <1>1 DEF SlotSound
  <2>2. Step(r, next)
    BY <1>8 DEF ChangeRows
  <2> HIDE DEF next
  <2> QED
    BY <1>2, <1>8, <2>1, <2>2 DEF ChangeRows
<1>9. CASE ReserveTotal(r)
  <2> DEFINE next == [q EXCEPT
                       !.total = Reserved(q.version, q.chain),
                       !.counted = {p \in InFlightOn(q.version, q.chain) :
                                      q.chain = "elements" => proposals[p].amount = 0},
                       !.step = IF q.op = "manage" THEN "sync" ELSE "balance"]
  <2>1. /\ DOMAIN next = DOMAIN q /\ next.op = q.op /\ next.version = q.version
        /\ next.draft = q.draft /\ next.step \in {"sync", "balance"}
    BY <1>1 DEF SlotSound
  <2>2. Step(r, next)
    BY <1>9 DEF ReserveTotal
  <2> HIDE DEF next
  <2> QED
    BY <1>2, <1>9, <2>1, <2>2 DEF ReserveTotal
<1>10. CASE SyncPage(r)
  <2> DEFINE next == [q EXCEPT !.step = "balance"]
  <2>1. /\ DOMAIN next = DOMAIN q /\ next.op = q.op /\ next.version = q.version
        /\ next.draft = q.draft /\ next.step = "balance"
    BY <1>1 DEF SlotSound
  <2>2. \E now : SyncAnd(r, now, next)
    BY <1>10 DEF SyncPage
  <2> HIDE DEF next
  <2> QED
    BY <1>2, <1>10, <2>1, <2>2 DEF SyncPage
<1>11. CASE ReadBalance(r)
  <2> DEFINE basis == Baseline(q.version, q.chain)
             next == [q EXCEPT
                       !.basis = basis, !.spendable = Spendable(Value(basis), q.total),
                       !.balance = Value(Held(q.version, q.asset)), !.total = 0,
                       !.step = IF q.op = "receive" THEN "panel" ELSE "visible"]
  <2>1. /\ DOMAIN next = DOMAIN q /\ next.op = q.op /\ next.version = q.version
        /\ next.draft = q.draft /\ next.step \in {"panel", "visible"}
    BY <1>1 DEF SlotSound
  <2>2. Step(r, next)
    BY <1>11 DEF ReadBalance
  <2> HIDE DEF next
  <2> QED
    BY <1>2, <1>11, <2>1, <2>2 DEF ReadBalance
<1>12. CASE Reply(r)
  <2>1. NextSlotsSound
    BY <1>12, IdleSound, OneSlotSteps DEF Reply
  <2> QED
    BY <1>12, <2>1, RostersUntouched DEF Reply
<1> QED
  BY <1>3, <1>4, <1>5, <1>6, <1>7, <1>8, <1>9, <1>10, <1>11, <1>12

-----------------------------------------------------------------------------
(* Steps that write rows of the rosters *)

\* After them, slots that were sound when they were rewritten still are.
LEMMA RostersWritten ==
  ASSUME RosterInv, UNCHANGED mix, RosterTypeOK', VersionsSound',
         \A q : SlotSound(q) => SlotSound(q)', NextSlotsSound
  PROVE  RosterInv'
  BY DEF RosterInv, NextSlotsSound, SlotsSound

LEMMA OnboardSignerStep ==
  ASSUME RosterInv, NEW u \in Users, NEW d \in Devices, NEW atPath \in BOOLEAN,
         OnboardSigner(u, d, atPath)
  PROVE  RosterInv'
<1>1. NextSlotsSound
  BY SlotsUntouched DEF RosterInv, OnboardSigner
<1> QED
  BY <1>1, OnboardingDisturbsNothing, RostersWritten DEF RosterInv, OnboardSigner

\* There is nothing yet that a first version could disturb: no draft has a base.
LEMMA FoundStep ==
  ASSUME RosterInv, NEW u \in Users, NEW picked \in SUBSET Users,
         NEW m \in 1..Cardinality(Users), NEW taproot \in BOOLEAN,
         Found(u, picked, m, taproot)
  PROVE  RosterInv'
<1> USE DEF RosterInv
<1> DEFINE members == picked \cup {u}
           seats == Resolved(members)
           first == FirstVersion(seats, m, taproot)
<1>1. /\ versions = <<>> /\ LastVersion > 0 /\ ValidThreshold(m, members)
      /\ \A w \in members : HasSigner(w)
      /\ BuilderAccepts(seats) /\ versions' = <<first>>
      /\ UNCHANGED <<mix, signers, request>>
  BY DEF Found, NewFederation
<1>2. /\ seats \in [Users -> Devices \cup {NoDevice}] /\ SeatsSound(seats)
      /\ \A w \in Users : seats[w] # NoDevice <=> w \in members
  BY <1>1, ResolvedSound
<1>3. m \in Nat
  OBVIOUS
<1>4. first \in Version
  <2>1. All(seats, "Jade") \in BOOLEAN
    BY DEF All
  <2>2. [w \in Users |-> "none"] \in [Users -> {"none", "keep", "add", "remove"}]
    OBVIOUS
  <2> HIDE DEF seats
  <2> QED
    BY <1>2, <1>3, <2>1, <2>2 DEF Version, FirstVersion
<1>5. first.seats = seats /\ first.threshold = m
  BY DEF FirstVersion
<1> HIDE DEF first, seats, members
<1>6. members \in SUBSET Users
  BY DEF members
<1>7. HasQuorum(first)
  BY <1>1, <1>2, <1>3, <1>5, <1>6, AcceptedHaveQuorum
<1>8. versions' \in Seq(Version) /\ Len(versions') = 1 /\ DOMAIN versions' = {1} /\ versions'[1] = first
  BY <1>1, <1>4
<1>9. RosterTypeOK'
  BY <1>1, <1>8, RosterAssumption DEF RosterTypeOK
<1>10. \A s : SeatsSound(s)' <=> SeatsSound(s)
  BY <1>1 DEF SeatsSound, HasSigner, SignerOf, FirstAtPath
<1>11. VersionsSound'
  <2>1. SeatsSound(versions[1].seats)'
    BY <1>2, <1>5, <1>8, <1>10
  <2> QED
    BY <1>7, <1>8, <2>1 DEF VersionsSound, Indices
<1>12. \A q : ~DraftSound(q)
  BY <1>1 DEF DraftSound, Indices
<1>13. \A q : SlotSound(q) => SlotSound(q)'
  BY <1>12 DEF SlotSound
<1>14. NextSlotsSound
  BY <1>1, SlotsUntouched
<1> QED
  BY <1>1, <1>9, <1>11, <1>13, <1>14, RostersWritten

LEMMA StoreStep ==
  ASSUME RosterInv, NEW r \in Requests, Store(r)
  PROVE  RosterInv'
<1> USE DEF RosterInv
<1> DEFINE q    == request[r]
           base == q.version
           d    == q.draft[1]
           step == IF q.funded = {} THEN "flip"
                   ELSE IF versions[base].elements THEN "sweep" ELSE "open"
           next == [q EXCEPT !.to = base + 1, !.step = step]
<1>1. SlotSound(q) /\ q.op = "migrate" /\ DraftSound(q)
  BY DEF SlotsSound, SlotSound, Store, Holds
<1>2. CASE Storable(base) /\ versions' = Append(versions, d) /\ Step(r, next)
  <2>1. /\ base \in Indices /\ d \in Version /\ SeatsSound(d.seats) /\ HasQuorum(d)
        /\ Explains(d, versions[base])
    BY <1>1 DEF DraftSound
  <2>2. /\ DOMAIN next = DOMAIN q /\ next.op = q.op /\ next.version = q.version
        /\ next.draft = q.draft /\ next.step = step
    BY <1>1 DEF SlotSound
  <2>3. StepSound(next.op, next.step)
    BY <1>1, <2>2 DEF StepSound
  <2> HIDE DEF d, next, step
  <2>4. versions' \in Seq(Version) /\ Len(versions') = Len(versions) + 1
    BY <1>2, <2>1 DEF RosterTypeOK
  <2>5. /\ RosterTypeOK' /\ VersionsSound' /\ UNCHANGED mix
        /\ \A s : SlotSound(s) => SlotSound(s)'
    <3>1. SameRosters(Append(versions, d), versions')
      BY <1>2, <2>4 DEF SameRosters
    <3>2. UNCHANGED <<mix, signers>>
      BY DEF Store
    <3> QED
      BY <1>2, <2>1, <2>4, <3>1, <3>2, StoringIsSound
  <2>6. NextSlotsSound
    BY <1>1, <1>2, <2>2, <2>3, SlotKept, OneSlotSteps
  <2> QED
    BY <2>5, <2>6, RostersWritten
<1>3. CASE Step(r, Idle) /\ UNCHANGED versions
  <2>1. NextSlotsSound
    BY <1>3, IdleSound, OneSlotSteps
  <2> QED
    BY <1>3, <2>1, RostersUntouched DEF Store, rosterVars
<1> QED
  BY <1>2, <1>3 DEF Store

LEMMA FlipUnfundedStep ==
  ASSUME RosterInv, NEW r \in Requests, FlipUnfunded(r)
  PROVE  RosterInv'
<1> USE DEF RosterInv
<1>1. /\ versions' = Flipped(versions, request[r].to)
      /\ request' = [Witnessing(versions') EXCEPT ![r] = Idle] /\ UNCHANGED <<mix, signers>>
  BY DEF FlipUnfunded
<1>2. versions \in Seq(Version)
  BY DEF RosterTypeOK
<1>3. /\ versions' \in Seq(Version) /\ SameRosters(versions, versions')
      /\ Len(versions') = Len(versions)
  BY <1>1, <1>2, FlippedKeepsRosters
<1>4. NextSlotsSound
  BY <1>1, WitnessingSound, IdleSound DEF NextSlotsSound
<1> QED
  BY <1>1, <1>3, <1>4, StatusesDisturbNothing, RostersWritten

LEMMA CancelMigrationStep ==
  ASSUME RosterInv, NEW u, NEW v, CancelMigration(u, v)
  PROVE  RosterInv'
<1> USE DEF RosterInv
<1>1. /\ v \in Indices /\ versions' = Cancelled(v) /\ UNCHANGED <<mix, signers, request>>
  BY DEF CancelMigration
<1>2. versions \in Seq(Version)
  BY DEF RosterTypeOK
<1>3. /\ versions' \in Seq(Version) /\ SameRosters(versions, versions')
      /\ Len(versions') = Len(versions)
  BY <1>1, <1>2, CancelledKeepsRosters
<1>4. NextSlotsSound
  BY <1>1, SlotsUntouched
<1> QED
  BY <1>1, <1>3, <1>4, StatusesDisturbNothing, RostersWritten

LEMMA BroadcastStep ==
  ASSUME RosterInv, NEW p, Broadcast(p)
  PROVE  RosterInv'
<1> USE DEF RosterInv
<1>1. /\ versions' = versions \/ versions' = Flipped(versions, proposals[p].sweeps)
      /\ request' = Witnessing(versions') /\ UNCHANGED <<mix, signers>>
  BY DEF Broadcast
<1>2. versions \in Seq(Version)
  BY DEF RosterTypeOK
<1>3. /\ versions' \in Seq(Version) /\ SameRosters(versions, versions')
      /\ Len(versions') = Len(versions)
  <2>1. CASE versions' = versions
    BY <1>2, <2>1 DEF SameRosters
  <2>2. CASE versions' = Flipped(versions, proposals[p].sweeps)
    BY <1>2, <2>2, FlippedKeepsRosters
  <2> QED
    BY <1>1, <2>1, <2>2
<1>4. NextSlotsSound
  BY <1>1, WitnessingSound DEF NextSlotsSound
<1> QED
  BY <1>1, <1>3, <1>4, StatusesDisturbNothing, RostersWritten

-----------------------------------------------------------------------------
(* Theorems *)

LEMMA QuietSteps ==
  ASSUME RosterInv,
         \/ \E p : CancelProposal(p)
         \/ \E v, a : Deposit(v, a)
         \/ \E c : Confirm(c)
         \/ Restart
         \/ UNCHANGED vars
  PROVE  RosterInv'
<1>1. /\ UNCHANGED <<mix, rosterVars>>
      /\ UNCHANGED request \/ request' = [r \in Requests |-> Idle]
  BY DEF CancelProposal, Deposit, Confirm, Restart, vars
<1>2. NextSlotsSound
  <2>1. CASE UNCHANGED request
    BY <2>1, SlotsUntouched DEF RosterInv
  <2>2. CASE request' = [r \in Requests |-> Idle]
    BY <2>2, IdleSound DEF NextSlotsSound
  <2> QED
    BY <1>1, <2>1, <2>2
<1> QED
  BY <1>1, <1>2, RostersUntouched

LEMMA RosterInvInductive ==
  ASSUME RosterInv, [Next]_vars
  PROVE  RosterInv'
<1>1. /\ mix.users \subseteq Users
      /\ \A plan \in mix.plans :
           plan.add \subseteq Users /\ plan.remove \subseteq Users /\ plan.m \in Nat
  BY VaultAssumption DEF RosterInv
<1>2. CASE Rosters
  <2>1. ASSUME NEW u \in mix.users, NEW d \in Devices, NEW atPath \in BOOLEAN,
               OnboardSigner(u, d, atPath)
        PROVE  RosterInv'
    BY <1>1, <2>1, OnboardSignerStep
  <2>2. ASSUME NEW u \in mix.users, NEW picked \in SUBSET mix.users,
               NEW m \in 1..Cardinality(Users), NEW taproot \in BOOLEAN,
               Found(u, picked, m, taproot)
        PROVE  RosterInv'
    BY <1>1, <2>2, FoundStep
  <2>3. ASSUME NEW r \in Requests, NEW u \in mix.users, NEW base \in Indices,
               NEW plan \in mix.plans, Migrate(r, u, base, plan.add, plan.remove, plan.m)
        PROVE  RosterInv'
    BY <1>1, <2>3, MigrateStep
  <2> QED
    BY <1>2, <2>1, <2>2, <2>3, CancelMigrationStep DEF Rosters
<1>3. ASSUME NEW r \in Requests, Sweeping(r) \/ Creation(r) \/ Viewing(r)
      PROVE  RosterInv'
  <2>1. CASE Sweeping(r)
    BY <2>1, StoreStep, SweepSteps, FlipUnfundedStep DEF Sweeping
  <2> QED
    BY <1>3, <2>1, CreationSteps, ViewingSteps, ArrivingSteps DEF Creation, Viewing
<1>4. CASE Money
  BY <1>4, BroadcastStep, QuietSteps, MaxSpendStep DEF Money
<1>5. CASE UNCHANGED vars
  BY <1>5, QuietSteps
<1> QED
  BY <1>2, <1>3, <1>4, <1>5 DEF Next

\* In a lineage whose rosters can sign and follow from one another, they always
\* will, whatever is onboarded, founded, migrated, cancelled or broadcast in
\* whatever order (new_federation.rs:177, migrations.rs:82 and :128).
THEOREM SoundRostersStaySound == RosterTypeOK /\ RostersFollow /\ Spec => []RostersFollow
<1>1. RosterTypeOK /\ RostersFollow /\ Init => RosterInv
  <2> SUFFICES ASSUME RosterTypeOK, RostersFollow, Init
               PROVE  RosterInv
    OBVIOUS
  <2>1. SlotsSound
    BY IdleSound DEF SlotsSound, Init
  <2> QED
    BY <2>1, RosterInvSuffices DEF RosterInv, Init
<1>2. RosterInv /\ [Next]_vars => RosterInv'
  BY RosterInvInductive
<1>3. RosterInv => RostersFollow
  BY RosterInvSuffices DEF RosterInv
<1> QED
  BY <1>1, <1>2, <1>3, PTL DEF Spec

\* In particular in every lineage that starts before its first key.
THEOREM RostersFollowFromTheStart == RosterInit /\ Spec => []RostersFollow
<1>1. RosterInit => RosterTypeOK /\ RostersFollow
  BY RosterAssumption DEF RosterInit, RosterTypeOK, RostersFollow, SeatsAreFirstKeys,
     QuorumExists, ChangesExplainRoster, Indices
<1> QED
  BY <1>1, SoundRostersStaySound, PTL
=============================================================================
