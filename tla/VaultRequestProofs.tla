------------------------- MODULE VaultRequestProofs -------------------------
(***************************************************************************)
(* What requests do to a lineage that changes under them, for any members, *)
(* coins, requests and mixes: no interleaving gives a reader or a sender   *)
(* more than a version that was current meanwhile allows, and none lets a  *)
(* version take over and leave coins behind that its migration had seen.   *)
(***************************************************************************)
EXTENDS VaultProofs

-----------------------------------------------------------------------------
(* Privileges of a current signer *)

\* Who a slot may serve as a current signer: someone with a seat in a version
\* that has been current since the request arrived.
Entitled(q, vs) == \E v \in q.heads : vs[v].seats[q.user] # NoDevice

\* A request knows every version that has been current since it arrived, and
\* the one it has read is among them; what it grants rests on these.  What a
\* migration opens a sweep for, it has stored.
Sweepings == {"sweep", "open", "flip"}
SlotLawful(q, vs) ==
  /\ {"op", "step", "user", "version", "asset", "to", "current", "listed", "heads"}
       \subseteq DOMAIN q
  /\ q.heads \cup q.listed \subseteq DOMAIN vs
  /\ q.step # "idle" => CurrentOf(vs) \subseteq q.heads /\ q.version \in DOMAIN vs
  /\ q.current # 0 => q.current \in q.heads
  /\ q.step = "build" /\ q.asset = "BTC" => q.current # 0
  /\ q.op = "create" /\ q.asset = "BTC" /\ q.step \in {"describe", "insert"} =>
       q.to \in q.heads \/ Entitled(q, vs)
  /\ \A v \in q.listed : vs[v].seats[q.user] # NoDevice \/ Entitled(q, vs)
  /\ q.op = "send" => q.to \in q.heads \cup {0}
  /\ q.op = "migrate" => q.to \in DOMAIN vs \cup {0}
  /\ q.step \in Sweepings => q.to \in DOMAIN vs

\* A lineage that has versions has a current one, and proposals spend from its
\* versions.
Headed(vs) == DOMAIN vs # {} => CurrentOf(vs) # {}
Placed(p)  == /\ {"version", "sweeps", "inputs"} \subseteq DOMAIN p
              /\ p.version \in Indices /\ p.sweeps \in Indices \cup {0}
IsSeq(s)   == \E S : s \in Seq(S)
ProposalsPlaced == IsSeq(proposals) /\ \A p \in DOMAIN proposals : Placed(proposals[p])
SlotsLawful == DOMAIN request = Requests /\ \A r \in Requests : SlotLawful(request[r], versions)

PrivilegeInv == Headed(versions) /\ ProposalsPlaced /\ SlotsLawful

LEMMA PrivilegeInvSuffices == SlotsLawful => PrivilegeWasHeld
  BY DEF SlotsLawful, SlotLawful, PrivilegeWasHeld, HeldPrivilege, IsMember, Entitled

LEMMA IdleLawful == \A vs : SlotLawful(Idle, vs)
  BY DEF SlotLawful, Idle, Sweepings

\* The current version a handler reads is one of those.
LEMMA CurrentIsCurrent ==
  ASSUME Headed(versions), Indices # {}
  PROVE  Current \in CurrentOf(versions)
  BY DEF Headed, Current, CurrentOf, Indices

LEMMA ZeroIsNoVersion == ASSUME RosterTypeOK PROVE 0 \notin Indices
<1>1. versions \in Seq(Version)
  BY DEF RosterTypeOK
<1>2. DOMAIN versions = 1..Len(versions) /\ Len(versions) \in Nat
  BY <1>1
<1> QED
  BY <1>2 DEF Indices

\* A step that changes neither who asks for what nor what the answer grants.
LEMMA LawfulStep ==
  ASSUME NEW vs, NEW q, SlotLawful(q, vs), q.step # "idle", NEW s, DOMAIN s = DOMAIN q,
         s.op = q.op, s.user = q.user, s.version = q.version, s.asset = q.asset,
         s.heads = q.heads, s.listed = q.listed, s.to = q.to, s.current = q.current,
         \/ s.step \notin {"build", "describe", "insert"} \cup Sweepings
         \/ s.step = "insert" /\ q.step = "describe"
         \/ s.step = q.step
         \/ s.step \in Sweepings /\ q.to \in DOMAIN vs
         \/ s.step = "describe" /\ s.op = "migrate"
  PROVE  SlotLawful(s, vs)
  BY DEF SlotLawful, Entitled, Sweepings

\* Versions are only added, and keep their rosters.
Grown(vs, ws) ==
  DOMAIN vs \subseteq DOMAIN ws /\ \A v \in DOMAIN vs : ws[v].seats = vs[v].seats

LEMMA LawfulGrows ==
  ASSUME NEW vs, NEW ws, Grown(vs, ws), NEW q, SlotLawful(q, vs), NEW s, DOMAIN s = DOMAIN q,
         s.op = q.op, s.step = q.step, s.user = q.user, s.version = q.version,
         s.asset = q.asset, s.listed = q.listed, s.to = q.to, s.current = q.current,
         q.heads \subseteq s.heads, s.heads \subseteq q.heads \cup CurrentOf(ws),
         s.step # "idle" => CurrentOf(ws) \subseteq s.heads
  PROVE  SlotLawful(s, ws)
<1>1. CurrentOf(ws) \subseteq DOMAIN ws
  BY DEF CurrentOf
<1>2. \A v \in q.heads : ws[v].seats = vs[v].seats
  BY DEF SlotLawful, Grown
<1>3. Entitled(q, vs) => Entitled(s, ws)
  BY <1>2 DEF Entitled
<1>4. \A v \in q.listed : ws[v].seats = vs[v].seats
  BY DEF SlotLawful, Grown
<1>5. s.heads \cup s.listed \subseteq DOMAIN ws
  BY <1>1 DEF SlotLawful, Grown
<1>6. /\ s.step # "idle" => s.version \in DOMAIN ws
      /\ s.op = "migrate" => s.to \in DOMAIN ws \cup {0}
      /\ s.step \in Sweepings => s.to \in DOMAIN ws
  BY DEF SlotLawful, Grown
<1>7. \A v \in s.listed : ws[v].seats[s.user] # NoDevice \/ Entitled(s, ws)
  BY <1>3, <1>4 DEF SlotLawful
<1> HIDE DEF Entitled
<1>8. /\ {"op", "step", "user", "version", "asset", "to", "current", "listed", "heads"}
          \subseteq DOMAIN s
      /\ s.current # 0 => s.current \in s.heads
      /\ s.step = "build" /\ s.asset = "BTC" => s.current # 0
      /\ s.op = "send" => s.to \in s.heads \cup {0}
  BY DEF SlotLawful
<1>9. s.op = "create" /\ s.asset = "BTC" /\ s.step \in {"describe", "insert"} =>
       s.to \in s.heads \/ Entitled(s, ws)
  BY <1>3 DEF SlotLawful
<1> QED
  BY <1>5, <1>6, <1>7, <1>8, <1>9 DEF SlotLawful

-----------------------------------------------------------------------------
(* Slots that step while no version is written *)

NextSlotsLawful == DOMAIN request' = Requests /\ \A q \in Requests : SlotLawful(request'[q], versions)

LEMMA NoticingLawful ==
  ASSUME SlotsLawful, NEW now
  PROVE  /\ DOMAIN Noticing(now) = Requests
         /\ \A q \in Requests : SlotLawful(Noticing(now)[q], versions)
<1>1. DOMAIN Noticing(now) = Requests
  BY DEF Noticing
<1>2. ASSUME NEW q \in Requests
      PROVE  SlotLawful(Noticing(now)[q], versions)
  <2> DEFINE s == Noticing(now)[q]
  <2>1. SlotLawful(request[q], versions)
    BY DEF SlotsLawful
  <2>2. \/ s = request[q]
        \/ \E x : s = [request[q] EXCEPT !.moved = x] /\ request[q].step \in RowsTaken
    BY DEF Noticing
  <2>3. CASE \E x : s = [request[q] EXCEPT !.moved = x] /\ request[q].step \in RowsTaken
    <3>1. PICK x : s = [request[q] EXCEPT !.moved = x] /\ request[q].step \in RowsTaken
      BY <2>3
    <3>2. /\ DOMAIN s = DOMAIN request[q] /\ s.op = request[q].op /\ s.user = request[q].user
          /\ s.version = request[q].version /\ s.asset = request[q].asset
          /\ s.heads = request[q].heads /\ s.listed = request[q].listed
          /\ s.to = request[q].to /\ s.current = request[q].current
          /\ s.step = request[q].step
      BY <3>1, <2>1 DEF SlotLawful
    <3>3. request[q].step # "idle"
      BY <3>1 DEF RowsTaken
    <3> HIDE DEF s
    <3>4. SlotLawful(s, versions)
      BY <2>1, <3>2, <3>3, LawfulStep
    <3> QED
      BY <3>4 DEF s
  <2> QED
    BY <2>1, <2>2, <2>3
<1> QED
  BY <1>1, <1>2

LEMMA LawfulAfter ==
  ASSUME RosterInv, PrivilegeInv, UNCHANGED <<versions, proposals>>, NextSlotsLawful
  PROVE  PrivilegeInv'
  BY DEF PrivilegeInv, ProposalsPlaced, Placed, Indices, NextSlotsLawful, SlotsLawful

LEMMA OneSlotLawful ==
  ASSUME SlotsLawful, NEW r \in Requests, NEW next, SlotLawful(next, versions),
         Step(r, next) \/ \E now : SyncAnd(r, now, next)
  PROVE  NextSlotsLawful
  BY NoticingLawful DEF NextSlotsLawful, SlotsLawful, Step, SyncAnd

-----------------------------------------------------------------------------
(* What each step grants *)

\* A request that arrives knows the current version.
LEMMA FreshSlot ==
  ASSUME NEW r, NEW op, NEW u, NEW v, NEW chain, NEW step
  PROVE  LET s == Slot(r, op, u, v, chain, step)
         IN  /\ {"op", "step", "user", "version", "asset", "to", "current", "listed", "heads",
                 "chain", "amount", "inputs", "funded", "draft"} \subseteq DOMAIN s
             /\ s.op = op /\ s.step = step /\ s.user = u /\ s.version = v
             /\ s.heads = CurrentOf(versions) /\ s.listed = {} /\ s.to = 0 /\ s.current = 0
  BY DEF Slot, Idle

LEMMA FreshLawful ==
  ASSUME NEW s, s.heads = CurrentOf(versions), s.version \in Indices, s.current = 0,
         {"op", "step", "user", "version", "asset", "to", "current", "listed", "heads"}
           \subseteq DOMAIN s,
         s.step \in {"build", "describe", "insert"} => s.asset # "BTC" \/ s.op = "migrate",
         s.step # "build" \/ s.asset # "BTC",
         s.op = "migrate" => s.to = 0, s.step \notin Sweepings,
         s.listed \subseteq Indices,
         \A v \in s.listed : IsMember(s.user, v) \/ Entitled(s, versions),
         s.op = "send" => s.to = 0
  PROVE  SlotLawful(s, versions)
<1>1. CurrentOf(versions) \subseteq DOMAIN versions
  BY DEF CurrentOf
<1> HIDE DEF CurrentOf
<1> QED
  BY <1>1 DEF SlotLawful, Indices, IsMember

\* The reader of show and detail: a member, or a current signer.
LEMMA ReaderEntitled ==
  ASSUME PrivilegeInv, Indices # {}, RosterTypeOK, NEW s, s.heads = CurrentOf(versions),
         IsCurrentSigner(s.user, Current)
  PROVE  Entitled(s, versions)
  BY CurrentIsCurrent, ZeroIsNoVersion
     DEF PrivilegeInv, IsCurrentSigner, Entitled, IsMember, Indices, CurrentOf

LEMMA ArrivalsLawful ==
  ASSUME RosterInv, PrivilegeInv, NEW r \in Requests, NEW u, NEW v, NEW chain, NEW to, NEW amount,
         \/ \E op \in {"receive", "manage"} : OpenPage(r, op, u, v, chain)
         \/ OpenSend(r, u, v, chain) \/ Show(r, u, v, chain)
         \/ \E p \in DOMAIN proposals : Detail(r, u, p)
         \/ \E asset : RequestCreate(r, u, v, asset, amount, to)
  PROVE  PrivilegeInv'
<1> DEFINE fields == {"op", "step", "user", "version", "asset", "to", "current", "listed", "heads"}
<1>1. SlotsLawful /\ RosterTypeOK
  BY DEF PrivilegeInv, RosterInv
<1>2. ASSUME NEW next, SlotLawful(next, versions), UNCHANGED <<versions, proposals>>,
             Step(r, next) \/ \E now : SyncAnd(r, now, next)
      PROVE  PrivilegeInv'
  BY <1>1, <1>2, OneSlotLawful, LawfulAfter
<1>3. ASSUME NEW op \in {"receive", "manage"}, OpenPage(r, op, u, v, chain)
      PROVE  PrivilegeInv'
  <2> DEFINE step == IF op = "receive" THEN "visible" ELSE "reserve"
             slot == Slot(r, op, u, v, chain, step)
  <2>1. /\ fields \subseteq DOMAIN slot /\ slot.op = op /\ slot.step \in {"visible", "reserve"}
        /\ slot.version = v /\ slot.heads = CurrentOf(versions) /\ slot.listed = {}
        /\ slot.to = 0 /\ slot.current = 0
    BY FreshSlot
  <2>2. v \in Indices /\ Step(r, slot) /\ UNCHANGED <<versions, proposals>>
    BY <1>3 DEF OpenPage, rosterVars
  <2> HIDE DEF slot, step
  <2>3. SlotLawful(slot, versions)
    BY <2>1, <2>2, FreshLawful DEF Sweepings
  <2> QED
    BY <1>2, <2>2, <2>3
<1>4. CASE OpenSend(r, u, v, chain)
  <2> DEFINE slot == Slot(r, "send", u, v, chain, "reserve")
  <2>1. /\ fields \subseteq DOMAIN slot /\ slot.op = "send" /\ slot.step = "reserve"
        /\ slot.version = v /\ slot.heads = CurrentOf(versions) /\ slot.listed = {}
        /\ slot.to = 0 /\ slot.current = 0
    BY FreshSlot
  <2>2. /\ v \in Indices /\ \E now : SyncAnd(r, now, slot)
        /\ UNCHANGED <<versions, proposals>>
    BY <1>4 DEF OpenSend, rosterVars
  <2> HIDE DEF slot
  <2>3. SlotLawful(slot, versions)
    BY <2>1, <2>2, FreshLawful DEF Sweepings
  <2> QED
    BY <1>2, <2>2, <2>3
<1>5. ASSUME NEW w \in Indices, NEW op \in {"show", "detail"}, NEW on,
             IsMember(u, w) \/ IsCurrentSigner(u, Current),
             LET next == [Slot(r, op, u, w, on, "answer") EXCEPT !.listed = {w}]
             IN  Step(r, next) \/ \E now : SyncAnd(r, now, next),
             UNCHANGED <<versions, proposals>>
      PROVE  PrivilegeInv'
  <2> DEFINE slot == Slot(r, op, u, w, on, "answer")
             next == [slot EXCEPT !.listed = {w}]
  <2>1. /\ fields \subseteq DOMAIN slot /\ slot.op = op /\ slot.step = "answer" /\ slot.user = u
        /\ slot.version = w /\ slot.heads = CurrentOf(versions)
        /\ slot.to = 0 /\ slot.current = 0
    BY FreshSlot
  <2>2. Step(r, next) \/ \E now : SyncAnd(r, now, next)
    BY <1>5
  <2> HIDE DEF slot
  <2>3. /\ fields \subseteq DOMAIN next /\ next.op = op /\ next.step = "answer" /\ next.user = u
        /\ next.version = w /\ next.heads = CurrentOf(versions)
        /\ next.to = 0 /\ next.current = 0 /\ next.listed = {w}
    BY <2>1
  <2> HIDE DEF next
  <2>4. IsMember(u, w) \/ Entitled(next, versions)
    BY <1>1, <1>5, <2>3, ReaderEntitled
  <2>5. SlotLawful(next, versions)
    BY <2>3, <2>4, FreshLawful DEF Sweepings
  <2> QED
    BY <1>2, <1>5, <2>2, <2>5
<1>6. CASE Show(r, u, v, chain)
  BY <1>5, <1>6 DEF Show, rosterVars
<1>7. ASSUME NEW p \in DOMAIN proposals, Detail(r, u, p)
      PROVE  PrivilegeInv'
  <2>1. proposals[p].version \in Indices
    BY DEF PrivilegeInv, ProposalsPlaced, Placed
  <2> QED
    BY <1>5, <1>7, <2>1 DEF Detail, rosterVars
<1>8. ASSUME NEW asset, RequestCreate(r, u, v, asset, amount, to)
      PROVE  PrivilegeInv'
  <2> DEFINE step == IF asset = "BTC" THEN "status" ELSE "build"
             slot == Slot(r, "create", u, v, Chain(asset), step)
             next == [slot EXCEPT !.asset = asset, !.amount = amount, !.to = to]
  <2>1. /\ fields \subseteq DOMAIN slot /\ slot.op = "create" /\ slot.step = step
        /\ slot.version = v /\ slot.heads = CurrentOf(versions) /\ slot.listed = {}
        /\ slot.current = 0
    BY FreshSlot
  <2>2. /\ v \in Indices /\ \E now : SyncAnd(r, now, next)
        /\ UNCHANGED <<versions, proposals>>
    BY <1>8 DEF RequestCreate, rosterVars
  <2> HIDE DEF slot
  <2>3. /\ fields \subseteq DOMAIN next /\ next.op = "create" /\ next.step = step
        /\ next.version = v /\ next.heads = CurrentOf(versions) /\ next.listed = {}
        /\ next.current = 0 /\ next.asset = asset
    BY <2>1
  <2> HIDE DEF next
  <2>4. SlotLawful(next, versions)
    BY <2>2, <2>3, FreshLawful DEF Sweepings
  <2> QED
    BY <1>2, <2>2, <2>4
<1> QED
  BY <1>3, <1>4, <1>6, <1>7, <1>8

\* Reading the current version, and what follows from having read it.
LEMMA ReadingsLawful ==
  ASSUME RosterInv, PrivilegeInv, NEW r \in Requests,
         CheckStatus(r) \/ ReadVisible(r) \/ ListVersions(r) \/ LockRecipient(r)
  PROVE  PrivilegeInv'
<1> DEFINE q == request[r]
<1>1. SlotsLawful /\ SlotLawful(q, versions) /\ RosterTypeOK
  BY DEF PrivilegeInv, SlotsLawful, RosterInv
<1>2. ASSUME NEW next, SlotLawful(next, versions), UNCHANGED <<versions, proposals>>,
             Step(r, next) \/ \E now : SyncAnd(r, now, next)
      PROVE  PrivilegeInv'
  BY <1>1, <1>2, OneSlotLawful, LawfulAfter
<1>3. q.step # "idle"
  BY DEF CheckStatus, ReadVisible, ListVersions, LockRecipient, Holds
<1>4. Current \in q.heads /\ Current # 0 /\ 0 \notin Indices
  <2>1. Indices # {}
    BY <1>1, <1>3 DEF SlotLawful, Indices
  <2>2. Current \in CurrentOf(versions)
    BY <2>1, CurrentIsCurrent DEF PrivilegeInv
  <2>3. Current \in q.heads /\ q.heads \subseteq Indices
    BY <1>1, <1>3, <2>2 DEF SlotLawful, Indices
  <2> QED
    BY <1>1, <2>3, ZeroIsNoVersion
<1> HIDE DEF Current
<1>5. CASE CheckStatus(r)
  <2> DEFINE next == [q EXCEPT !.current = Current, !.step = "build"]
  <2>1. /\ DOMAIN next = DOMAIN q /\ next.op = q.op /\ next.user = q.user
        /\ next.version = q.version /\ next.asset = q.asset /\ next.to = q.to
        /\ next.heads = q.heads /\ next.listed = q.listed
        /\ next.current = Current /\ next.step = "build"
    BY <1>1 DEF SlotLawful
  <2>2. Step(r, next) /\ UNCHANGED <<versions, proposals>>
    BY <1>5 DEF CheckStatus, rosterVars
  <2> HIDE DEF next
  <2>3. SlotLawful(next, versions)
    BY <1>1, <1>3, <1>4, <2>1 DEF SlotLawful, Entitled, Sweepings
  <2> QED
    BY <1>2, <2>2, <2>3
<1>6. CASE ReadVisible(r)
  <2> DEFINE next == [q EXCEPT !.current = Current, !.step = "list"]
  <2>1. /\ DOMAIN next = DOMAIN q /\ next.op = q.op /\ next.user = q.user
        /\ next.version = q.version /\ next.asset = q.asset /\ next.to = q.to
        /\ next.heads = q.heads /\ next.listed = q.listed
        /\ next.current = Current /\ next.step = "list"
    BY <1>1 DEF SlotLawful
  <2>2. (\E now : SyncAnd(r, now, next)) /\ UNCHANGED <<versions, proposals>>
    BY <1>6 DEF ReadVisible, rosterVars
  <2> HIDE DEF next
  <2>3. SlotLawful(next, versions)
    BY <1>1, <1>3, <1>4, <2>1 DEF SlotLawful, Entitled, Sweepings
  <2> QED
    BY <1>2, <2>2, <2>3
<1>7. CASE ListVersions(r)
  <2> DEFINE listed == Visible(q.user, q.current)
             step == CASE q.op = "send" -> "lock" [] q.op = "receive" -> "panel"
                       [] OTHER -> "answer"
             next == [q EXCEPT !.listed = listed, !.current = 0,
                               !.left = IF q.op = "receive" THEN listed ELSE {}, !.step = step]
  <2>1. /\ DOMAIN next = DOMAIN q /\ next.op = q.op /\ next.user = q.user
        /\ next.version = q.version /\ next.asset = q.asset /\ next.to = q.to
        /\ next.heads = q.heads /\ next.listed = listed
        /\ next.current = 0 /\ next.step \in {"lock", "panel", "answer"}
    BY <1>1 DEF SlotLawful
  <2>2. Step(r, next) /\ UNCHANGED <<versions, proposals>>
    BY <1>7 DEF ListVersions, rosterVars
  <2>3. /\ listed \subseteq Indices
        /\ \A v \in listed : IsMember(q.user, v) \/ Entitled(q, versions)
    BY <1>1 DEF Visible, MemberOf, Entitled, IsMember, Indices, SlotLawful
  <2> HIDE DEF next, listed, step
  <2>4. SlotLawful(next, versions)
    BY <1>1, <1>3, <2>1, <2>3 DEF SlotLawful, Entitled, IsMember, Indices, Sweepings
  <2> QED
    BY <1>2, <2>2, <2>4
<1>8. CASE LockRecipient(r)
  <2> DEFINE to == IF IsCurrentSigner(q.user, Current) THEN 0 ELSE Current
             next == [q EXCEPT !.to = to, !.step = "answer"]
  <2>1. /\ DOMAIN next = DOMAIN q /\ next.op = q.op /\ next.user = q.user
        /\ next.version = q.version /\ next.asset = q.asset /\ next.to = to
        /\ next.heads = q.heads /\ next.listed = q.listed
        /\ next.current = q.current /\ next.step = "answer"
    BY <1>1 DEF SlotLawful
  <2>2. Step(r, next) /\ UNCHANGED <<versions, proposals>>
    BY <1>8 DEF LockRecipient, rosterVars
  <2>3. to \in q.heads \cup {0}
    BY <1>4
  <2> HIDE DEF next, to
  <2>4. SlotLawful(next, versions)
    BY <1>1, <1>3, <2>1, <2>3 DEF SlotLawful, Entitled, Sweepings
  <2> QED
    BY <1>2, <2>2, <2>4
<1> QED
  BY <1>5, <1>6, <1>7, <1>8

\* What is built for someone who is no current signer pays the version that was.
LEMMA BuildLawful ==
  ASSUME RosterInv, PrivilegeInv, NEW r \in Requests, Build(r)
  PROVE  PrivilegeInv'
<1> DEFINE q == request[r]
           drained == q.asset = "BTC" /\ ~IsCurrentSigner(q.user, q.current)
           built(inputs) ==
             [q EXCEPT
                !.inputs = inputs, !.amount = IF drained THEN 0 ELSE @,
                !.total = IF q.chain = "elements" /\ q.amount = 0 THEN Value(inputs) ELSE 0,
                !.step = IF q.chain = "bitcoin" THEN "describe" ELSE "insert"]
<1>1. SlotsLawful /\ SlotLawful(q, versions)
  BY DEF PrivilegeInv, SlotsLawful
<1>2. UNCHANGED <<versions, proposals>> /\ q.step = "build"
  BY DEF Build, rosterVars, Holds
<1>3. CASE Step(r, Idle)
  BY <1>1, <1>2, <1>3, IdleLawful, OneSlotLawful, LawfulAfter
<1>4. ASSUME NEW inputs \in Selectable(r), Step(r, built(inputs))
      PROVE  PrivilegeInv'
  <2> DEFINE next == built(inputs)
  <2>1. /\ DOMAIN next = DOMAIN q /\ next.op = q.op /\ next.user = q.user
        /\ next.version = q.version /\ next.asset = q.asset /\ next.to = q.to
        /\ next.heads = q.heads /\ next.listed = q.listed
        /\ next.current = q.current /\ next.step \in {"describe", "insert"}
    BY <1>1 DEF SlotLawful
  <2>2. ASSUME q.asset = "BTC"
        PROVE  q.to \in q.heads \/ Entitled(q, versions)
    <3>1. q.current \in q.heads /\ q.current # 0
      BY <1>1, <1>2, <2>2 DEF SlotLawful
    <3>2. CASE IsCurrentSigner(q.user, q.current)
      BY <3>1, <3>2 DEF IsCurrentSigner, IsMember, Entitled
    <3>3. CASE ~IsCurrentSigner(q.user, q.current)
      <4>1. ForwardOnly(r)
        BY <1>4, <2>2, <3>3 DEF Selectable
      <4> QED
        BY <3>1, <4>1 DEF ForwardOnly
    <3> QED
      BY <3>2, <3>3
  <2>3. Step(r, next)
    BY <1>4
  <2> HIDE DEF next
  <2>4. SlotLawful(next, versions)
    BY <1>1, <1>2, <2>1, <2>2 DEF SlotLawful, Entitled, Sweepings
  <2> QED
    BY <1>1, <1>2, <2>3, <2>4, OneSlotLawful, LawfulAfter
<1> QED
  BY <1>3, <1>4 DEF Build

LEMMA AppendIsSeq ==
  ASSUME NEW s, IsSeq(s), NEW e
  PROVE  /\ IsSeq(Append(s, e))
         /\ \A i \in DOMAIN Append(s, e) :
              Append(s, e)[i] = e \/ (i \in DOMAIN s /\ Append(s, e)[i] = s[i])
         /\ DOMAIN s \subseteq DOMAIN Append(s, e)
         /\ \A i \in DOMAIN s : Append(s, e)[i] = s[i]
<1>1. PICK S : s \in Seq(S)
  BY DEF IsSeq
<1>2. s \in Seq(S \cup {e}) /\ e \in S \cup {e}
  BY <1>1
<1>3. Append(s, e) \in Seq(S \cup {e}) /\ Len(Append(s, e)) = Len(s) + 1
  BY <1>2
<1> QED
  BY <1>1, <1>3 DEF IsSeq

\* Describing changes only the total; inserting lets go of the slot.
LEMMA RecordingLawful ==
  ASSUME RosterInv, PrivilegeInv, NEW r \in Requests, Describe(r) \/ InsertProposal(r)
  PROVE  PrivilegeInv'
<1> DEFINE q == request[r]
<1>1. SlotsLawful /\ SlotLawful(q, versions)
  BY DEF PrivilegeInv, SlotsLawful
<1>2. CASE Describe(r)
  <2> DEFINE total == Value(q.inputs \cap Held(q.version, "BTC"))
             next  == [q EXCEPT !.total = total, !.step = Described(q)]
  <2>1. /\ DOMAIN next = DOMAIN q /\ next.op = q.op /\ next.user = q.user
        /\ next.version = q.version /\ next.asset = q.asset /\ next.to = q.to
        /\ next.heads = q.heads /\ next.listed = q.listed
        /\ next.current = q.current /\ next.step = Described(q)
    BY <1>1 DEF SlotLawful
  <2>2. Step(r, next) /\ UNCHANGED <<versions, proposals>> /\ q.step = "describe"
    BY <1>2 DEF Describe, rosterVars, Holds
  <2>3. q.op \in {"create", "migrate"}
    BY <2>2 DEF RosterInv, SlotsSound, SlotSound
  <2>4. \/ next.step = "insert"
        \/ next.step = "store"
        \/ next.step = "open" /\ q.to \in DOMAIN versions
    BY <1>1, <2>1, <2>3 DEF Described, SlotLawful
  <2> HIDE DEF next
  <2>5. SlotLawful(next, versions)
    BY <1>1, <2>1, <2>2, <2>4, LawfulStep DEF Sweepings
  <2> QED
    BY <1>1, <2>2, <2>5, OneSlotLawful, LawfulAfter
<1>3. CASE InsertProposal(r)
  <2> DEFINE p == [version |-> q.version, chain |-> q.chain, by |-> q.user,
                   inputs |-> q.inputs, total |-> q.total, asset |-> q.asset,
                   amount |-> q.amount, to |-> q.to, sweeps |-> 0, status |-> "open"]
  <2>1. /\ proposals' = Append(proposals, p) /\ Step(r, Idle) /\ UNCHANGED versions
        /\ q.step = "insert"
    BY <1>3 DEF InsertProposal, rosterVars, Holds
  <2>2. Placed(p)
    BY <1>1, <2>1 DEF Placed, SlotLawful, Indices
  <2> HIDE DEF p
  <2>3. IsSeq(proposals) /\ \A i \in DOMAIN proposals : Placed(proposals[i])
    BY DEF PrivilegeInv, ProposalsPlaced
  <2>4. IsSeq(proposals') /\ \A i \in DOMAIN proposals' : Placed(proposals'[i])
    BY <2>1, <2>2, <2>3, AppendIsSeq
  <2>5. ProposalsPlaced'
    BY <2>1, <2>4 DEF ProposalsPlaced, Placed, Indices
  <2>6. NextSlotsLawful
    BY <1>1, <2>1, IdleLawful, OneSlotLawful
  <2> QED
    BY <2>1, <2>5, <2>6 DEF PrivilegeInv, NextSlotsLawful, SlotsLawful
<1> QED
  BY <1>2, <1>3

\* The rest of a page grants nothing more.
LEMMA PagesLawful ==
  ASSUME RosterInv, PrivilegeInv, NEW r \in Requests,
         \/ Panel(r) \/ ExternalRows(r) \/ ChangeRows(r) \/ ReserveTotal(r) \/ SyncPage(r)
         \/ ReadBalance(r) \/ Reply(r)
  PROVE  PrivilegeInv'
<1> DEFINE q == request[r]
           Asks(s) == /\ DOMAIN s = DOMAIN q /\ s.op = q.op /\ s.user = q.user
                      /\ s.version = q.version /\ s.asset = q.asset /\ s.to = q.to
                      /\ s.heads = q.heads /\ s.listed = q.listed /\ s.current = q.current
                      /\ s.step \notin {"build", "describe", "insert"} \cup Sweepings
<1>1. SlotsLawful /\ SlotLawful(q, versions)
  BY DEF PrivilegeInv, SlotsLawful
<1>2. UNCHANGED <<versions, proposals>>
  BY DEF Panel, ExternalRows, ChangeRows, ReserveTotal, SyncPage, ReadBalance, Reply, rosterVars
<1>3. ASSUME NEW next, Asks(next), q.step # "idle",
             Step(r, next) \/ \E now : SyncAnd(r, now, next)
      PROVE  PrivilegeInv'
  <2>1. SlotLawful(next, versions)
    BY <1>1, <1>3, LawfulStep
  <2> QED
    BY <1>1, <1>2, <1>3, <2>1, OneSlotLawful, LawfulAfter
<1>4. CASE Panel(r)
  <2> DEFINE v == CHOOSE w \in q.left : \A x \in q.left : x <= w
             next == [q EXCEPT !.left = @ \ {v},
                               !.step = IF v = q.version THEN "external" ELSE "panel"]
  <2>1. Asks(next)
    BY <1>1 DEF SlotLawful, Sweepings
  <2>2. (\E now : SyncAnd(r, now, next)) /\ q.step # "idle"
    BY <1>4 DEF Panel, Holds
  <2> HIDE DEF next, Asks
  <2> QED
    BY <1>3, <2>1, <2>2
<1>5. CASE ExternalRows(r)
  <2> DEFINE next == [q EXCEPT !.rows = UnspentRows(q.version, q.asset, FALSE),
                               !.step = IF q.chain = "bitcoin" THEN "change" ELSE "reserve"]
  <2>1. Asks(next)
    BY <1>1 DEF SlotLawful, Sweepings
  <2>2. Step(r, next) /\ q.step # "idle"
    BY <1>5 DEF ExternalRows, Holds
  <2> HIDE DEF next, Asks
  <2> QED
    BY <1>3, <2>1, <2>2
<1>6. CASE ChangeRows(r)
  <2> DEFINE next == [q EXCEPT !.rows = @ + UnspentRows(q.version, q.asset, TRUE),
                               !.step = "reserve"]
  <2>1. Asks(next)
    BY <1>1 DEF SlotLawful, Sweepings
  <2>2. Step(r, next) /\ q.step # "idle"
    BY <1>6 DEF ChangeRows, Holds
  <2> HIDE DEF next, Asks
  <2> QED
    BY <1>3, <2>1, <2>2
<1>7. CASE ReserveTotal(r)
  <2> DEFINE next == [q EXCEPT
                       !.total = Reserved(q.version, q.chain),
                       !.counted = {p \in InFlightOn(q.version, q.chain) :
                                      q.chain = "elements" => proposals[p].amount = 0},
                       !.step = IF q.op = "manage" THEN "sync" ELSE "balance"]
  <2>1. Asks(next)
    BY <1>1 DEF SlotLawful, Sweepings
  <2>2. Step(r, next) /\ q.step # "idle"
    BY <1>7 DEF ReserveTotal, Holds
  <2> HIDE DEF next, Asks
  <2> QED
    BY <1>3, <2>1, <2>2
<1>8. CASE SyncPage(r)
  <2> DEFINE next == [q EXCEPT !.step = "balance"]
  <2>1. Asks(next)
    BY <1>1 DEF SlotLawful, Sweepings
  <2>2. (\E now : SyncAnd(r, now, next)) /\ q.step # "idle"
    BY <1>8 DEF SyncPage, Holds
  <2> HIDE DEF next, Asks
  <2> QED
    BY <1>3, <2>1, <2>2
<1>9. CASE ReadBalance(r)
  <2> DEFINE basis == Baseline(q.version, q.chain)
             next == [q EXCEPT
                       !.basis = basis, !.spendable = Spendable(Value(basis), q.total),
                       !.balance = Value(Held(q.version, q.asset)), !.total = 0,
                       !.step = IF q.op = "receive" THEN "panel" ELSE "visible"]
  <2>1. Asks(next)
    BY <1>1 DEF SlotLawful, Sweepings
  <2>2. Step(r, next) /\ q.step # "idle"
    BY <1>9 DEF ReadBalance, Holds
  <2> HIDE DEF next, Asks
  <2> QED
    BY <1>3, <2>1, <2>2
<1>10. CASE Reply(r)
  <2>1. Step(r, Idle)
    BY <1>10 DEF Reply
  <2> QED
    BY <1>1, <1>2, <2>1, IdleLawful, OneSlotLawful, LawfulAfter
<1> QED
  BY <1>4, <1>5, <1>6, <1>7, <1>8, <1>9, <1>10

LEMMA MigrateLawful ==
  ASSUME RosterInv, PrivilegeInv, NEW r \in Requests, NEW u \in Users, NEW base \in Indices,
         NEW add, NEW remove, NEW m, Migrate(r, u, base, add, remove, m)
  PROVE  PrivilegeInv'
<1> DEFINE slot == Slot(r, "migrate", u, base, "bitcoin", "describe")
           Asks(s) == /\ {"op", "step", "user", "version", "asset", "to", "current", "listed",
                          "heads", "inputs", "funded", "draft"} \subseteq DOMAIN s
                      /\ s.op = "migrate" /\ s.version = base /\ s.heads = CurrentOf(versions)
                      /\ s.listed = {} /\ s.current = 0 /\ s.to = 0
           synced == [c \in DOMAIN coins |-> Synced(base, Chain(coins[c].asset))[c]]
           seen(a) == {c \in DOMAIN coins : /\ synced[c].owner = base /\ synced[c].asset = a
                                            /\ synced[c].seen \in {"untrusted", "trusted"}}
           all == UNION {seen(a) : a \in Assets}
           funded == {chain \in Chains : seen(Policy(chain)) # {}}
           onBoth(draft) == [[slot EXCEPT !.draft = <<draft>>] EXCEPT
                               !.step = "store", !.inputs = all, !.funded = funded]
           onOne(draft, inputs) == [[slot EXCEPT !.draft = <<draft>>] EXCEPT
                                      !.inputs = inputs, !.funded = {"bitcoin"}]
<1>1. PICK draft : \/ SyncAnd(r, synced, onBoth(draft))
                   \/ \E inputs : Step(r, onOne(draft, inputs))
  BY DEF Migrate
<1>2. Asks(slot) /\ slot.step = "describe"
  BY FreshSlot
<1>3. ASSUME NEW s, Asks(s), s.step \in {"describe", "store"}
      PROVE  SlotLawful(s, versions)
  <2>1. \A v \in s.listed : IsMember(s.user, v) \/ Entitled(s, versions)
    BY <1>3
  <2> HIDE DEF CurrentOf
  <2> QED
    BY <1>3, <2>1, FreshLawful DEF Sweepings
<1> HIDE DEF slot, all, funded, synced
<1>4. Asks(onBoth(draft)) /\ onBoth(draft).step = "store"
  BY <1>2
<1>5. \A inputs : Asks(onOne(draft, inputs)) /\ onOne(draft, inputs).step = "describe"
  BY <1>2
<1> HIDE DEF onBoth, onOne, Asks
<1>6. SlotsLawful /\ UNCHANGED <<versions, proposals>>
  BY DEF PrivilegeInv, Migrate, rosterVars
<1>7. NextSlotsLawful
  BY <1>1, <1>3, <1>4, <1>5, <1>6, OneSlotLawful
<1> QED
  BY <1>6, <1>7, LawfulAfter

-----------------------------------------------------------------------------
(* Steps that write versions *)

\* No request is being served before there is a version.
LEMMA FoundLawful ==
  ASSUME RosterInv, PrivilegeInv, NEW u, NEW picked, NEW m, NEW taproot,
         Found(u, picked, m, taproot)
  PROVE  PrivilegeInv'
<1> DEFINE first == FirstVersion(Resolved(picked \cup {u}), m, taproot)
<1>1. versions = <<>> /\ versions' = <<first>> /\ UNCHANGED <<proposals, request>>
  BY DEF Found, NewFederation
<1>2. first.status = "active"
  BY DEF FirstVersion
<1> HIDE DEF first
<1>3. DOMAIN versions = {} /\ DOMAIN versions' = {1} /\ versions'[1].status = "active"
  BY <1>1, <1>2
<1>4. Headed(versions)'
  BY <1>3 DEF Headed, CurrentOf
<1>5. ProposalsPlaced'
  BY <1>1, <1>3 DEF PrivilegeInv, ProposalsPlaced, Placed, Indices
<1>6. ASSUME NEW r \in Requests
      PROVE  SlotLawful(request[r], versions')
  <2>1. SlotLawful(request[r], versions) /\ request[r].step = "idle"
    BY <1>3 DEF PrivilegeInv, SlotsLawful, SlotLawful
  <2>2. Grown(versions, versions')
    BY <1>3 DEF Grown
  <2> QED
    BY <2>1, <2>2, LawfulGrows
<1> QED
  BY <1>1, <1>4, <1>5, <1>6 DEF PrivilegeInv, SlotsLawful

\* Witnesses of what became current keep what they were granted.
LEMMA WitnessingLawful ==
  ASSUME SlotsLawful, NEW ws, Grown(versions, ws)
  PROVE  /\ DOMAIN Witnessing(ws) = Requests
         /\ \A r \in Requests : SlotLawful(Witnessing(ws)[r], ws)
<1>1. DOMAIN Witnessing(ws) = Requests
  BY DEF Witnessing
<1>2. ASSUME NEW r \in Requests
      PROVE  SlotLawful(Witnessing(ws)[r], ws)
  <2> DEFINE q == request[r]
             s == [q EXCEPT !.heads = q.heads \cup CurrentOf(ws)]
  <2>1. Witnessing(ws)[r] = Idle \/ Witnessing(ws)[r] = s
    BY DEF Witnessing
  <2>2. SlotLawful(q, versions)
    BY DEF SlotsLawful
  <2>3. /\ DOMAIN s = DOMAIN q /\ s.op = q.op /\ s.user = q.user /\ s.version = q.version
        /\ s.asset = q.asset /\ s.heads = q.heads \cup CurrentOf(ws) /\ s.listed = q.listed
        /\ s.to = q.to /\ s.current = q.current /\ s.step = q.step
    BY <2>2 DEF SlotLawful
  <2> HIDE DEF s, q
  <2>4. SlotLawful(s, ws)
    BY <2>2, <2>3, LawfulGrows
  <2> QED
    BY <2>1, <2>4, IdleLawful
<1> QED
  BY <1>1, <1>2

LEMMA FlippedIsHeaded ==
  ASSUME NEW vs \in Seq(Version), NEW v \in DOMAIN vs
  PROVE  Headed(Flipped(vs, v))
<1> DEFINE a == [vs EXCEPT ![v - 1] = [vs[v - 1] EXCEPT !.status = "superseded"]]
           b == [a EXCEPT ![v] = [a[v] EXCEPT !.status = "active"]]
           c == [b EXCEPT ![v] = [b[v] EXCEPT !.migration = "enacted"]]
<1>1. Flipped(vs, v) = c
  BY DEF Flipped
<1>2. v - 1 # v
  <2>1. v \in Nat
    OBVIOUS
  <2> QED
    BY <2>1
<1>3. DOMAIN a = DOMAIN vs /\ a[v] = vs[v]
  BY <1>2
<1>4. vs[v] \in Version
  OBVIOUS
<1>5. {"status", "migration"} \subseteq DOMAIN vs[v]
  BY <1>4 DEF Version
<1> HIDE DEF a
<1>6. DOMAIN b = DOMAIN vs /\ b[v] = [vs[v] EXCEPT !.status = "active"]
  BY <1>3
<1> HIDE DEF b
<1>7. b[v].status = "active" /\ {"status", "migration"} \subseteq DOMAIN b[v]
  BY <1>5, <1>6
<1>8. DOMAIN c = DOMAIN vs /\ c[v] = [b[v] EXCEPT !.migration = "enacted"]
  BY <1>6
<1> HIDE DEF c
<1>9. c[v].status = "active"
  BY <1>7, <1>8
<1> QED
  BY <1>1, <1>8, <1>9 DEF Headed, CurrentOf

LEMMA CancelledKeepsCurrent ==
  ASSUME versions \in Seq(Version), NEW v \in Indices
  PROVE  CurrentOf(Cancelled(v)) = CurrentOf(versions)
<1> DEFINE a == [versions EXCEPT ![v] = [versions[v] EXCEPT !.migration = "cancelled"]]
           status == IF a[v].status = "pending" THEN "abandoned" ELSE a[v].status
           b == [a EXCEPT ![v] = [a[v] EXCEPT !.status = status]]
<1>1. Cancelled(v) = b
  BY DEF Cancelled
<1>2. versions[v] \in Version
  BY DEF Indices
<1>3. {"status", "migration"} \subseteq DOMAIN versions[v]
  BY <1>2 DEF Version
<1>4. /\ DOMAIN a = DOMAIN versions /\ a[v].status = versions[v].status
      /\ "status" \in DOMAIN a[v]
      /\ \A w \in DOMAIN versions : w # v => a[w] = versions[w]
  BY <1>3 DEF Indices
<1> HIDE DEF a
<1>5. status = "active" <=> versions[v].status = "active"
  BY <1>4
<1> HIDE DEF status
<1>6. /\ DOMAIN b = DOMAIN versions /\ b[v].status = status
      /\ \A w \in DOMAIN versions : w # v => b[w] = versions[w]
  BY <1>4 DEF Indices
<1> HIDE DEF b
<1> QED
  BY <1>1, <1>5, <1>6 DEF CurrentOf, Indices

\* What holds after versions have grown.
LEMMA LawfulAfterGrowth ==
  ASSUME PrivilegeInv, Grown(versions, versions'), Headed(versions)', ProposalsPlaced',
         DOMAIN request' = Requests, \A r \in Requests : SlotLawful(request'[r], versions')
  PROVE  PrivilegeInv'
  BY DEF PrivilegeInv, SlotsLawful

LEMMA SameRostersGrow ==
  ASSUME NEW vs, NEW ws, SameRosters(vs, ws)
  PROVE  Grown(vs, ws)
  BY DEF SameRosters, Grown

LEMMA CancelMigrationLawful ==
  ASSUME RosterInv, PrivilegeInv, NEW u, NEW v, CancelMigration(u, v)
  PROVE  PrivilegeInv'
<1>1. /\ v \in Indices /\ versions' = Cancelled(v) /\ UNCHANGED request
      /\ versions \in Seq(Version)
  BY DEF CancelMigration, RosterInv, RosterTypeOK
<1>2. SameRosters(versions, versions')
  BY <1>1, CancelledKeepsRosters
<1>3. Grown(versions, versions') /\ DOMAIN versions' = DOMAIN versions
  BY <1>2, SameRostersGrow DEF SameRosters
<1>4. CurrentOf(versions') = CurrentOf(versions)
  BY <1>1, CancelledKeepsCurrent
<1>5. Headed(versions)'
  BY <1>3, <1>4 DEF PrivilegeInv, Headed
<1>6. ProposalsPlaced'
  <2> DEFINE f(p) == IF proposals[p].sweeps = v /\ proposals[p].status # "broadcast"
                     THEN [proposals[p] EXCEPT !.status = "cancelled"] ELSE proposals[p]
  <2>1. proposals' = [p \in DOMAIN proposals |-> f(p)]
    BY DEF CancelMigration
  <2>2. IsSeq(proposals) /\ \A p \in DOMAIN proposals : Placed(proposals[p])
    BY DEF PrivilegeInv, ProposalsPlaced
  <2>3. \A p \in DOMAIN proposals : Placed(f(p))
    BY <2>2 DEF Placed
  <2> HIDE DEF f
  <2>4. PICK S : proposals \in Seq(S)
    BY <2>2 DEF IsSeq
  <2>5. proposals' \in Seq({f(p) : p \in DOMAIN proposals}) /\ DOMAIN proposals' = DOMAIN proposals
    <3>1. DOMAIN proposals = 1..Len(proposals) /\ Len(proposals) \in Nat
      BY <2>4
    <3> QED
      BY <2>1, <3>1
  <2>6. \A p \in DOMAIN proposals' : Placed(proposals'[p])
    BY <2>1, <2>3, <2>5
  <2> QED
    BY <1>3, <2>5, <2>6 DEF ProposalsPlaced, IsSeq, Placed, Indices
<1>7. ASSUME NEW r \in Requests
      PROVE  SlotLawful(request[r], versions')
  <2>1. SlotLawful(request[r], versions)
    BY DEF PrivilegeInv, SlotsLawful
  <2>2. request[r].step # "idle" => CurrentOf(versions') \subseteq request[r].heads
    BY <1>4, <2>1 DEF SlotLawful
  <2> QED
    BY <1>3, <2>1, <2>2, LawfulGrows
<1>8. DOMAIN request = Requests
  BY DEF PrivilegeInv, SlotsLawful
<1> QED
  BY <1>1, <1>3, <1>5, <1>6, <1>7, <1>8, LawfulAfterGrowth

RowsOf(s) == {s[i] : i \in DOMAIN s}

LEMMA JoinIsSeq ==
  ASSUME NEW s, NEW t, IsSeq(s), IsSeq(t), NEW st, st = s \o t
  PROVE  /\ IsSeq(st) /\ RowsOf(st) = RowsOf(s) \cup RowsOf(t)
         /\ DOMAIN s \subseteq DOMAIN st /\ \A i \in DOMAIN s : st[i] = s[i]
<1>1. PICK S : s \in Seq(S)
  BY DEF IsSeq
<1>2. PICK T : t \in Seq(T)
  BY DEF IsSeq
<1>3. s \in Seq(S \cup T) /\ t \in Seq(S \cup T)
  BY <1>1, <1>2
<1>4. s \o t \in Seq(S \cup T)
  BY <1>3
<1>5. /\ Len(s) \in Nat /\ Len(t) \in Nat /\ Len(s \o t) = Len(s) + Len(t)
      /\ DOMAIN s = 1..Len(s) /\ DOMAIN t = 1..Len(t) /\ DOMAIN (s \o t) = 1..(Len(s) + Len(t))
      /\ \A i \in 1..(Len(s) + Len(t)) :
           (s \o t)[i] = IF i <= Len(s) THEN s[i] ELSE t[i - Len(s)]
  BY <1>3
<1>6. IsSeq(st)
  BY <1>4 DEF IsSeq
<1>7. \A i \in 1..(Len(s) + Len(t)) : st[i] = IF i <= Len(s) THEN s[i] ELSE t[i - Len(s)]
  BY <1>5
<1>8. DOMAIN st = 1..(Len(s) + Len(t))
  BY <1>5
<1>9. ASSUME NEW i \in DOMAIN st \ DOMAIN s
      PROVE  \E j \in DOMAIN t : st[i] = t[j]
  <2>1. ~(i <= Len(s)) /\ i - Len(s) \in 1..Len(t)
    BY <1>5, <1>8
  <2> QED
    BY <1>5, <1>7, <1>8, <2>1
<1>10. ASSUME NEW i \in DOMAIN s
       PROVE  i \in DOMAIN st /\ st[i] = s[i]
  BY <1>5, <1>7, <1>8
<1>11. ASSUME NEW j \in DOMAIN t
       PROVE  \E i \in DOMAIN st : st[i] = t[j]
  <2> DEFINE i == Len(s) + j
  <2>1. i \in 1..(Len(s) + Len(t)) /\ ~(i <= Len(s)) /\ i - Len(s) = j
    BY <1>5
  <2>2. st[i] = t[j]
    BY <1>7, <2>1
  <2> QED
    BY <1>8, <2>1, <2>2
<1>12. RowsOf(st) \subseteq RowsOf(s) \cup RowsOf(t)
  BY <1>9, <1>10 DEF RowsOf
<1>13. RowsOf(s) \subseteq RowsOf(st) /\ RowsOf(t) \subseteq RowsOf(st)
  BY <1>10, <1>11 DEF RowsOf
<1> QED
  BY <1>6, <1>10, <1>12, <1>13

LEMMA ShortSeqs == /\ IsSeq(<< >>) /\ RowsOf(<< >>) = {}
                   /\ \A e : IsSeq(<<e>>) /\ RowsOf(<<e>>) = {e}
<1>1. IsSeq(<< >>)
  <2>1. << >> \in Seq({})
    OBVIOUS
  <2> QED
    BY <2>1, Zenon DEF IsSeq
<1>2. ASSUME NEW e
      PROVE  IsSeq(<<e>>) /\ RowsOf(<<e>>) = {e}
  <2>1. <<e>> \in Seq({e})
    OBVIOUS
  <2>2. IsSeq(<<e>>)
    BY <2>1, Zenon DEF IsSeq
  <2>3. RowsOf(<<e>>) = {e}
    BY DEF RowsOf
  <2> QED
    BY <2>2, <2>3
<1> QED
  BY <1>1, <1>2 DEF RowsOf

\* Storing a migration adds a version that is not current.
LEMMA StoreLawful ==
  ASSUME RosterInv, PrivilegeInv, NEW r \in Requests, Store(r)
  PROVE  PrivilegeInv'
<1> DEFINE q    == request[r]
           base == q.version
           d    == q.draft[1]
           step == IF q.funded = {} THEN "flip"
                   ELSE IF versions[base].elements THEN "sweep" ELSE "open"
           next == [q EXCEPT !.to = base + 1, !.step = step]
<1>1. /\ DraftSound(q) /\ SlotsLawful /\ SlotLawful(q, versions) /\ versions \in Seq(Version)
      /\ q.op = "migrate" /\ q.step = "store" /\ UNCHANGED proposals
  BY DEF PrivilegeInv, RosterInv, RosterTypeOK, SlotsSound, SlotSound, SlotsLawful, Store, Holds
<1>2. base \in Indices /\ d \in Version /\ d.status = "pending"
  BY <1>1 DEF DraftSound
<1>3. CASE Step(r, Idle) /\ UNCHANGED <<versions, proposals>>
  <2>1. NextSlotsLawful
    BY <1>1, <1>3, IdleLawful, OneSlotLawful
  <2> QED
    BY <1>3, <2>1, LawfulAfter
<1>4. CASE Storable(base) /\ versions' = Append(versions, d) /\ Step(r, next)
  <2>1. base = Len(versions) /\ Len(versions) \in Nat /\ DOMAIN versions = 1..Len(versions)
    BY <1>1, <1>4 DEF Storable
  <2>2. /\ DOMAIN versions' = 1..(base + 1) /\ versions'[base + 1] = d
        /\ \A v \in DOMAIN versions : v \in DOMAIN versions' /\ versions'[v] = versions[v]
    BY <1>1, <1>2, <1>4, <2>1
  <2>3. Grown(versions, versions')
    BY <2>2 DEF Grown
  <2>4. CurrentOf(versions') = CurrentOf(versions)
    <3>1. \A v \in DOMAIN versions' : v \in DOMAIN versions \/ v = base + 1
      BY <2>1, <2>2
    <3> QED
      BY <1>2, <2>2, <3>1 DEF CurrentOf
  <2>5. Headed(versions)'
    BY <1>2, <2>4 DEF PrivilegeInv, Headed, Indices
  <2>6. ProposalsPlaced'
    BY <1>1, <2>3 DEF PrivilegeInv, ProposalsPlaced, Placed, Grown, Indices
  <2>7. ASSUME NEW s, SlotLawful(s, versions)
        PROVE  SlotLawful(s, versions')
    <3>1. s.step # "idle" => CurrentOf(versions') \subseteq s.heads
      BY <2>4, <2>7 DEF SlotLawful
    <3> QED
      BY <2>3, <2>7, <3>1, LawfulGrows
  <2>8. SlotLawful(next, versions')
    <3>1. /\ DOMAIN next = DOMAIN q /\ next.op = q.op /\ next.user = q.user
          /\ next.version = q.version /\ next.asset = q.asset /\ next.to = base + 1
          /\ next.heads = q.heads /\ next.listed = q.listed
          /\ next.current = q.current /\ next.step \in Sweepings
      BY <1>1 DEF SlotLawful, Sweepings
    <3>2. base + 1 \in DOMAIN versions'
      BY <2>1, <2>2
    <3>3. SlotLawful(q, versions')
      BY <1>1, <2>7
    <3> HIDE DEF next
    <3> QED
      BY <1>1, <3>1, <3>2, <3>3 DEF SlotLawful, Entitled, Sweepings
  <2>9. DOMAIN request' = Requests /\ \A s \in Requests : SlotLawful(request'[s], versions')
    <3> HIDE DEF next
    <3> QED
      BY <1>1, <1>4, <2>7, <2>8 DEF SlotsLawful, Step
  <2> QED
    BY <2>3, <2>5, <2>6, <2>9, LawfulAfterGrowth
<1> QED
  BY <1>3, <1>4 DEF Store

\* A sweep goes from the base to the version that is stored.
LEMMA SweepingLawful ==
  ASSUME RosterInv, PrivilegeInv, NEW r \in Requests,
         BuildSweep(r) \/ OpenSweep(r) \/ SweepFails(r) \/ Stop(r)
  PROVE  PrivilegeInv'
<1> DEFINE q == request[r]
           Asks(s) == /\ DOMAIN s = DOMAIN q /\ s.op = q.op /\ s.user = q.user
                      /\ s.version = q.version /\ s.asset = q.asset /\ s.to = q.to
                      /\ s.heads = q.heads /\ s.listed = q.listed /\ s.current = q.current
<1>1. SlotsLawful /\ SlotLawful(q, versions) /\ SlotSound(q)
  BY DEF PrivilegeInv, SlotsLawful, RosterInv, SlotsSound
<1>2. UNCHANGED versions
  BY DEF BuildSweep, OpenSweep, SweepFails, Stop, rosterVars
<1>3. ASSUME NEW next, q.step \in Sweepings, Asks(next), next.step \in {"sweep", "open", "describe"}
      PROVE  SlotLawful(next, versions)
  <2>1. q.op = "migrate" /\ q.to \in DOMAIN versions
    BY <1>1, <1>3 DEF SlotLawful, SlotSound, Sweepings
  <2>2. \/ next.step \in Sweepings /\ q.to \in DOMAIN versions
        \/ next.step = "describe" /\ next.op = "migrate"
    BY <1>3, <2>1 DEF Sweepings
  <2>3. q.step # "idle"
    BY <1>3 DEF Sweepings
  <2> QED
    BY <1>1, <1>3, <2>2, <2>3, LawfulStep
<1>4. CASE BuildSweep(r)
  <2> DEFINE onElements(inputs) ==
               [q EXCEPT !.chain = "elements", !.inputs = inputs,
                  !.total = Value(inputs \cap Held(q.version, "L-BTC")), !.step = "open"]
             onBitcoin(inputs) ==
               [q EXCEPT !.chain = "bitcoin", !.inputs = inputs, !.step = "describe"]
  <2>1. q.step \in Sweepings /\ UNCHANGED proposals
    BY <1>4 DEF BuildSweep, Holds, Sweepings
  <2>2. PICK inputs : Step(r, onElements(inputs)) \/ Step(r, onBitcoin(inputs))
    BY <1>4 DEF BuildSweep
  <2>3. \A next \in {onElements(inputs), onBitcoin(inputs)} :
          Asks(next) /\ next.step \in {"sweep", "open", "describe"}
    BY <1>1 DEF SlotLawful
  <2> HIDE DEF onElements, onBitcoin, Asks
  <2>4. \A next \in {onElements(inputs), onBitcoin(inputs)} : SlotLawful(next, versions)
    BY <1>3, <2>1, <2>3
  <2>5. NextSlotsLawful
    BY <1>1, <2>2, <2>4, OneSlotLawful
  <2> QED
    BY <1>2, <2>1, <2>5, LawfulAfter
<1>5. CASE OpenSweep(r)
  <2> DEFINE next == [q EXCEPT !.funded = q.funded \ {q.chain}, !.step = "sweep"]
  <2>1. /\ q.step \in Sweepings /\ q.step # "idle"
        /\ Step(r, Idle) \/ Step(r, next)
        /\ proposals' = Append(proposals, Sweep(q))
    BY <1>5 DEF OpenSweep, Holds, Sweepings
  <2>2. Placed(Sweep(q))
    <3>1. q.version \in Indices /\ q.to \in Indices
      BY <1>1, <2>1 DEF SlotLawful, Indices
    <3> QED
      BY <3>1 DEF Placed, Sweep
  <2>3. IsSeq(proposals) /\ \A i \in DOMAIN proposals : Placed(proposals[i])
    BY DEF PrivilegeInv, ProposalsPlaced
  <2>4. IsSeq(proposals') /\ \A i \in DOMAIN proposals' : Placed(proposals'[i])
    <3>1. PICK p : p = Sweep(q)
      OBVIOUS
    <3> QED
      BY <2>1, <2>2, <2>3, <3>1, AppendIsSeq
  <2>5. ProposalsPlaced'
    BY <1>2, <2>4 DEF ProposalsPlaced, Placed, Indices
  <2>6. Asks(next) /\ next.step = "sweep"
    BY <1>1 DEF SlotLawful
  <2> HIDE DEF next, Asks
  <2>7. NextSlotsLawful
    BY <1>1, <1>3, <2>1, <2>6, IdleLawful, OneSlotLawful
  <2> QED
    BY <1>2, <2>5, <2>7 DEF PrivilegeInv, NextSlotsLawful, SlotsLawful
<1>6. CASE SweepFails(r) \/ Stop(r)
  <2>1. Step(r, Idle) /\ UNCHANGED proposals
    BY <1>6 DEF SweepFails, Stop
  <2>2. NextSlotsLawful
    BY <1>1, <2>1, IdleLawful, OneSlotLawful
  <2> QED
    BY <1>2, <2>1, <2>2, LawfulAfter
<1> QED
  BY <1>4, <1>5, <1>6

LEMMA FlipUnfundedLawful ==
  ASSUME RosterInv, PrivilegeInv, NEW r \in Requests, FlipUnfunded(r)
  PROVE  PrivilegeInv'
<1> DEFINE target == request[r].to
<1>1. /\ versions' = Flipped(versions, target) /\ UNCHANGED proposals
      /\ request' = [Witnessing(versions') EXCEPT ![r] = Idle]
  BY DEF FlipUnfunded
<1>2. SlotsLawful /\ versions \in Seq(Version) /\ target \in DOMAIN versions
  BY DEF PrivilegeInv, RosterInv, RosterTypeOK, SlotsLawful, SlotLawful, FlipUnfunded, Holds,
         Sweepings
<1>3. Grown(versions, versions') /\ Headed(versions') /\ DOMAIN versions' = DOMAIN versions
  BY <1>1, <1>2, FlippedKeepsRosters, FlippedIsHeaded, SameRostersGrow DEF SameRosters
<1>4. ProposalsPlaced'
  BY <1>1, <1>3 DEF PrivilegeInv, ProposalsPlaced, Placed, Indices
<1>5. /\ DOMAIN Witnessing(versions') = Requests
      /\ \A q \in Requests : SlotLawful(Witnessing(versions')[q], versions')
  BY <1>2, <1>3, WitnessingLawful
<1>6. DOMAIN request' = Requests /\ \A q \in Requests : SlotLawful(request'[q], versions')
  BY <1>1, <1>5, IdleLawful
<1> QED
  BY <1>3, <1>4, <1>6, LawfulAfterGrowth

\* What happens to the rows of proposals.
LEMMA RewrittenIsSeq ==
  ASSUME NEW s, IsSeq(s), NEW p, NEW e, NEW t, t = [s EXCEPT ![p] = e]
  PROVE  IsSeq(t) /\ DOMAIN t = DOMAIN s /\ RowsOf(t) \subseteq RowsOf(s) \cup {e}
<1>1. PICK S : s \in Seq(S)
  BY DEF IsSeq
<1>2. s \in [1..Len(s) -> S] /\ Len(s) \in Nat
  BY <1>1
<1>3. t \in [1..Len(s) -> S \cup {e}]
  BY <1>2
<1>4. t \in Seq(S \cup {e})
  BY <1>2, <1>3
<1>5. IsSeq(t)
  BY <1>4, Zenon DEF IsSeq
<1>6. DOMAIN t = DOMAIN s /\ \A i \in DOMAIN t : t[i] = e \/ t[i] = s[i]
  BY <1>2
<1> QED
  BY <1>5, <1>6 DEF RowsOf

LEMMA BroadcastLawful ==
  ASSUME RosterInv, PrivilegeInv, NEW p \in DOMAIN proposals, Broadcast(p)
  PROVE  PrivilegeInv'
<1> DEFINE target == proposals[p].sweeps
           sent == [proposals[p] EXCEPT !.status = "broadcast"]
<1>1. /\ proposals' = [proposals EXCEPT ![p] = sent] /\ request' = Witnessing(versions')
      /\ \/ versions' = versions
         \/ target # 0 /\ versions' = Flipped(versions, target)
  BY DEF Broadcast
<1>2. /\ SlotsLawful /\ versions \in Seq(Version) /\ Headed(versions)
      /\ IsSeq(proposals) /\ \A s \in RowsOf(proposals) : Placed(s)
      /\ Placed(proposals[p])
  BY DEF PrivilegeInv, RosterInv, RosterTypeOK, ProposalsPlaced, RowsOf
<1>3. Grown(versions, versions') /\ Headed(versions') /\ DOMAIN versions' = DOMAIN versions
  <2>1. CASE versions' = versions
    BY <1>2, <2>1 DEF Grown
  <2>2. CASE target # 0 /\ versions' = Flipped(versions, target)
    <3>1. target \in DOMAIN versions
      BY <1>2, <2>2 DEF Placed, Indices
    <3> QED
      BY <1>2, <2>2, <3>1, FlippedKeepsRosters, FlippedIsHeaded, SameRostersGrow
         DEF SameRosters
  <2> QED
    BY <1>1, <2>1, <2>2
<1>4. Placed(sent)
  BY <1>2 DEF Placed
<1> HIDE DEF sent
<1>5. IsSeq(proposals') /\ \A s \in RowsOf(proposals') : Placed(s)
  <2>1. IsSeq(proposals) /\ proposals' = [proposals EXCEPT ![p] = sent]
    BY <1>1, <1>2
  <2>2. IsSeq(proposals') /\ RowsOf(proposals') \subseteq RowsOf(proposals) \cup {sent}
    BY <2>1, RewrittenIsSeq
  <2> QED
    BY <1>2, <1>4, <2>2
<1>6. ProposalsPlaced'
  BY <1>3, <1>5 DEF ProposalsPlaced, RowsOf, Placed, Indices
<1>7. DOMAIN request' = Requests /\ \A q \in Requests : SlotLawful(request'[q], versions')
  BY <1>1, <1>2, <1>3, WitnessingLawful
<1> QED
  BY <1>3, <1>6, <1>7, LawfulAfterGrowth

LEMMA QuietLawful ==
  ASSUME RosterInv, PrivilegeInv,
         \/ \E p \in DOMAIN proposals : CancelProposal(p)
         \/ \E u, v, chain : MaxSpend(u, v, chain)
         \/ \E v, a : Deposit(v, a)
         \/ \E c : Confirm(c)
         \/ Restart
         \/ \E u, d, atPath : OnboardSigner(u, d, atPath)
         \/ UNCHANGED vars
  PROVE  PrivilegeInv'
<1>1. SlotsLawful /\ IsSeq(proposals) /\ \A s \in RowsOf(proposals) : Placed(s)
  BY DEF PrivilegeInv, ProposalsPlaced, RowsOf
<1>2. ASSUME NEW p \in DOMAIN proposals, CancelProposal(p)
      PROVE  PrivilegeInv'
  <2> DEFINE gone == [proposals[p] EXCEPT !.status = "cancelled"]
  <2>1. proposals' = [proposals EXCEPT ![p] = gone] /\ UNCHANGED <<versions, request>>
    BY <1>2 DEF CancelProposal, rosterVars
  <2>2. Placed(gone)
    BY <1>1 DEF Placed, RowsOf
  <2> HIDE DEF gone
  <2>3. IsSeq(proposals') /\ \A s \in RowsOf(proposals') : Placed(s)
    <3>1. IsSeq(proposals) /\ proposals' = [proposals EXCEPT ![p] = gone]
      BY <1>1, <2>1
    <3>2. IsSeq(proposals') /\ RowsOf(proposals') \subseteq RowsOf(proposals) \cup {gone}
      BY <3>1, RewrittenIsSeq
    <3> QED
      BY <1>1, <2>2, <3>2
  <2>4. ProposalsPlaced'
    BY <2>1, <2>3 DEF ProposalsPlaced, RowsOf, Placed, Indices
  <2> QED
    BY <2>1, <2>4 DEF PrivilegeInv, SlotsLawful
<1>3. ASSUME \E u, v, chain : MaxSpend(u, v, chain)
      PROVE  PrivilegeInv'
  <2>1. UNCHANGED <<versions, proposals>> /\ \E now : request' = Noticing(now)
    BY <1>3 DEF MaxSpend, rosterVars
  <2>2. NextSlotsLawful
    BY <1>1, <2>1, NoticingLawful DEF NextSlotsLawful
  <2> QED
    BY <2>1, <2>2, LawfulAfter
<1>4. ASSUME Restart
      PROVE  PrivilegeInv'
  <2>1. UNCHANGED <<versions, proposals>> /\ request' = [r \in Requests |-> Idle]
    BY <1>4 DEF Restart, rosterVars
  <2>2. NextSlotsLawful
    BY <2>1, IdleLawful DEF NextSlotsLawful
  <2> QED
    BY <2>1, <2>2, LawfulAfter
<1>5. ASSUME \/ \E v, a : Deposit(v, a)
             \/ \E c : Confirm(c)
             \/ \E u, d, atPath : OnboardSigner(u, d, atPath)
             \/ UNCHANGED vars
      PROVE  PrivilegeInv'
  <2>1. UNCHANGED <<versions, proposals, request>>
    BY <1>5 DEF Deposit, Confirm, OnboardSigner, Onboard, vars, rosterVars
  <2>2. NextSlotsLawful
    BY <1>1, <2>1 DEF SlotsLawful, NextSlotsLawful
  <2> QED
    BY <2>1, <2>2, LawfulAfter
<1> QED
  BY <1>2, <1>3, <1>4, <1>5

LEMMA PrivilegeInvInductive ==
  ASSUME RosterInv, PrivilegeInv, [Next]_vars
  PROVE  PrivilegeInv'
<1>1. mix.users \subseteq Users
  BY VaultAssumption DEF RosterInv
<1>2. CASE Rosters
  <2>1. ASSUME NEW r \in Requests, NEW u \in mix.users, NEW base \in Indices,
               NEW plan \in mix.plans, Migrate(r, u, base, plan.add, plan.remove, plan.m)
        PROVE  PrivilegeInv'
    BY <1>1, <2>1, MigrateLawful
  <2>2. ASSUME NEW u, NEW d, NEW atPath, OnboardSigner(u, d, atPath)
        PROVE  PrivilegeInv'
    BY <2>2, QuietLawful
  <2>3. ASSUME NEW u, NEW picked, NEW m, NEW taproot, Found(u, picked, m, taproot)
        PROVE  PrivilegeInv'
    BY <2>3, FoundLawful
  <2> QED
    BY <1>2, <2>1, <2>2, <2>3, CancelMigrationLawful DEF Rosters
<1>3. ASSUME NEW r \in Requests, Creation(r)
      PROVE  PrivilegeInv'
  BY <1>3, ArrivalsLawful, ReadingsLawful, BuildLawful, RecordingLawful DEF Creation
<1>4. ASSUME NEW r \in Requests, Viewing(r)
      PROVE  PrivilegeInv'
  BY <1>4, ArrivalsLawful, ReadingsLawful, PagesLawful DEF Viewing
<1>5. CASE Money
  BY <1>5, BroadcastLawful, QuietLawful DEF Money
<1>6. CASE UNCHANGED vars
  BY <1>6, QuietLawful
<1>7. ASSUME NEW r \in Requests, Sweeping(r)
      PROVE  PrivilegeInv'
  BY <1>7, StoreLawful, SweepingLawful, FlipUnfundedLawful DEF Sweeping
<1> QED
  BY <1>2, <1>3, <1>4, <1>5, <1>6, <1>7 DEF Next

LEMMA InitialInvs ==
  ASSUME RosterTypeOK, RostersFollow, Headed(versions), Init
  PROVE  RosterInv /\ PrivilegeInv
<1>1. SlotsSound
  BY IdleSound DEF SlotsSound, Init
<1>2. RosterInv
  BY <1>1, RosterInvSuffices DEF RosterInv, Init
<1>3. ProposalsPlaced
  <2>1. DOMAIN proposals = {} /\ IsSeq(proposals)
    BY ShortSeqs DEF Init
  <2> QED
    BY <2>1 DEF ProposalsPlaced
<1>4. SlotsLawful
  BY IdleLawful DEF SlotsLawful, Init
<1> QED
  BY <1>2, <1>3, <1>4 DEF PrivilegeInv

\* In a lineage whose rosters are sound and whose versions, if it has any, have
\* a current one: whatever flips while a request is served, what it stores and
\* shows is within what a version that was current meanwhile allows its user
\* (proposals.rs:113, db.rs:1170, federations.rs:519).
THEOREM PrivilegesWereHeld ==
  RosterTypeOK /\ RostersFollow /\ Headed(versions) /\ Spec => []PrivilegeWasHeld
<1>1. RosterTypeOK /\ RostersFollow /\ Headed(versions) /\ Init => RosterInv /\ PrivilegeInv
  BY InitialInvs
<1>2. RosterInv /\ PrivilegeInv /\ [Next]_vars => RosterInv' /\ PrivilegeInv'
  BY RosterInvInductive, PrivilegeInvInductive
<1>3. PrivilegeInv => PrivilegeWasHeld
  BY PrivilegeInvSuffices DEF PrivilegeInv
<1> QED
  BY <1>1, <1>2, <1>3, PTL DEF Spec

-----------------------------------------------------------------------------
(* Coins *)

CoinLike(c) == /\ {"owner", "asset", "change", "confirmed", "spent", "seen"} \subseteq DOMAIN c
               /\ c.asset \in Assets
CoinsShaped == IsSeq(coins) /\ \A c \in RowsOf(coins) : CoinLike(c)

\* Gone, or known to the wallet that owns it as there to spend.
Unspent  == {"untrusted", "trusted"}
Known(c) == c.spent \/ c.seen \in Unspent

\* What any step but a restart makes of a coin.
CoinFollows(c, d) ==
  /\ CoinLike(d) /\ d.owner = c.owner /\ d.asset = c.asset
  /\ (c.spent => d.spent) /\ (Known(c) => Known(d))
CoinsFollow(cs, ds) ==
  /\ IsSeq(ds) /\ \A c \in RowsOf(ds) : CoinLike(c)
  /\ DOMAIN cs \subseteq DOMAIN ds /\ \A c \in DOMAIN cs : CoinFollows(cs[c], ds[c])

LEMMA StandingFollows ==
  ASSUME NEW c \in DOMAIN coins, CoinLike(coins[c])
  PROVE  LET d == [coins[c] EXCEPT !.seen = Standing(c)]
         IN  CoinFollows(coins[c], d) /\ Known(d)
<1> DEFINE d == [coins[c] EXCEPT !.seen = Standing(c)]
<1>1. /\ DOMAIN d = DOMAIN coins[c] /\ d.owner = coins[c].owner /\ d.asset = coins[c].asset
      /\ d.spent = coins[c].spent /\ d.seen = Standing(c)
  BY DEF CoinLike
<1> HIDE DEF d
<1>2. coins[c].spent \/ Standing(c) \in Unspent
  BY DEF Standing, Unspent
<1> QED
  BY <1>1, <1>2 DEF CoinFollows, CoinLike, Known

\* A step that rewrites coins one by one.
LEMMA PointwiseFollow ==
  ASSUME CoinsShaped, NEW ds, DOMAIN ds = DOMAIN coins, ds = [c \in DOMAIN coins |-> ds[c]],
         \A c \in DOMAIN coins : CoinFollows(coins[c], ds[c])
  PROVE  CoinsFollow(coins, ds)
<1>1. PICK S : coins \in Seq(S)
  BY DEF CoinsShaped, IsSeq
<1>2. DOMAIN ds = 1..Len(coins) /\ Len(coins) \in Nat
  BY <1>1
<1>3. ds \in Seq({ds[c] : c \in DOMAIN ds})
  BY <1>2
<1>4. IsSeq(ds)
  BY <1>3, Zenon DEF IsSeq
<1>5. \A c \in RowsOf(ds) : CoinLike(c)
  BY DEF RowsOf, CoinFollows
<1> QED
  BY <1>4, <1>5 DEF CoinsFollow

LEMMA SameCoins ==
  ASSUME CoinsShaped
  PROVE  \A c \in DOMAIN coins : CoinLike(coins[c]) /\ CoinFollows(coins[c], coins[c])
  BY DEF CoinsShaped, RowsOf, CoinFollows

LEMMA SyncFollows ==
  ASSUME CoinsShaped, NEW v, NEW chain
  PROVE  CoinsFollow(coins, Synced(v, chain))
<1> DEFINE ds == Synced(v, chain)
<1>1. DOMAIN ds = DOMAIN coins /\ ds = [c \in DOMAIN coins |-> ds[c]]
  BY DEF Synced
<1>2. ASSUME NEW c \in DOMAIN coins
      PROVE  CoinFollows(coins[c], ds[c])
  <2>1. ds[c] = coins[c] \/ ds[c] = [coins[c] EXCEPT !.seen = Standing(c)]
    BY DEF Synced
  <2> QED
    BY <2>1, SameCoins, StandingFollows
<1> HIDE DEF ds
<1>3. CoinsFollow(coins, ds)
  BY <1>1, <1>2, PointwiseFollow
<1> QED
  BY <1>3 DEF ds

LEMMA AppendRows ==
  ASSUME NEW s, IsSeq(s), NEW e
  PROVE  RowsOf(Append(s, e)) \subseteq RowsOf(s) \cup {e}
  BY AppendIsSeq DEF RowsOf

\* What a transaction pays out.
LEMMA OutputsAreCoins ==
  ASSUME NEW v, NEW inputs, NEW to, NEW pays
  PROVE  /\ IsSeq(Outputs(v, inputs, to, pays))
         /\ \A o \in RowsOf(Outputs(v, inputs, to, pays)) : CoinLike(o)
<1> DEFINE Good(s) == IsSeq(s) /\ \A o \in RowsOf(s) : CoinLike(o)
           paid(a) == Output(to, a, FALSE, pays[a])
           kept(a) == Output(v, a, TRUE, Value({c \in inputs : coins[c].asset = a}) - pays[a])
<1>1. ASSUME NEW w, NEW a \in Assets, NEW isChange, NEW value
      PROVE  Good(Output(w, a, isChange, value))
  <2>1. CoinLike(NewCoin(w, a, isChange, value))
    BY DEF CoinLike, NewCoin
  <2>2. Output(w, a, isChange, value) \in {<< >>, <<NewCoin(w, a, isChange, value)>>}
    BY DEF Output
  <2> QED
    BY <2>1, <2>2, ShortSeqs
<1>2. \A a \in Assets : Good(paid(a)) /\ Good(kept(a))
  BY <1>1
<1>3. ASSUME NEW s, NEW t, Good(s), Good(t)
      PROVE  Good(s \o t)
  <2>1. IsSeq(s) /\ IsSeq(t)
    BY <1>3
  <2>2. IsSeq(s \o t) /\ RowsOf(s \o t) = RowsOf(s) \cup RowsOf(t)
    BY <2>1, JoinIsSeq
  <2> QED
    BY <1>3, <2>2
<1>4. Outputs(v, inputs, to, pays) =
        paid("BTC") \o paid("L-BTC") \o paid("issued")
          \o kept("BTC") \o kept("L-BTC") \o kept("issued")
  BY DEF Outputs
<1>5. {"BTC", "L-BTC", "issued"} = Assets
  BY DEF Assets
<1> HIDE DEF Good, paid, kept
<1>6. Good(paid("BTC") \o paid("L-BTC") \o paid("issued")
             \o kept("BTC") \o kept("L-BTC") \o kept("issued"))
  <2>1. Good(paid("BTC") \o paid("L-BTC"))
    BY <1>2, <1>3, <1>5
  <2>2. Good(paid("BTC") \o paid("L-BTC") \o paid("issued"))
    BY <1>2, <1>3, <1>5, <2>1
  <2>3. Good(paid("BTC") \o paid("L-BTC") \o paid("issued") \o kept("BTC"))
    BY <1>2, <1>3, <1>5, <2>2
  <2>4. Good(paid("BTC") \o paid("L-BTC") \o paid("issued") \o kept("BTC") \o kept("L-BTC"))
    BY <1>2, <1>3, <1>5, <2>3
  <2> QED
    BY <1>2, <1>3, <1>5, <2>4
<1> QED
  BY <1>4, <1>6 DEF Good

LEMMA SpendingFollows ==
  ASSUME CoinsShaped, NEW inputs, NEW outputs, IsSeq(outputs),
         \A o \in RowsOf(outputs) : CoinLike(o)
  PROVE  CoinsFollow(coins, Spending(inputs, outputs))
<1> DEFINE ds == [c \in DOMAIN coins |-> IF c \in inputs THEN [coins[c] EXCEPT !.spent = TRUE]
                                         ELSE coins[c]]
<1>1. ASSUME NEW c \in DOMAIN coins
      PROVE  CoinFollows(coins[c], ds[c])
  <2> DEFINE d == [coins[c] EXCEPT !.spent = TRUE]
  <2>1. CoinLike(coins[c])
    BY SameCoins
  <2>2. /\ DOMAIN d = DOMAIN coins[c] /\ d.owner = coins[c].owner /\ d.asset = coins[c].asset
        /\ d.spent
    BY <2>1 DEF CoinLike
  <2>3. ds[c] = d \/ ds[c] = coins[c]
    OBVIOUS
  <2> HIDE DEF d
  <2>4. CoinFollows(coins[c], d)
    BY <2>1, <2>2 DEF CoinFollows, CoinLike, Known
  <2> QED
    BY <2>3, <2>4, SameCoins
<1>2. DOMAIN ds = DOMAIN coins /\ ds = [c \in DOMAIN coins |-> ds[c]]
  OBVIOUS
<1>3. Spending(inputs, outputs) = ds \o outputs
  BY DEF Spending
<1> HIDE DEF ds
<1>4. CoinsFollow(coins, ds)
  BY <1>1, <1>2, PointwiseFollow
<1>5. PICK es : es = ds \o outputs
  OBVIOUS
<1>6. IsSeq(ds) /\ \A c \in RowsOf(ds) : CoinLike(c)
  BY <1>4 DEF CoinsFollow
<1>7. /\ IsSeq(es) /\ RowsOf(es) = RowsOf(ds) \cup RowsOf(outputs)
      /\ DOMAIN ds \subseteq DOMAIN es /\ \A c \in DOMAIN ds : es[c] = ds[c]
  <2>1. IsSeq(ds) /\ IsSeq(outputs)
    BY <1>6
  <2>2. IsSeq(es) /\ RowsOf(es) = RowsOf(ds) \cup RowsOf(outputs)
    BY <1>5, <2>1, JoinIsSeq
  <2>3. DOMAIN ds \subseteq DOMAIN es /\ \A c \in DOMAIN ds : es[c] = ds[c]
    BY <1>5, <2>1, JoinIsSeq
  <2> QED
    BY <2>2, <2>3
<1>8. \A c \in RowsOf(es) : CoinLike(c)
  BY <1>6, <1>7
<1>9. \A c \in DOMAIN coins : CoinFollows(coins[c], es[c])
  BY <1>1, <1>2, <1>7
<1>10. DOMAIN coins \subseteq DOMAIN es
  BY <1>2, <1>7
<1>11. CoinsFollow(coins, es)
  BY <1>7, <1>8, <1>9, <1>10 DEF CoinsFollow
<1> QED
  BY <1>3, <1>5, <1>11

\* No step but a restart makes a wallet forget a coin.
LEMMA CoinsStep ==
  ASSUME CoinsShaped, [Next]_vars, ~Restart
  PROVE  CoinsFollow(coins, coins')
<1>1. ASSUME \E v, chain : coins' = Synced(v, chain)
      PROVE  CoinsFollow(coins, coins')
  BY <1>1, SyncFollows
<1>2. ASSUME UNCHANGED coins
      PROVE  CoinsFollow(coins, coins')
  BY <1>2, SameCoins DEF CoinsShaped, CoinsFollow
<1>3. ASSUME NEW now, now = [c \in DOMAIN coins |-> now[c]], coins' = now,
             \A c \in DOMAIN coins : now[c] = coins[c] \/ \E v, chain : now[c] = Synced(v, chain)[c]
      PROVE  CoinsFollow(coins, coins')
  <2>1. ASSUME NEW c \in DOMAIN coins
        PROVE  CoinFollows(coins[c], now[c])
    BY <1>3, SameCoins, SyncFollows DEF CoinsFollow
  <2>2. DOMAIN now = DOMAIN coins
    BY <1>3
  <2> QED
    BY <1>3, <2>1, <2>2, PointwiseFollow
<1>4. CASE Rosters
  <2>1. ASSUME NEW r, NEW u, NEW base, NEW add, NEW remove, NEW m,
               Migrate(r, u, base, add, remove, m)
        PROVE  CoinsFollow(coins, coins')
    <3> DEFINE synced == [c \in DOMAIN coins |-> Synced(base, Chain(coins[c].asset))[c]]
    <3>1. UNCHANGED coins \/ coins' = synced
      BY <2>1 DEF Migrate, SyncAnd
    <3>2. ASSUME coins' = synced
          PROVE  CoinsFollow(coins, coins')
      BY <1>3, <3>2
    <3> QED
      BY <1>2, <3>1, <3>2
  <2>2. UNCHANGED coins \/ \E r, u, base, add, remove, m : Migrate(r, u, base, add, remove, m)
    BY <1>4 DEF Rosters, OnboardSigner, Found, CancelMigration
  <2> QED
    BY <1>2, <2>1, <2>2
<1>5. ASSUME NEW r \in Requests, Creation(r)
      PROVE  CoinsFollow(coins, coins')
  BY <1>1, <1>2, <1>5
     DEF Creation, RequestCreate, SyncAnd, CheckStatus, Build, Describe, InsertProposal
<1>6. ASSUME NEW r \in Requests, Viewing(r)
      PROVE  CoinsFollow(coins, coins')
  <2>1. CASE ReadVisible(r)
    <3> DEFINE lineage == [c \in DOMAIN coins |-> IF Chain(coins[c].asset) = "bitcoin"
                             THEN Synced(coins[c].owner, "bitcoin")[c] ELSE coins[c]]
    <3>1. coins' = lineage \/ UNCHANGED coins
      BY <2>1 DEF ReadVisible, SyncAnd
    <3>2. ASSUME coins' = lineage
          PROVE  CoinsFollow(coins, coins')
      BY <1>3, <3>2
    <3> QED
      BY <1>2, <3>1, <3>2
  <2>2. CASE ~ReadVisible(r)
    <3>1. UNCHANGED coins \/ \E v, chain : coins' = Synced(v, chain)
      BY <1>6, <2>2
         DEF Viewing, OpenPage, OpenSend, Show, Detail, ListVersions, LockRecipient, Panel,
             ExternalRows, ChangeRows, ReserveTotal, SyncPage, ReadBalance, Reply, SyncAnd
    <3> QED
      BY <1>1, <1>2, <3>1
  <2> QED
    BY <2>1, <2>2
<1>7. CASE Money
  <2>1. ASSUME NEW p, Broadcast(p)
        PROVE  CoinsFollow(coins, coins')
    <3>1. \E v, inputs, to, pays :
            coins' = Spending(inputs, Outputs(v, inputs, to, pays))
      BY <2>1 DEF Broadcast
    <3> QED
      BY <3>1, OutputsAreCoins, SpendingFollows
  <2>2. ASSUME NEW v, NEW a \in Assets, Deposit(v, a)
        PROVE  CoinsFollow(coins, coins')
    <3> DEFINE new == NewCoin(v, a, FALSE, DepositValue)
    <3>1. coins' = Append(coins, new)
      BY <2>2 DEF Deposit, Deposited
    <3>2. CoinLike(new)
      BY DEF NewCoin, CoinLike
    <3> HIDE DEF new
    <3>3. IsSeq(coins) /\ \A c \in RowsOf(coins) : CoinLike(c)
      BY DEF CoinsShaped
    <3>4. /\ IsSeq(coins') /\ DOMAIN coins \subseteq DOMAIN coins'
          /\ \A c \in DOMAIN coins : coins'[c] = coins[c]
      BY <3>1, <3>3, AppendIsSeq
    <3>5. \A c \in RowsOf(coins') : CoinLike(c)
      BY <3>1, <3>2, <3>3, AppendRows
    <3> QED
      BY <3>4, <3>5, SameCoins DEF CoinsFollow
  <2>3. ASSUME NEW c \in DOMAIN coins, Confirm(c)
        PROVE  CoinsFollow(coins, coins')
    <3> DEFINE d == [coins[c] EXCEPT !.confirmed = TRUE]
    <3>1. CoinLike(coins[c])
      BY SameCoins
    <3>2. coins' = [coins EXCEPT ![c] = d]
      BY <2>3 DEF Confirm, Confirmed
    <3>3. /\ DOMAIN d = DOMAIN coins[c] /\ d.owner = coins[c].owner /\ d.asset = coins[c].asset
          /\ d.spent = coins[c].spent /\ d.seen = coins[c].seen
      BY <3>1 DEF CoinLike
    <3> HIDE DEF d
    <3>4. CoinFollows(coins[c], d)
      BY <3>1, <3>3 DEF CoinFollows, CoinLike, Known
    <3>5. coins \in [DOMAIN coins -> RowsOf(coins)]
      <4>1. PICK S : coins \in Seq(S)
        BY DEF CoinsShaped, IsSeq
      <4> QED
        BY <4>1 DEF RowsOf
    <3>6. /\ DOMAIN coins' = DOMAIN coins /\ coins' = [x \in DOMAIN coins |-> coins'[x]]
          /\ \A x \in DOMAIN coins : coins'[x] = IF x = c THEN d ELSE coins[x]
      BY <3>2, <3>5
    <3>7. \A x \in DOMAIN coins : CoinFollows(coins[x], coins'[x])
      BY <3>4, <3>6, SameCoins
    <3> QED
      BY <3>6, <3>7, PointwiseFollow
  <2>4. ASSUME \/ \E p : CancelProposal(p)
               \/ \E u, v, chain : MaxSpend(u, v, chain)
        PROVE  CoinsFollow(coins, coins')
    <3>1. UNCHANGED coins \/ \E v, chain : coins' = Synced(v, chain)
      BY <2>4 DEF CancelProposal, MaxSpend
    <3> QED
      BY <1>1, <1>2, <3>1
  <2> QED
    BY <1>7, <2>1, <2>2, <2>3, <2>4 DEF Money
<1>8. CASE UNCHANGED vars
  BY <1>2, <1>8 DEF vars
<1>9. ASSUME NEW r \in Requests, Sweeping(r)
      PROVE  CoinsFollow(coins, coins')
  BY <1>2, <1>9
     DEF Sweeping, Store, BuildSweep, OpenSweep, FlipUnfunded, SweepFails, Stop
<1> QED
  BY <1>4, <1>5, <1>6, <1>7, <1>8, <1>9 DEF Next

-----------------------------------------------------------------------------
(* Slots *)

\* An issued asset without any L-BTC to pay for its sweep.
Alone(c, seen, cs) == cs[c].asset = "issued" /\ \A d \in seen : cs[d].asset # "L-BTC"

\* Coins of a version that are there to spend, as far as its wallets know.
OfVersion(v, seen, cs) ==
  seen \subseteq DOMAIN cs /\ \A c \in seen : cs[c].owner = v /\ Known(cs[c])

\* What a request counts as funded is where its coins are, and what it is about
\* to open a sweep of has those that had been seen on its chain.
Funds(q, cs) == \A c \in q.inputs : Chain(cs[c].asset) \in q.funded \/ Alone(c, q.inputs, cs)
Covers(q, seen, cs) ==
  \A c \in seen : Chain(cs[c].asset) = q.chain =>
    cs[c].spent \/ c \in q.inputs \/ Alone(c, seen, cs)

\* A migration carries, until it is stored, the coins of its base it has seen;
\* from then on the history (ks) has them, by the version they are to be swept to.
Fields(q) == {"op", "step", "version", "chain", "inputs", "to", "funded"} \subseteq DOMAIN q
Carrying  == {"describe", "store", "sweep", "open", "flip"}
SlotSees(q, ks, cs) ==
  /\ Fields(q)
  /\ q.op = "migrate" =>
       /\ q.step \in Carrying
       /\ q.step = "store" => q.to = 0
       /\ q.step = "flip" => q.funded = {}
       /\ q.to = 0 => OfVersion(q.version, q.inputs, cs) /\ Funds(q, cs)
       /\ q.to # 0 => OfVersion(q.version, ks[q.to], cs)
       /\ q.to # 0 /\ q.step \in {"describe", "open"} => Covers(q, ks[q.to], cs)
SlotsSee == \A r \in Requests : SlotSees(request[r], known, coins)

\* A step that leaves a migration as it was, and makes no other.
SameSlot(q, s)  == /\ s.op = q.op /\ s.step = q.step /\ s.version = q.version
                   /\ s.chain = q.chain /\ s.inputs = q.inputs /\ s.to = q.to
                   /\ s.funded = q.funded
Carries(q, s)   == Fields(s) /\ (q.op = "migrate" \/ s.op = "migrate" => SameSlot(q, s))
SlotsCarry(R)   == \A q \in Requests \ R : Carries(request[q], request'[q])

LEMMA IdleFields == Fields(Idle) /\ Idle.op = "none"
  BY DEF Fields, Idle

LEMMA IdleSees == \A ks, cs : SlotSees(Idle, ks, cs)
  BY IdleFields DEF SlotSees

\* As coins go on, what is said of them stays true.
LEMMA CoinsGoOn ==
  ASSUME NEW cs, NEW ds, CoinsFollow(cs, ds), NEW seen, seen \subseteq DOMAIN cs
  PROVE  /\ \A v : OfVersion(v, seen, cs) => OfVersion(v, seen, ds)
         /\ \A c \in seen : Alone(c, seen, cs) => Alone(c, seen, ds)
         /\ \A c \in seen : ds[c].asset = cs[c].asset /\ (cs[c].spent => ds[c].spent)
<1>1. /\ DOMAIN cs \subseteq DOMAIN ds
      /\ \A c \in DOMAIN cs : /\ ds[c].owner = cs[c].owner /\ ds[c].asset = cs[c].asset
                              /\ (Known(cs[c]) => Known(ds[c])) /\ (cs[c].spent => ds[c].spent)
  BY DEF CoinsFollow, CoinFollows
<1>2. \A v : OfVersion(v, seen, cs) => OfVersion(v, seen, ds)
  BY <1>1 DEF OfVersion
<1>3. \A c \in seen : Alone(c, seen, cs) => Alone(c, seen, ds)
  BY <1>1 DEF Alone
<1> QED
  BY <1>1, <1>2, <1>3

LEMMA CarriedSees ==
  ASSUME NEW q, NEW s, NEW ks, NEW ls, NEW cs, NEW ds, SlotSees(q, ks, cs), CoinsFollow(cs, ds),
         Carries(q, s), q.op = "migrate" /\ q.to # 0 => ls[q.to] = ks[q.to]
  PROVE  SlotSees(s, ls, ds)
<1>1. CASE s.op # "migrate"
  BY <1>1 DEF SlotSees, Carries
<1>2. CASE s.op = "migrate"
  <2>1. q.op = "migrate" /\ SameSlot(q, s) /\ Fields(s)
    BY <1>2 DEF Carries, SameSlot
  <2>2. /\ s.step \in Carrying /\ (s.step = "store" => s.to = 0)
        /\ s.step = "flip" => s.funded = {}
    BY <2>1 DEF SlotSees, SameSlot
  <2>3. ASSUME s.to = 0
        PROVE  OfVersion(s.version, s.inputs, ds) /\ Funds(s, ds)
    <3>1. OfVersion(q.version, q.inputs, cs) /\ Funds(q, cs)
      BY <2>1, <2>3 DEF SlotSees, SameSlot
    <3>2. q.inputs \subseteq DOMAIN cs
      BY <3>1 DEF OfVersion
    <3>3. /\ OfVersion(q.version, q.inputs, ds)
          /\ \A c \in q.inputs : Alone(c, q.inputs, cs) => Alone(c, q.inputs, ds)
          /\ \A c \in q.inputs : ds[c].asset = cs[c].asset
      BY <3>1, <3>2, CoinsGoOn
    <3>4. Funds(q, ds)
      BY <3>1, <3>3 DEF Funds
    <3> QED
      BY <2>1, <3>3, <3>4 DEF SameSlot, Funds
  <2>4. ASSUME s.to # 0
        PROVE  /\ OfVersion(s.version, ls[s.to], ds)
               /\ s.step \in {"describe", "open"} => Covers(s, ls[s.to], ds)
    <3> DEFINE seen == ks[q.to]
    <3>1. /\ OfVersion(q.version, seen, cs) /\ ls[s.to] = seen
          /\ q.step \in {"describe", "open"} => Covers(q, seen, cs)
      BY <2>1, <2>4 DEF SlotSees, SameSlot
    <3> HIDE DEF seen
    <3>2. seen \subseteq DOMAIN cs
      BY <3>1 DEF OfVersion
    <3>3. /\ OfVersion(q.version, seen, ds)
          /\ \A c \in seen : Alone(c, seen, cs) => Alone(c, seen, ds)
          /\ \A c \in seen : ds[c].asset = cs[c].asset /\ (cs[c].spent => ds[c].spent)
      BY <3>1, <3>2, CoinsGoOn
    <3>4. ASSUME Covers(q, seen, cs)
          PROVE  Covers(s, seen, ds)
      BY <2>1, <3>3, <3>4 DEF Covers, SameSlot
    <3> QED
      BY <2>1, <3>1, <3>3, <3>4 DEF SameSlot
  <2> QED
    BY <1>2, <2>1, <2>2, <2>3, <2>4 DEF SlotSees
<1> QED
  BY <1>1, <1>2

LEMMA NoticingCarries ==
  ASSUME SlotsSee, NEW now, NEW q \in Requests
  PROVE  Carries(request[q], Noticing(now)[q])
<1> DEFINE s == Noticing(now)[q]
<1>1. s = request[q] \/ \E x : s = [request[q] EXCEPT !.moved = x]
  BY DEF Noticing
<1>2. Fields(request[q])
  BY DEF SlotsSee, SlotSees
<1> HIDE DEF s
<1>3. Carries(request[q], s)
  BY <1>1, <1>2 DEF Fields, Carries, SameSlot
<1> QED
  BY <1>3 DEF s

LEMMA WitnessingCarries ==
  ASSUME SlotsSee, NEW vs, NEW q \in Requests
  PROVE  Carries(request[q], Witnessing(vs)[q])
<1> DEFINE s == Witnessing(vs)[q]
<1>1. \/ s = Idle /\ request[q].step = "idle"
      \/ \E x : s = [request[q] EXCEPT !.heads = x]
  BY DEF Witnessing, Holds
<1>2. Fields(request[q]) /\ (request[q].step = "idle" => request[q].op # "migrate")
  BY DEF SlotsSee, SlotSees, Carrying
<1> HIDE DEF s
<1>3. Carries(request[q], s)
  BY <1>1, <1>2, IdleFields DEF Fields, Carries, SameSlot
<1> QED
  BY <1>3 DEF s

LEMMA UnchangedSlotsCarry ==
  ASSUME SlotsSee, UNCHANGED request
  PROVE  SlotsCarry({})
  BY DEF SlotsSee, SlotSees, SlotsCarry, Carries, SameSlot

LEMMA OneSlotCarries ==
  ASSUME SlotsSound, SlotsSee, NEW r \in Requests, NEW next,
         Step(r, next) \/ \E now : SyncAnd(r, now, next)
  PROVE  request'[r] = next /\ SlotsCarry({r})
<1>1. DOMAIN request = Requests /\ \A q \in Requests : Fields(request[q])
  BY DEF SlotsSound, SlotsSee, SlotSees
<1>2. CASE Step(r, next)
  BY <1>1, <1>2 DEF Step, SlotsCarry, Carries, SameSlot
<1>3. ASSUME NEW now, SyncAnd(r, now, next)
      PROVE  request'[r] = next /\ SlotsCarry({r})
  <2>1. DOMAIN Noticing(now) = Requests
    BY DEF Noticing
  <2>2. \A q \in Requests : Carries(request[q], Noticing(now)[q])
    BY NoticingCarries
  <2>3. \A q \in Requests : request'[q] = IF q = r THEN next ELSE Noticing(now)[q]
    BY <1>3, <2>1 DEF SyncAnd
  <2> QED
    BY <2>2, <2>3 DEF SlotsCarry
<1> QED
  BY <1>2, <1>3

\* A step of a request that is no migration.
LEMMA OthersCarry ==
  ASSUME SlotsSound, SlotsSee, NEW r \in Requests, NEW next, Fields(next),
         request[r].op # "migrate", next.op # "migrate",
         Step(r, next) \/ \E now : SyncAnd(r, now, next)
  PROVE  SlotsCarry({})
  BY OneSlotCarries DEF SlotsCarry, Carries

\* A request that arrives and is no migration.
LEMMA ArrivalsCarry ==
  ASSUME SlotsSound, SlotsSee, NEW r \in Requests, NEW u, NEW v, NEW chain, NEW to, NEW amount,
         \/ \E op \in {"receive", "manage"} : OpenPage(r, op, u, v, chain)
         \/ OpenSend(r, u, v, chain) \/ Show(r, u, v, chain)
         \/ \E p \in DOMAIN proposals : Detail(r, u, p)
         \/ \E asset : RequestCreate(r, u, v, asset, amount, to)
  PROVE  SlotsCarry({})
<1>1. ASSUME NEW op, op # "migrate", NEW w, NEW on, NEW step
      PROVE  LET s == Slot(r, op, u, w, on, step)
             IN  /\ Fields(s) /\ s.op # "migrate"
                 /\ \A x : LET t == [s EXCEPT !.listed = x] IN Fields(t) /\ t.op # "migrate"
                 /\ \A x, y, z : LET t == [s EXCEPT !.asset = x, !.amount = y, !.to = z]
                                 IN  Fields(t) /\ t.op # "migrate"
  <2> DEFINE s == Slot(r, op, u, w, on, step)
  <2>1. Fields(s) /\ s.op # "migrate"
    BY <1>1, FreshSlot DEF Fields
  <2> HIDE DEF s
  <2>2. \A x : LET t == [s EXCEPT !.listed = x] IN Fields(t) /\ t.op # "migrate"
    BY <2>1 DEF Fields
  <2>3. \A x, y, z : LET t == [s EXCEPT !.asset = x, !.amount = y, !.to = z]
                     IN  Fields(t) /\ t.op # "migrate"
    BY <2>1 DEF Fields
  <2> QED
    BY <2>1, <2>2, <2>3 DEF s
<1>2. ASSUME NEW next, Fields(next), next.op # "migrate",
             Step(r, next) \/ \E now : SyncAnd(r, now, next)
      PROVE  SlotsCarry({})
  <2>1. request[r].op # "migrate"
    BY DEF SlotsSee, SlotSees, Carrying, OpenPage, OpenSend, Show, Detail, RequestCreate,
           MayServe, Holds
  <2> QED
    BY <1>2, <2>1, OthersCarry
<1>3. ASSUME NEW op \in {"receive", "manage"}, OpenPage(r, op, u, v, chain)
      PROVE  SlotsCarry({})
  <2>1. \E step : Step(r, Slot(r, op, u, v, chain, step))
    BY <1>3 DEF OpenPage
  <2> QED
    BY <1>1, <1>2, <2>1
<1>4. ASSUME OpenSend(r, u, v, chain)
      PROVE  SlotsCarry({})
  <2>1. \E now : SyncAnd(r, now, Slot(r, "send", u, v, chain, "reserve"))
    BY <1>4 DEF OpenSend
  <2> QED
    BY <1>1, <1>2, <2>1
<1>5. ASSUME Show(r, u, v, chain)
      PROVE  SlotsCarry({})
  <2>1. \E now : SyncAnd(r, now, [Slot(r, "show", u, v, chain, "answer") EXCEPT !.listed = {v}])
    BY <1>5 DEF Show
  <2> QED
    BY <1>1, <1>2, <2>1
<1>6. ASSUME NEW p, Detail(r, u, p)
      PROVE  SlotsCarry({})
  <2>1. \E w, on : Step(r, [Slot(r, "detail", u, w, on, "answer") EXCEPT !.listed = {w}])
    BY <1>6 DEF Detail
  <2> QED
    BY <1>1, <1>2, <2>1
<1>7. ASSUME NEW asset, RequestCreate(r, u, v, asset, amount, to)
      PROVE  SlotsCarry({})
  <2> DEFINE next(on, step) == [Slot(r, "create", u, v, on, step) EXCEPT
                                  !.asset = asset, !.amount = amount, !.to = to]
  <2>1. PICK on, step : \E now : SyncAnd(r, now, next(on, step))
    BY <1>7 DEF RequestCreate
  <2>2. Fields(next(on, step)) /\ next(on, step).op # "migrate"
    BY <1>1
  <2> HIDE DEF next
  <2> QED
    BY <1>2, <2>1, <2>2
<1> QED
  BY <1>3, <1>4, <1>5, <1>6, <1>7

\* A handler's step, of whatever it is serving but migrations.
LEMMA HandlersCarry ==
  ASSUME SlotsSound, SlotsSee, NEW r \in Requests,
         \/ CheckStatus(r) \/ Build(r) \/ InsertProposal(r)
         \/ ReadVisible(r) \/ ListVersions(r) \/ LockRecipient(r) \/ Panel(r)
         \/ ExternalRows(r) \/ ChangeRows(r) \/ ReserveTotal(r) \/ SyncPage(r)
         \/ ReadBalance(r) \/ Reply(r)
  PROVE  SlotsCarry({})
<1> DEFINE q == request[r]
<1>1. Fields(q) /\ q.op # "migrate"
  BY DEF SlotsSee, SlotSees, Carrying, CheckStatus, Build, InsertProposal, ReadVisible,
         ListVersions, LockRecipient, Panel, ExternalRows, ChangeRows, ReserveTotal, SyncPage,
         ReadBalance, Reply, Complete, Holds
<1>2. ASSUME NEW next, Fields(next), next.op # "migrate",
             Step(r, next) \/ \E now : SyncAnd(r, now, next)
      PROVE  SlotsCarry({})
  BY <1>1, <1>2, OthersCarry
<1>3. CASE CheckStatus(r)
  <2> DEFINE next == [q EXCEPT !.current = Current, !.step = "build"]
  <2>1. Fields(next) /\ next.op # "migrate"
    BY <1>1 DEF Fields
  <2>2. Step(r, next)
    BY <1>3 DEF CheckStatus
  <2> HIDE DEF next
  <2> QED
    BY <1>2, <2>1, <2>2
<1>4. CASE Build(r)
  <2>2. CASE Step(r, Idle)
    BY <1>2, <2>2, IdleFields
  <2> DEFINE drained == q.asset = "BTC" /\ ~IsCurrentSigner(q.user, q.current)
             built(inputs) ==
               [q EXCEPT
                  !.inputs = inputs, !.amount = IF drained THEN 0 ELSE @,
                  !.total = IF q.chain = "elements" /\ q.amount = 0 THEN Value(inputs) ELSE 0,
                  !.step = IF q.chain = "bitcoin" THEN "describe" ELSE "insert"]
  <2>3. ASSUME NEW inputs, Step(r, built(inputs))
        PROVE  SlotsCarry({})
    <3>1. Fields(built(inputs)) /\ built(inputs).op # "migrate"
      BY <1>1 DEF Fields
    <3> HIDE DEF built
    <3> QED
      BY <1>2, <2>3, <3>1
  <2>4. Step(r, Idle) \/ \E inputs : Step(r, built(inputs))
    BY <1>4 DEF Build
  <2> QED
    BY <2>2, <2>3, <2>4
<1>5. CASE InsertProposal(r)
  <2>1. Step(r, Idle)
    BY <1>5 DEF InsertProposal
  <2> QED
    BY <1>2, <2>1, IdleFields
<1>6. CASE ReadVisible(r)
  <2> DEFINE next == [q EXCEPT !.current = Current, !.step = "list"]
  <2>1. Fields(next) /\ next.op # "migrate"
    BY <1>1 DEF Fields
  <2>2. \E now : SyncAnd(r, now, next)
    BY <1>6 DEF ReadVisible
  <2> HIDE DEF next
  <2> QED
    BY <1>2, <2>1, <2>2
<1>7. CASE ListVersions(r)
  <2> DEFINE listed == Visible(q.user, q.current)
             step == CASE q.op = "send" -> "lock" [] q.op = "receive" -> "panel"
                       [] OTHER -> "answer"
             next == [q EXCEPT !.listed = listed, !.current = 0,
                               !.left = IF q.op = "receive" THEN listed ELSE {}, !.step = step]
  <2>1. Fields(next) /\ next.op # "migrate"
    BY <1>1 DEF Fields
  <2>2. Step(r, next)
    BY <1>7 DEF ListVersions
  <2> HIDE DEF next
  <2> QED
    BY <1>2, <2>1, <2>2
<1>8. CASE LockRecipient(r)
  <2> DEFINE next == [q EXCEPT !.to = IF IsCurrentSigner(q.user, Current) THEN 0 ELSE Current,
                               !.step = "answer"]
  <2>1. Fields(next) /\ next.op # "migrate"
    BY <1>1 DEF Fields
  <2>2. Step(r, next)
    BY <1>8 DEF LockRecipient
  <2> HIDE DEF next
  <2> QED
    BY <1>2, <2>1, <2>2
<1>9. CASE Panel(r)
  <2> DEFINE v == CHOOSE w \in q.left : \A x \in q.left : x <= w
             next == [q EXCEPT !.left = @ \ {v},
                               !.step = IF v = q.version THEN "external" ELSE "panel"]
  <2>1. Fields(next) /\ next.op # "migrate"
    BY <1>1 DEF Fields
  <2>2. \E now : SyncAnd(r, now, next)
    BY <1>9 DEF Panel
  <2> HIDE DEF next
  <2> QED
    BY <1>2, <2>1, <2>2
<1>10. CASE ExternalRows(r)
  <2> DEFINE next == [q EXCEPT !.rows = UnspentRows(q.version, q.asset, FALSE),
                               !.step = IF q.chain = "bitcoin" THEN "change" ELSE "reserve"]
  <2>1. Fields(next) /\ next.op # "migrate"
    BY <1>1 DEF Fields
  <2>2. Step(r, next)
    BY <1>10 DEF ExternalRows
  <2> HIDE DEF next
  <2> QED
    BY <1>2, <2>1, <2>2
<1>11. CASE ChangeRows(r)
  <2> DEFINE next == [q EXCEPT !.rows = @ + UnspentRows(q.version, q.asset, TRUE),
                               !.step = "reserve"]
  <2>1. Fields(next) /\ next.op # "migrate"
    BY <1>1 DEF Fields
  <2>2. Step(r, next)
    BY <1>11 DEF ChangeRows
  <2> HIDE DEF next
  <2> QED
    BY <1>2, <2>1, <2>2
<1>12. CASE ReserveTotal(r)
  <2> DEFINE next == [q EXCEPT
                       !.total = Reserved(q.version, q.chain),
                       !.counted = {p \in InFlightOn(q.version, q.chain) :
                                      q.chain = "elements" => proposals[p].amount = 0},
                       !.step = IF q.op = "manage" THEN "sync" ELSE "balance"]
  <2>1. Fields(next) /\ next.op # "migrate"
    BY <1>1 DEF Fields
  <2>2. Step(r, next)
    BY <1>12 DEF ReserveTotal
  <2> HIDE DEF next
  <2> QED
    BY <1>2, <2>1, <2>2
<1>13. CASE SyncPage(r)
  <2> DEFINE next == [q EXCEPT !.step = "balance"]
  <2>1. Fields(next) /\ next.op # "migrate"
    BY <1>1 DEF Fields
  <2>2. \E now : SyncAnd(r, now, next)
    BY <1>13 DEF SyncPage
  <2> HIDE DEF next
  <2> QED
    BY <1>2, <2>1, <2>2
<1>14. CASE ReadBalance(r)
  <2> DEFINE basis == Baseline(q.version, q.chain)
             next == [q EXCEPT
                       !.basis = basis, !.spendable = Spendable(Value(basis), q.total),
                       !.balance = Value(Held(q.version, q.asset)), !.total = 0,
                       !.step = IF q.op = "receive" THEN "panel" ELSE "visible"]
  <2>1. Fields(next) /\ next.op # "migrate"
    BY <1>1 DEF Fields
  <2>2. Step(r, next)
    BY <1>14 DEF ReadBalance
  <2> HIDE DEF next
  <2> QED
    BY <1>2, <2>1, <2>2
<1>15. CASE Reply(r)
  <2>1. Step(r, Idle)
    BY <1>15 DEF Reply
  <2> QED
    BY <1>2, <2>1, IdleFields
<1> QED
  BY <1>3, <1>4, <1>5, <1>6, <1>7, <1>8, <1>9, <1>10, <1>11, <1>12, <1>13, <1>14, <1>15

-----------------------------------------------------------------------------
(* What a migration had seen *)

SweptFor(v)  == {s \in RowsOf(proposals) : s.sweeps = v}
Handled(seen, sweeps, chains, cs) ==
  \A c \in seen : \/ cs[c].spent
                  \/ \E s \in sweeps : c \in s.inputs
                  \/ Chain(cs[c].asset) \in chains
                  \/ Alone(c, seen, cs)

\* From the moment its version is stored, what a migration had seen is handled.
KnownSwept ==
  /\ DOMAIN known = 1..LastVersion /\ DOMAIN cutShort = 1..LastVersion
  /\ \A v \in 1..LastVersion :
       /\ known[v] \subseteq DOMAIN coins
       /\ Handled(known[v], SweptFor(v), Unopened(v), coins)

SweptInv == CoinsShaped /\ SlotsSee /\ KnownSwept

LEMMA SweptInvSuffices == RosterInv /\ SweptInv => SeenCoinsAreSwept
<1> SUFFICES ASSUME RosterInv, SweptInv, NEW v \in Indices, NEW c \in known[v]
             PROVE  \/ coins[c].spent
                    \/ \E p \in DOMAIN proposals : proposals[p].sweeps = v /\ c \in proposals[p].inputs
                    \/ Chain(coins[c].asset) \in Unopened(v)
                    \/ coins[c].asset = "issued" /\ \A d \in known[v] : coins[d].asset # "L-BTC"
  BY DEF SeenCoinsAreSwept
<1>1. v \in 1..LastVersion
  <2>1. versions \in Seq(Version) /\ Len(versions) <= LastVersion /\ LastVersion \in Nat
    BY RosterAssumption DEF RosterInv, RosterTypeOK
  <2> QED
    BY <2>1 DEF Indices
<1>2. Handled(known[v], SweptFor(v), Unopened(v), coins)
  BY <1>1 DEF SweptInv, KnownSwept
<1> HIDE DEF Unopened
<1> QED
  BY <1>2 DEF Handled, Alone, SweptFor, RowsOf

CoinsStay(cs, ds) ==
  /\ DOMAIN cs \subseteq DOMAIN ds
  /\ \A c \in DOMAIN cs : ds[c].asset = cs[c].asset /\ (cs[c].spent => ds[c].spent)

LEMMA FollowingStay ==
  ASSUME NEW cs, NEW ds, CoinsFollow(cs, ds)
  PROVE  CoinsStay(cs, ds)
  BY DEF CoinsFollow, CoinFollows, CoinsStay

LEMMA HandledStays ==
  ASSUME NEW seen, NEW S, NEW T, NEW C, NEW D, NEW cs, NEW ds, Handled(seen, S, C, cs),
         seen \subseteq DOMAIN cs, CoinsStay(cs, ds), C \subseteq D,
         \A s \in S : \E t \in T : t.inputs = s.inputs
  PROVE  Handled(seen, T, D, ds)
<1> SUFFICES ASSUME NEW c \in seen
             PROVE  \/ ds[c].spent
                    \/ \E t \in T : c \in t.inputs
                    \/ Chain(ds[c].asset) \in D
                    \/ Alone(c, seen, ds)
  BY DEF Handled
<1>1. CASE cs[c].spent
  BY <1>1 DEF CoinsStay
<1>2. CASE \E s \in S : c \in s.inputs
  <2>1. PICK s \in S : c \in s.inputs
    BY <1>2
  <2>2. PICK t \in T : t.inputs = s.inputs
    BY <2>1
  <2> QED
    BY <2>1, <2>2
<1>3. CASE Alone(c, seen, cs)
  BY <1>3 DEF CoinsStay, Alone
<1>4. CASE Chain(cs[c].asset) \in C
  BY <1>4 DEF CoinsStay
<1> QED
  BY <1>1, <1>2, <1>3, <1>4 DEF Handled

\* Sweeps of a version are not taken away.
SweepsStay ==
  \A v \in 1..LastVersion : \A s \in SweptFor(v) : \E t \in SweptFor(v)' : t.inputs = s.inputs

\* Chains whose sweep is still to be opened, or never will be, stay so: also when
\* the requests of R end, as long as they leave what they had still to open.
EndsKept(R) ==
  /\ DOMAIN cutShort' = 1..LastVersion
  /\ \A v \in 1..LastVersion :
       /\ cutShort[v] \subseteq cutShort'[v]
       /\ \A q \in R : Opening(q, v) \subseteq Opening(q, v)' \cup cutShort'[v]

LEMMA UnopenedStays ==
  ASSUME NEW R \in SUBSET Requests, SlotsCarry(R), EndsKept(R), NEW v \in 1..LastVersion
  PROVE  Unopened(v) \subseteq Unopened(v)'
<1>1. \A q \in Requests \ R : Opening(q, v) \subseteq Opening(q, v)'
  BY DEF SlotsCarry, Carries, SameSlot, Opening
<1>2. \A q \in R : Opening(q, v) \subseteq Opening(q, v)' \cup cutShort'[v]
  BY DEF EndsKept
<1>3. cutShort[v] \subseteq cutShort'[v]
  BY DEF EndsKept
<1> HIDE DEF Opening
<1> QED
  BY <1>1, <1>2, <1>3 DEF Unopened

LEMMA KnownStays ==
  ASSUME KnownSwept, UNCHANGED known, CoinsStay(coins, coins'), SweepsStay,
         NEW R \in SUBSET Requests, SlotsCarry(R), EndsKept(R)
  PROVE  KnownSwept'
<1>1. \A v \in DOMAIN known : known[v] \subseteq DOMAIN coins'
  BY DEF KnownSwept, CoinsStay
<1>2. ASSUME NEW v \in 1..LastVersion
      PROVE  Handled(known[v], SweptFor(v)', Unopened(v)', coins')
  <2>1. Handled(known[v], SweptFor(v), Unopened(v), coins) /\ known[v] \subseteq DOMAIN coins
    BY DEF KnownSwept
  <2>2. \A s \in SweptFor(v) : \E t \in SweptFor(v)' : t.inputs = s.inputs
    BY DEF SweepsStay
  <2>3. Unopened(v) \subseteq Unopened(v)'
    BY UnopenedStays
  <2> HIDE DEF SweptFor, Unopened
  <2> QED
    BY <2>1, <2>2, <2>3, HandledStays
<1>3. DOMAIN known' = 1..LastVersion /\ DOMAIN cutShort' = 1..LastVersion
  BY DEF KnownSwept, EndsKept
<1>4. \A v \in 1..LastVersion :
        /\ known'[v] \subseteq DOMAIN coins'
        /\ Handled(known'[v], SweptFor(v)', Unopened(v)', coins')
  BY <1>1, <1>2 DEF KnownSwept
<1> HIDE DEF Unopened, SweptFor
<1> QED
  BY <1>3, <1>4 DEF KnownSwept, Handled, Alone

\* Rewriting rows of proposals leaves their sweeps alone.
LEMMA AlignedRows ==
  ASSUME DOMAIN proposals \subseteq DOMAIN proposals',
         \A p \in DOMAIN proposals : /\ proposals'[p].sweeps = proposals[p].sweeps
                                     /\ proposals'[p].inputs = proposals[p].inputs
  PROVE  SweepsStay
<1>1. ASSUME NEW v, NEW s \in SweptFor(v)
      PROVE  \E t \in SweptFor(v)' : t.inputs = s.inputs
  <2>1. PICK p \in DOMAIN proposals : s = proposals[p] /\ s.sweeps = v
    BY DEF SweptFor, RowsOf
  <2>2. proposals'[p] \in SweptFor(v)'
    BY <2>1 DEF SweptFor, RowsOf
  <2> QED
    BY <2>1, <2>2
<1> QED
  BY <1>1 DEF SweepsStay

\* When coins follow, sweeps stay and all requests but those of R carry on, it
\* takes only that the ones of R see what they should and leave what they had
\* still to open.
LEMMA SweptAfter ==
  ASSUME SweptInv, UNCHANGED known, CoinsFollow(coins, coins'), SweepsStay,
         NEW R \in SUBSET Requests, SlotsCarry(R), EndsKept(R),
         \A r \in R : SlotSees(request'[r], known, coins')
  PROVE  SweptInv'
<1>1. ASSUME NEW r \in Requests
      PROVE  SlotSees(request'[r], known, coins')
  <2>1. CASE r \notin R
    <3>1. SlotSees(request[r], known, coins) /\ Carries(request[r], request'[r])
      BY <2>1 DEF SweptInv, SlotsSee, SlotsCarry
    <3> QED
      BY <3>1, CarriedSees
  <2> QED
    BY <2>1
<1>2. SlotsSee'
  BY <1>1 DEF SlotsSee
<1>3. KnownSwept'
  BY KnownStays, FollowingStay DEF SweptInv
<1>4. CoinsShaped'
  BY DEF CoinsFollow, CoinsShaped
<1> QED
  BY <1>2, <1>3, <1>4 DEF SweptInv

LEMMA NothingEnds ==
  ASSUME KnownSwept, UNCHANGED cutShort
  PROVE  EndsKept({})
  BY DEF KnownSwept, EndsKept

LEMMA CoinsUntouched ==
  ASSUME SweptInv, UNCHANGED coins
  PROVE  CoinsFollow(coins, coins')
  BY SameCoins DEF SweptInv, CoinsShaped, CoinsFollow

-----------------------------------------------------------------------------
(* Steps *)

\* What leaves migrations alone.
LEMMA CarriedSwept ==
  ASSUME SweptInv, UNCHANGED history, CoinsFollow(coins, coins'), SweepsStay, SlotsCarry({})
  PROVE  SweptInv'
<1>1. EndsKept({})
  BY NothingEnds DEF SweptInv, history
<1> HIDE DEF SweepsStay
<1> QED
  BY <1>1, SweptAfter DEF history

LEMMA InsertSwept ==
  ASSUME RosterInv, PrivilegeInv, SweptInv, NEW r \in Requests, InsertProposal(r)
  PROVE  SweptInv'
<1>1. /\ \E p : proposals' = Append(proposals, p)
      /\ UNCHANGED <<coins, history>>
  BY DEF InsertProposal
<1>2. IsSeq(proposals)
  BY DEF PrivilegeInv, ProposalsPlaced
<1>3. /\ DOMAIN proposals \subseteq DOMAIN proposals'
      /\ \A i \in DOMAIN proposals : proposals'[i] = proposals[i]
  BY <1>1, <1>2, AppendIsSeq
<1>4. SweepsStay
  BY <1>3, AlignedRows
<1>5. SlotsCarry({})
  BY HandlersCarry DEF RosterInv, SweptInv
<1> HIDE DEF SweepsStay
<1> QED
  BY <1>1, <1>4, <1>5, CarriedSwept, CoinsUntouched

\* A step of one request while no proposal is written.
LEMMA OneSlotSwept ==
  ASSUME RosterInv, SweptInv, UNCHANGED <<known, proposals>>, CoinsFollow(coins, coins'),
         NEW r \in Requests, NEW next, SlotSees(next, known, coins'),
         Step(r, next) \/ \E now : SyncAnd(r, now, next), EndsKept({r})
  PROVE  SweptInv'
<1>1. request'[r] = next /\ SlotsCarry({r})
  BY OneSlotCarries DEF RosterInv, SweptInv
<1>2. SweepsStay
  BY AlignedRows
<1> HIDE DEF SweepsStay
<1> QED
  BY <1>1, <1>2, SweptAfter

\* A request in a slot that had none to open a sweep for.
LEMMA ArrivedSwept ==
  ASSUME RosterInv, SweptInv, UNCHANGED <<history, proposals>>, CoinsFollow(coins, coins'),
         NEW r \in Requests, NEW next, SlotSees(next, known, coins'), Holds(r, "idle"),
         Step(r, next) \/ \E now : SyncAnd(r, now, next)
  PROVE  SweptInv'
<1>1. request[r].op # "migrate"
  BY DEF SweptInv, SlotsSee, SlotSees, Carrying, Holds
<1>2. EndsKept({r})
  BY <1>1 DEF EndsKept, Opening, SweptInv, KnownSwept, history
<1> QED
  BY <1>2, OneSlotSwept DEF history

LEMMA MigrateSwept ==
  ASSUME RosterInv, SweptInv, NEW r \in Requests, NEW u, NEW base \in Indices,
         NEW add, NEW remove, NEW m, Migrate(r, u, base, add, remove, m)
  PROVE  SweptInv'
<1> DEFINE slot(draft) == [Slot(r, "migrate", u, base, "bitcoin", "describe") EXCEPT
                             !.draft = <<draft>>]
           synced == [c \in DOMAIN coins |-> Synced(base, Chain(coins[c].asset))[c]]
           seen(a) == {c \in DOMAIN coins : /\ synced[c].owner = base /\ synced[c].asset = a
                                            /\ synced[c].seen \in {"untrusted", "trusted"}}
           all == UNION {seen(a) : a \in Assets}
           funded == {chain \in Chains : seen(Policy(chain)) # {}}
           onBoth(draft) == [slot(draft) EXCEPT !.step = "store", !.inputs = all,
                                                !.funded = funded]
           onOne(draft, inputs) == [slot(draft) EXCEPT !.inputs = inputs,
                                                       !.funded = {"bitcoin"}]
<1>1. UNCHANGED <<proposals, history>> /\ Holds(r, "idle")
  BY DEF Migrate, MayServe
<1>2. CoinsFollow(coins, coins')
  <2>1. CASE UNCHANGED coins
    BY <2>1, CoinsUntouched
  <2>2. CASE coins' = synced
    <3>1. ASSUME NEW c \in DOMAIN coins
          PROVE  CoinFollows(coins[c], synced[c])
      BY SyncFollows DEF SweptInv, CoinsFollow
    <3>2. DOMAIN synced = DOMAIN coins /\ synced = [c \in DOMAIN coins |-> synced[c]]
      OBVIOUS
    <3> HIDE DEF synced
    <3> QED
      BY <2>2, <3>1, <3>2, PointwiseFollow DEF SweptInv
  <2> QED
    BY <2>1, <2>2 DEF Migrate, SyncAnd
<1>3. PICK draft :
        \/ SyncAnd(r, synced, onBoth(draft))
        \/ /\ UNCHANGED coins
           /\ \E inputs \in Drains(Held(base, "BTC")) : Step(r, onOne(draft, inputs))
  BY DEF Migrate
<1>4. /\ Fields(slot(draft)) /\ slot(draft).op = "migrate" /\ slot(draft).version = base
      /\ slot(draft).to = 0 /\ slot(draft).step = "describe"
  <2> DEFINE s == Slot(r, "migrate", u, base, "bitcoin", "describe")
  <2>1. Fields(s) /\ s.op = "migrate" /\ s.version = base /\ s.to = 0 /\ s.step = "describe"
    BY FreshSlot DEF Fields
  <2> HIDE DEF s
  <2>2. /\ Fields([s EXCEPT !.draft = <<draft>>]) /\ [s EXCEPT !.draft = <<draft>>].op = "migrate"
        /\ [s EXCEPT !.draft = <<draft>>].version = base
        /\ [s EXCEPT !.draft = <<draft>>].to = 0
        /\ [s EXCEPT !.draft = <<draft>>].step = "describe"
    BY <2>1 DEF Fields
  <2> QED
    BY <2>2 DEF s
<1> HIDE DEF slot
<1>5. \A c \in DOMAIN coins' : coins'[c].asset \in {"BTC", "L-BTC", "issued"}
  BY <1>2 DEF CoinsFollow, CoinLike, RowsOf, Assets
<1>6. CASE SyncAnd(r, synced, onBoth(draft))
  <2> DEFINE next == onBoth(draft)
  <2>1. /\ Fields(next) /\ next.op = "migrate" /\ next.version = base /\ next.to = 0
        /\ next.step = "store" /\ next.inputs = all /\ next.funded = funded
    BY <1>4 DEF Fields
  <2>2. coins' = synced
    BY <1>6 DEF SyncAnd
  <2>3. OfVersion(base, all, coins')
    BY <2>2 DEF OfVersion, Known, Unspent
  <2>4. /\ "bitcoin" \in funded <=> \E c \in all : coins'[c].asset = "BTC"
        /\ "elements" \in funded <=> \E c \in all : coins'[c].asset = "L-BTC"
    <3>1. \A a \in Assets : seen(a) = {c \in all : coins'[c].asset = a}
      BY <2>2
    <3>2. /\ Policy("bitcoin") = "BTC" /\ Policy("elements") = "L-BTC"
          /\ Chains = {"bitcoin", "elements"} /\ "BTC" \in Assets /\ "L-BTC" \in Assets
      BY DEF Policy, Chains, Assets
    <3> HIDE DEF seen, all
    <3> QED
      BY <3>1, <3>2
  <2> HIDE DEF next, all, funded, seen, synced
  <2>5. Funds(next, coins')
    BY <1>5, <2>1, <2>3, <2>4 DEF Funds, Alone, Chain, OfVersion
  <2>6. SlotSees(next, known, coins')
    BY <2>1, <2>3, <2>5 DEF SlotSees, Carrying
  <2>7. SyncAnd(r, synced, next)
    BY <1>6 DEF next
  <2> QED
    BY <1>1, <1>2, <2>6, <2>7, ArrivedSwept
<1>7. CASE /\ UNCHANGED coins
           /\ \E inputs \in Drains(Held(base, "BTC")) : Step(r, onOne(draft, inputs))
  <2>1. PICK inputs \in Drains(Held(base, "BTC")) : Step(r, onOne(draft, inputs))
    BY <1>7
  <2> DEFINE next == onOne(draft, inputs)
  <2>2. /\ Fields(next) /\ next.op = "migrate" /\ next.version = base /\ next.to = 0
        /\ next.step = "describe" /\ next.inputs = inputs /\ next.funded = {"bitcoin"}
    BY <1>4 DEF Fields
  <2>3. inputs = Held(base, "BTC")
    BY DEF Drains
  <2>4. OfVersion(base, inputs, coins) /\ \A c \in inputs : coins[c].asset = "BTC"
    BY <2>3 DEF OfVersion, Held, Wallet, Known, Unspent
  <2>5. Step(r, next)
    BY <2>1
  <2> HIDE DEF next
  <2>6. Funds(next, coins)
    BY <2>2, <2>4 DEF Funds, Chain
  <2>7. SlotSees(next, known, coins')
    BY <1>7, <2>2, <2>4, <2>6 DEF SlotSees, Carrying
  <2> QED
    BY <1>1, <1>2, <2>5, <2>7, ArrivedSwept
<1> QED
  BY <1>3, <1>6, <1>7

\* Describing the sweep that is to be stored, or opened.
LEMMA DescribeSwept ==
  ASSUME RosterInv, SweptInv, NEW r \in Requests, Describe(r)
  PROVE  SweptInv'
<1> DEFINE q == request[r]
           next == [q EXCEPT !.total = Value(q.inputs \cap Held(q.version, "BTC")),
                             !.step = Described(q)]
<1>1. /\ Step(r, next) /\ q.step = "describe" /\ UNCHANGED <<proposals, coins, history>>
  BY DEF Describe, Holds
<1>2. SlotSees(q, known, coins) /\ q.op \in {"create", "migrate"} /\ DOMAIN request = Requests
  BY <1>1 DEF SweptInv, SlotsSee, RosterInv, SlotsSound, SlotSound
<1>3. /\ Fields(next) /\ next.op = q.op /\ next.version = q.version /\ next.chain = q.chain
      /\ next.inputs = q.inputs /\ next.to = q.to /\ next.funded = q.funded
      /\ next.step = Described(q)
  BY <1>2 DEF SlotSees, Fields
<1> HIDE DEF next
<1>4. SlotSees(next, known, coins')
  <2>1. CASE q.op = "create"
    BY <1>3, <2>1 DEF SlotSees
  <2>2. CASE q.op = "migrate" /\ q.to = 0
    <3>1. next.step = "store"
      BY <1>3, <2>2 DEF Described
    <3>2. OfVersion(next.version, next.inputs, coins') /\ Funds(next, coins')
      BY <1>1, <1>2, <1>3, <2>2 DEF SlotSees, Funds
    <3> QED
      BY <1>3, <2>2, <3>1, <3>2 DEF SlotSees, Carrying
  <2>3. CASE q.op = "migrate" /\ q.to # 0
    <3>1. next.step = "open"
      BY <1>3, <2>3 DEF Described
    <3>2. OfVersion(next.version, known[next.to], coins') /\ Covers(next, known[next.to], coins')
      BY <1>1, <1>2, <1>3, <2>3 DEF SlotSees, Covers
    <3> QED
      BY <1>3, <2>3, <3>1, <3>2 DEF SlotSees, Carrying
  <2> QED
    BY <1>2, <2>1, <2>2, <2>3
<1>5. request'[r] = next
  BY <1>1, <1>2 DEF Step
<1>6. EndsKept({r})
  BY <1>1, <1>3, <1>5 DEF EndsKept, Opening, SweptInv, KnownSwept, history
<1>7. CoinsFollow(coins, coins')
  BY <1>1, CoinsUntouched
<1> QED
  BY <1>1, <1>4, <1>6, <1>7, OneSlotSwept DEF history

\* A sweep takes what the wallet of its chain holds, so whatever had been seen
\* there and is not spent.
LEMMA BuildSweepSwept ==
  ASSUME RosterInv, PrivilegeInv, SweptInv, NEW r \in Requests, BuildSweep(r)
  PROVE  SweptInv'
<1> DEFINE q == request[r]
           seen == known[q.to]
           all == Held(q.version, "L-BTC") \cup Held(q.version, "issued")
           onElements(inputs) ==
             [q EXCEPT !.chain = "elements", !.inputs = inputs,
                !.total = Value(inputs \cap Held(q.version, "L-BTC")), !.step = "open"]
           onBitcoin(inputs) ==
             [q EXCEPT !.chain = "bitcoin", !.inputs = inputs, !.step = "describe"]
<1>1. q.step = "sweep" /\ UNCHANGED <<proposals, coins, history>>
  BY DEF BuildSweep, Holds
<1>2. /\ SlotSees(q, known, coins) /\ q.op = "migrate" /\ DOMAIN request = Requests
      /\ q.to \in DOMAIN versions /\ 0 \notin Indices
  BY <1>1, ZeroIsNoVersion DEF SweptInv, SlotsSee, RosterInv, SlotsSound, SlotSound, PrivilegeInv,
     SlotsLawful, SlotLawful, Sweepings
<1>3. q.to # 0 /\ OfVersion(q.version, seen, coins)
  BY <1>2 DEF SlotSees, Indices
<1>4. \A c \in seen : /\ coins[c].asset \in {"BTC", "L-BTC", "issued"}
                      /\ coins[c].spent \/ c \in Held(q.version, coins[c].asset)
  <2>1. \A c \in seen : c \in DOMAIN coins /\ CoinLike(coins[c])
    BY <1>3, SameCoins DEF SweptInv, OfVersion
  <2> QED
    BY <1>3, <2>1 DEF OfVersion, Known, Unspent, CoinLike, Held, Wallet, Assets
<1>5. \/ Step(r, onElements(all))
      \/ Step(r, onBitcoin(Held(q.version, "BTC")))
  BY DEF BuildSweep, MigrationPset, Drains
<1>6. ASSUME NEW next, Step(r, next), Fields(next), next.op = q.op, next.version = q.version,
             next.to = q.to, next.funded = q.funded, next.step \in {"open", "describe"},
             Covers(next, seen, coins)
      PROVE  SweptInv'
  <2>1. SlotSees(next, known, coins')
    BY <1>1, <1>2, <1>3, <1>6 DEF SlotSees, Carrying
  <2>2. request'[r] = next
    BY <1>2, <1>6 DEF Step
  <2>3. EndsKept({r})
    BY <1>1, <1>6, <2>2 DEF EndsKept, Opening, SweptInv, KnownSwept, history
  <2>4. CoinsFollow(coins, coins')
    BY <1>1, CoinsUntouched
  <2> QED
    BY <1>1, <1>6, <2>1, <2>3, <2>4, OneSlotSwept DEF history
<1>7. CASE Step(r, onElements(all))
  <2> DEFINE next == onElements(all)
  <2>1. /\ Fields(next) /\ next.op = q.op /\ next.version = q.version /\ next.to = q.to
        /\ next.funded = q.funded /\ next.step = "open" /\ next.chain = "elements"
        /\ next.inputs = all
    BY <1>2 DEF SlotSees, Fields
  <2>2. Step(r, next)
    BY <1>7
  <2> HIDE DEF next
  <2>3. Covers(next, seen, coins)
    BY <1>4, <2>1 DEF Covers, Chain
  <2> QED
    BY <1>6, <2>1, <2>2, <2>3
<1>8. CASE Step(r, onBitcoin(Held(q.version, "BTC")))
  <2> DEFINE next == onBitcoin(Held(q.version, "BTC"))
  <2>1. /\ Fields(next) /\ next.op = q.op /\ next.version = q.version /\ next.to = q.to
        /\ next.funded = q.funded /\ next.step = "describe" /\ next.chain = "bitcoin"
        /\ next.inputs = Held(q.version, "BTC")
    BY <1>2 DEF SlotSees, Fields
  <2>2. Step(r, next)
    BY <1>8
  <2> HIDE DEF next
  <2>3. Covers(next, seen, coins)
    BY <1>4, <2>1 DEF Covers, Chain
  <2> QED
    BY <1>6, <2>1, <2>2, <2>3
<1> QED
  BY <1>5, <1>7, <1>8

\* The sweep takes the place of the chain it was still to be opened for.
LEMMA OpenSweepSwept ==
  ASSUME RosterInv, PrivilegeInv, SweptInv, NEW r \in Requests, OpenSweep(r)
  PROVE  SweptInv'
<1> DEFINE q == request[r]
           seen == known[q.to]
           left == q.funded \ {q.chain}
           next == IF left = {} THEN Idle ELSE [q EXCEPT !.funded = left, !.step = "sweep"]
<1>1. /\ q.step = "open" /\ Step(r, next) /\ proposals' = Append(proposals, Sweep(q))
      /\ UNCHANGED <<coins, history>>
  BY DEF OpenSweep, Holds
<1>2. /\ SlotSees(q, known, coins) /\ q.op = "migrate" /\ DOMAIN request = Requests
      /\ q.to \in DOMAIN versions /\ 0 \notin Indices /\ IsSeq(proposals)
  BY <1>1, ZeroIsNoVersion DEF SweptInv, SlotsSee, RosterInv, SlotsSound, SlotSound, PrivilegeInv,
     SlotsLawful, SlotLawful, Sweepings, ProposalsPlaced
<1>3. q.to # 0 /\ OfVersion(q.version, seen, coins) /\ Covers(q, seen, coins)
  BY <1>1, <1>2 DEF SlotSees, Indices
<1>4. /\ left = {} => next = Idle
      /\ left # {} => /\ Fields(next) /\ next.op = q.op /\ next.version = q.version
                      /\ next.to = q.to /\ next.funded = left /\ next.step = "sweep"
  BY <1>2 DEF SlotSees, Fields
<1> HIDE DEF next, left
<1>5. SlotSees(next, known, coins)
  BY <1>2, <1>3, <1>4, IdleSees DEF SlotSees, Carrying
<1>6. request'[r] = next /\ SlotsCarry({r})
  BY <1>1, OneSlotCarries DEF RosterInv, SweptInv
<1>7. SlotsSee'
  <2>1. ASSUME NEW x \in Requests
        PROVE  SlotSees(request'[x], known, coins)
    <3>1. CASE x # r
      <4>1. SlotSees(request[x], known, coins) /\ Carries(request[x], request'[x])
        BY <1>6, <3>1 DEF SweptInv, SlotsSee, SlotsCarry
      <4>2. CoinsFollow(coins, coins)
        BY SameCoins DEF SweptInv, CoinsShaped, CoinsFollow
      <4> QED
        BY <4>1, <4>2, CarriedSees
    <3> QED
      BY <1>5, <1>6, <3>1
  <2> QED
    BY <1>1, <2>1 DEF SlotsSee, history
<1>8. /\ DOMAIN proposals \subseteq DOMAIN proposals'
      /\ \A i \in DOMAIN proposals : proposals'[i] = proposals[i]
      /\ \E i \in DOMAIN proposals' : proposals'[i] = Sweep(q)
  <2>1. PICK row : row = Sweep(q)
    OBVIOUS
  <2>2. proposals' = Append(proposals, row) /\ IsSeq(proposals)
    BY <1>1, <1>2, <2>1
  <2>3. /\ DOMAIN proposals \subseteq DOMAIN proposals'
        /\ \A i \in DOMAIN proposals : proposals'[i] = proposals[i]
    BY <2>2, AppendIsSeq
  <2>4. \E i \in DOMAIN proposals' : proposals'[i] = row
    <3>1. PICK S : proposals \in Seq(S)
      BY <2>2 DEF IsSeq
    <3>2. proposals \in Seq(S \cup {row})
      BY <3>1
    <3>3. /\ Len(proposals) + 1 \in DOMAIN proposals'
          /\ proposals'[Len(proposals) + 1] = row
      BY <2>2, <3>2
    <3> QED
      BY <3>3
  <2> QED
    BY <2>1, <2>3, <2>4
<1>9. SweepsStay
  BY <1>8, AlignedRows
<1>10. ASSUME NEW v, v = q.to
       PROVE  \E s \in SweptFor(v)' : s.inputs = q.inputs
  <2>1. PICK i \in DOMAIN proposals' : proposals'[i] = Sweep(q)
    BY <1>8
  <2>2. proposals'[i].sweeps = q.to /\ proposals'[i].inputs = q.inputs
    BY <2>1 DEF Sweep
  <2> QED
    BY <1>10, <2>2 DEF SweptFor, RowsOf
<1>11. ASSUME NEW v \in 1..LastVersion
       PROVE  /\ Opening(r, v) \subseteq Opening(r, v)' \cup (IF v = q.to THEN {q.chain} ELSE {})
              /\ \A x \in Requests \ {r} : Opening(x, v) \subseteq Opening(x, v)'
              /\ cutShort'[v] = cutShort[v]
  <2>1. \A x \in Requests \ {r} : Opening(x, v) \subseteq Opening(x, v)'
    BY <1>6 DEF SlotsCarry, Carries, SameSlot, Opening
  <2>2. Opening(r, v) = IF v = q.to THEN q.funded ELSE {}
    BY <1>2 DEF Opening
  <2>3. left # {} => Opening(r, v)' = IF v = q.to THEN left ELSE {}
    BY <1>2, <1>4, <1>6 DEF Opening
  <2>4. q.funded \subseteq left \cup {q.chain}
    BY DEF left
  <2> QED
    BY <1>1, <2>1, <2>2, <2>3, <2>4 DEF history
<1>12. ASSUME NEW v \in 1..LastVersion
       PROVE  Handled(known[v], SweptFor(v)', Unopened(v)', coins)
  <2>1. Handled(known[v], SweptFor(v), Unopened(v), coins) /\ known[v] \subseteq DOMAIN coins
    BY DEF SweptInv, KnownSwept
  <2>2. \A s \in SweptFor(v) : \E t \in SweptFor(v)' : t.inputs = s.inputs
    BY <1>9 DEF SweepsStay
  <2>3. Unopened(v) \subseteq Unopened(v)' \cup (IF v = q.to THEN {q.chain} ELSE {})
    <3>1. \A x \in Requests :
            Opening(x, v) \subseteq Opening(x, v)' \cup (IF v = q.to THEN {q.chain} ELSE {})
      BY <1>11
    <3>2. cutShort[v] \subseteq cutShort'[v]
      BY <1>11
    <3> HIDE DEF Opening
    <3> QED
      BY <3>1, <3>2 DEF Unopened
  <2> HIDE DEF SweptFor, Unopened
  <2>4. SUFFICES ASSUME NEW c \in known[v]
                 PROVE  \/ coins[c].spent
                        \/ \E t \in SweptFor(v)' : c \in t.inputs
                        \/ Chain(coins[c].asset) \in Unopened(v)'
                        \/ Alone(c, known[v], coins)
    BY DEF Handled
  <2>5. CASE \E s \in SweptFor(v) : c \in s.inputs
    <3>1. PICK s \in SweptFor(v) : c \in s.inputs
      BY <2>5
    <3>2. PICK t \in SweptFor(v)' : t.inputs = s.inputs
      BY <2>2, <3>1
    <3> QED
      BY <3>1, <3>2
  <2>6. CASE v = q.to /\ Chain(coins[c].asset) = q.chain
    <3>1. coins[c].spent \/ c \in q.inputs \/ Alone(c, known[v], coins)
      BY <1>3, <2>6 DEF Covers
    <3>2. \E t \in SweptFor(v)' : t.inputs = q.inputs
      BY <1>10, <2>6
    <3> QED
      BY <3>1, <3>2
  <2>7. CASE ~(v = q.to /\ Chain(coins[c].asset) = q.chain) /\ Chain(coins[c].asset) \in Unopened(v)
    BY <2>3, <2>7
  <2> QED
    BY <2>1, <2>5, <2>6, <2>7 DEF Handled
<1>13. KnownSwept'
  <2>1. /\ known' = known /\ cutShort' = cutShort /\ coins' = coins
        /\ DOMAIN known = 1..LastVersion /\ DOMAIN cutShort = 1..LastVersion
        /\ \A v \in 1..LastVersion : known[v] \subseteq DOMAIN coins
    BY <1>1 DEF SweptInv, KnownSwept, history
  <2> HIDE DEF Unopened, SweptFor
  <2> QED
    BY <1>12, <2>1 DEF KnownSwept, Handled, Alone
<1>14. CoinsShaped'
  BY <1>1 DEF SweptInv, CoinsShaped
<1> QED
  BY <1>7, <1>13, <1>14 DEF SweptInv

\* A request that ends leaves the chains it had still to open.
LEMMA EndingKeeps ==
  ASSUME KnownSwept, NEW R \in SUBSET Requests, EndingAll(R)
  PROVE  EndsKept(R)
<1>1. /\ DOMAIN cutShort' = 1..LastVersion
      /\ \A v \in 1..LastVersion :
           cutShort'[v] = cutShort[v] \cup UNION {Opening(q, v) : q \in R}
  BY DEF EndingAll
<1> HIDE DEF Opening
<1> QED
  BY <1>1 DEF EndsKept

LEMMA CutShortSwept ==
  ASSUME RosterInv, SweptInv, NEW r \in Requests, SweepFails(r) \/ Stop(r)
  PROVE  SweptInv'
<1>1. Step(r, Idle) /\ EndingAll({r}) /\ UNCHANGED <<coins, proposals, known>>
  BY DEF SweepFails, Stop
<1>2. EndsKept({r})
  BY <1>1, EndingKeeps DEF SweptInv
<1>3. CoinsFollow(coins, coins') /\ SlotSees(Idle, known, coins')
  BY <1>1, CoinsUntouched, IdleSees
<1> QED
  BY <1>1, <1>2, <1>3, OneSlotSwept

LEMMA FlipUnfundedSwept ==
  ASSUME RosterInv, SweptInv, NEW r \in Requests, FlipUnfunded(r)
  PROVE  SweptInv'
<1>1. /\ request' = [Witnessing(versions') EXCEPT ![r] = Idle]
      /\ UNCHANGED <<coins, proposals, history>> /\ request[r].step = "flip"
  BY DEF FlipUnfunded, Holds
<1>2. DOMAIN Witnessing(versions') = Requests
  BY DEF Witnessing
<1>3. request'[r] = Idle /\ SlotsCarry({r})
  <2>1. \A q \in Requests : Carries(request[q], Witnessing(versions')[q])
    BY WitnessingCarries DEF SweptInv
  <2> HIDE DEF Witnessing
  <2> QED
    BY <1>1, <1>2, <2>1 DEF SlotsCarry
<1>4. request[r].op = "migrate" => request[r].funded = {}
  BY <1>1 DEF SweptInv, SlotsSee, SlotSees
<1>5. EndsKept({r})
  BY <1>1, <1>4 DEF EndsKept, Opening, SweptInv, KnownSwept, history
<1>6. CoinsFollow(coins, coins') /\ SlotSees(request'[r], known, coins') /\ SweepsStay
  BY <1>1, <1>3, CoinsUntouched, IdleSees, AlignedRows
<1> HIDE DEF SweepsStay
<1> QED
  BY <1>1, <1>3, <1>5, <1>6, SweptAfter DEF history

\* The version that is stored has all its sweeps still to be opened.
LEMMA StoreSwept ==
  ASSUME RosterInv, PrivilegeInv, SweptInv, NEW r \in Requests, Store(r)
  PROVE  SweptInv'
<1> DEFINE q    == request[r]
           base == q.version
           n    == base + 1
           step == IF q.funded = {} THEN "flip"
                   ELSE IF versions[base].elements THEN "sweep" ELSE "open"
           next == [q EXCEPT !.to = n, !.step = step]
<1>1. /\ q.op = "migrate" /\ q.step = "store" /\ UNCHANGED <<coins, proposals, cutShort>>
      /\ versions \in Seq(Version) /\ LastVersion \in Nat /\ DOMAIN request = Requests
  BY RosterAssumption DEF RosterInv, RosterTypeOK, SlotsSound, SlotSound, Store, Holds
<1>2. /\ SlotSees(q, known, coins) /\ SlotsSee /\ CoinsShaped /\ KnownSwept
      /\ \A x \in Requests : SlotLawful(request[x], versions)
  BY DEF SweptInv, SlotsSee, PrivilegeInv, SlotsLawful
<1>3. q.to = 0 /\ OfVersion(base, q.inputs, coins) /\ Funds(q, coins)
  BY <1>1, <1>2 DEF SlotSees
<1>4. CoinsFollow(coins, coins') /\ SweepsStay
  BY <1>1, CoinsUntouched, AlignedRows
<1>5. EndsKept({r})
  BY <1>1, <1>3, RosterAssumption DEF EndsKept, Opening, SweptInv, KnownSwept
<1>6. CASE Step(r, Idle) /\ UNCHANGED known
  BY <1>1, <1>4, <1>5, <1>6, OneSlotSwept, IdleSees
<1>7. CASE Storable(base) /\ known' = [known EXCEPT ![n] = q.inputs] /\ Step(r, next)
  <2>1. n \in 1..LastVersion /\ n \notin DOMAIN versions /\ n # 0
    BY <1>1, <1>7 DEF Storable
  <2>2. /\ DOMAIN known' = 1..LastVersion /\ known'[n] = q.inputs
        /\ \A v \in 1..LastVersion : v # n => known'[v] = known[v]
        /\ \A v \in DOMAIN versions : known'[v] = known[v]
    <3>1. DOMAIN versions \subseteq 1..LastVersion
      BY <1>1 DEF RosterInv, RosterTypeOK
    <3> QED
      BY <1>2, <1>7, <2>1, <3>1 DEF KnownSwept
  <2>3. /\ Fields(next) /\ next.op = "migrate" /\ next.version = base /\ next.chain = q.chain
        /\ next.inputs = q.inputs /\ next.to = n /\ next.funded = q.funded /\ next.step = step
    BY <1>1, <1>2 DEF SlotSees, Fields
  <2> HIDE DEF next, n
  <2>4. request'[r] = next /\ SlotsCarry({r})
    BY <1>2, <1>7, OneSlotCarries DEF RosterInv
  <2>5. SlotSees(next, known', coins)
    <3>1. OfVersion(base, known'[n], coins) /\ Covers(next, known'[n], coins)
      BY <1>3, <2>2, <2>3 DEF Covers
    <3>2. next.step \in Carrying \ {"store"} /\ (next.step = "flip" => next.funded = {})
      BY <2>3 DEF Carrying
    <3> QED
      BY <2>1, <2>3, <3>1, <3>2 DEF SlotSees
  <2>6. SlotsSee'
    <3>1. ASSUME NEW x \in Requests
          PROVE  SlotSees(request'[x], known', coins)
      <4>1. CASE x # r
        <5>1. SlotSees(request[x], known, coins) /\ Carries(request[x], request'[x])
          BY <1>2, <2>4, <4>1 DEF SlotsSee, SlotsCarry
        <5>2. CoinsFollow(coins, coins)
          BY <1>1, <1>4
        <5>3. request[x].op = "migrate" /\ request[x].to # 0 =>
                known'[request[x].to] = known[request[x].to]
          BY <1>2, <2>2 DEF SlotLawful
        <5> QED
          BY <5>1, <5>2, <5>3, CarriedSees
      <4> QED
        BY <2>4, <2>5, <4>1
    <3> QED
      BY <1>1, <3>1 DEF SlotsSee
  <2>7. ASSUME NEW v \in 1..LastVersion
        PROVE  /\ known'[v] \subseteq DOMAIN coins
               /\ Handled(known'[v], SweptFor(v)', Unopened(v)', coins)
    <3>1. CASE v = n
      <4>1. q.funded \subseteq Unopened(v)'
        <5>1. Opening(r, v)' = q.funded
          BY <2>3, <2>4, <3>1 DEF Opening
        <5> HIDE DEF Opening
        <5> QED
          BY <5>1 DEF Unopened
      <4> HIDE DEF Unopened, SweptFor
      <4>2. known'[v] = q.inputs /\ q.inputs \subseteq DOMAIN coins
        BY <1>3, <2>2, <3>1 DEF OfVersion
      <4> QED
        BY <1>3, <4>1, <4>2 DEF Funds, Handled
    <3>2. CASE v # n
      <4>1. /\ known'[v] = known[v] /\ known[v] \subseteq DOMAIN coins
            /\ Handled(known[v], SweptFor(v), Unopened(v), coins)
        BY <1>2, <2>2, <3>2 DEF KnownSwept
      <4>2. Unopened(v) \subseteq Unopened(v)'
        BY <1>5, <2>4, UnopenedStays
      <4>3. \A s \in SweptFor(v) : \E t \in SweptFor(v)' : t.inputs = s.inputs
        BY <1>4 DEF SweepsStay
      <4>4. CoinsStay(coins, coins)
        BY DEF CoinsStay
      <4> HIDE DEF Unopened, SweptFor
      <4> QED
        BY <4>1, <4>2, <4>3, <4>4, HandledStays
    <3> QED
      BY <3>1, <3>2
  <2>8. KnownSwept'
    <3>1. coins' = coins /\ DOMAIN cutShort' = 1..LastVersion
      BY <1>1, <1>2 DEF KnownSwept
    <3> HIDE DEF Unopened, SweptFor
    <3> QED
      BY <2>2, <2>7, <3>1 DEF KnownSwept, Handled, Alone
  <2>9. CoinsShaped'
    BY <1>4 DEF CoinsFollow, CoinsShaped
  <2> QED
    BY <2>6, <2>8, <2>9 DEF SweptInv
<1> QED
  BY <1>6, <1>7 DEF Store

LEMMA BroadcastSwept ==
  ASSUME PrivilegeInv, SweptInv, NEW p \in DOMAIN proposals, Broadcast(p)
  PROVE  SweptInv'
<1> DEFINE sent == [proposals[p] EXCEPT !.status = "broadcast"]
<1>1. /\ proposals' = [proposals EXCEPT ![p] = sent] /\ request' = Witnessing(versions')
      /\ UNCHANGED history
  BY DEF Broadcast
<1>2. IsSeq(proposals) /\ Placed(proposals[p]) /\ SlotsSee
  BY DEF PrivilegeInv, ProposalsPlaced, SweptInv
<1>3. CoinsFollow(coins, coins')
  <2>1. \E v, inputs, to, pays :
          coins' = Spending(inputs, Outputs(v, inputs, to, pays))
    BY DEF Broadcast
  <2> QED
    BY <2>1, OutputsAreCoins, SpendingFollows DEF SweptInv
<1>4. sent.sweeps = proposals[p].sweeps /\ sent.inputs = proposals[p].inputs
  BY <1>2 DEF Placed
<1> HIDE DEF sent
<1>5. /\ DOMAIN proposals' = DOMAIN proposals
      /\ \A x \in DOMAIN proposals : proposals'[x] = IF x = p THEN sent ELSE proposals[x]
  <2>1. PICK S : proposals \in Seq(S)
    BY <1>2 DEF IsSeq
  <2> QED
    BY <1>1, <2>1
<1>6. SweepsStay
  BY <1>4, <1>5, AlignedRows
<1>7. SlotsCarry({})
  <2>1. \A q \in Requests : Carries(request[q], Witnessing(versions')[q])
    BY <1>2, WitnessingCarries
  <2> HIDE DEF Witnessing
  <2> QED
    BY <1>1, <2>1 DEF SlotsCarry
<1> HIDE DEF SweepsStay
<1> QED
  BY <1>1, <1>3, <1>6, <1>7, CarriedSwept

LEMMA CancelMigrationSwept ==
  ASSUME PrivilegeInv, SweptInv, NEW u, NEW v, CancelMigration(u, v)
  PROVE  SweptInv'
<1> DEFINE gone(p) == [proposals[p] EXCEPT !.status = "cancelled"]
<1>1. /\ UNCHANGED <<coins, request, history>> /\ DOMAIN proposals' = DOMAIN proposals
      /\ \A p \in DOMAIN proposals : proposals'[p] = gone(p) \/ proposals'[p] = proposals[p]
  BY DEF CancelMigration
<1>2. SlotsSee /\ \A p \in DOMAIN proposals : Placed(proposals[p])
  BY DEF PrivilegeInv, ProposalsPlaced, SweptInv
<1>3. \A p \in DOMAIN proposals : /\ gone(p).sweeps = proposals[p].sweeps
                                  /\ gone(p).inputs = proposals[p].inputs
  BY <1>2 DEF Placed
<1> HIDE DEF gone
<1>4. SweepsStay
  BY <1>1, <1>3, AlignedRows
<1>5. CoinsFollow(coins, coins') /\ SlotsCarry({})
  BY <1>1, <1>2, CoinsUntouched, UnchangedSlotsCarry
<1> HIDE DEF SweepsStay
<1> QED
  BY <1>1, <1>4, <1>5, CarriedSwept

LEMMA CancelProposalSwept ==
  ASSUME PrivilegeInv, SweptInv, NEW p \in DOMAIN proposals, CancelProposal(p)
  PROVE  SweptInv'
<1> DEFINE gone == [proposals[p] EXCEPT !.status = "cancelled"]
<1>1. proposals' = [proposals EXCEPT ![p] = gone] /\ UNCHANGED <<coins, request, history>>
  BY DEF CancelProposal
<1>2. SlotsSee /\ IsSeq(proposals) /\ Placed(proposals[p])
  BY DEF PrivilegeInv, ProposalsPlaced, SweptInv
<1>3. gone.sweeps = proposals[p].sweeps /\ gone.inputs = proposals[p].inputs
  BY <1>2 DEF Placed
<1> HIDE DEF gone
<1>4. /\ DOMAIN proposals' = DOMAIN proposals
      /\ \A x \in DOMAIN proposals : proposals'[x] = IF x = p THEN gone ELSE proposals[x]
  <2>1. PICK S : proposals \in Seq(S)
    BY <1>2 DEF IsSeq
  <2> QED
    BY <1>1, <2>1
<1>5. SweepsStay
  BY <1>3, <1>4, AlignedRows
<1>6. CoinsFollow(coins, coins') /\ SlotsCarry({})
  BY <1>1, <1>2, CoinsUntouched, UnchangedSlotsCarry
<1> HIDE DEF SweepsStay
<1> QED
  BY <1>1, <1>5, <1>6, CarriedSwept

LEMMA FoundSwept ==
  ASSUME SweptInv, NEW u, NEW picked, NEW m, NEW taproot, Found(u, picked, m, taproot)
  PROVE  SweptInv'
<1>1. UNCHANGED <<coins, proposals, request, history>>
  BY DEF Found
<1>2. CoinsFollow(coins, coins') /\ SlotsCarry({}) /\ SweepsStay
  BY <1>1, CoinsUntouched, UnchangedSlotsCarry, AlignedRows DEF SweptInv
<1> HIDE DEF SweepsStay
<1> QED
  BY <1>1, <1>2, CarriedSwept

\* A restart: the wallets have forgotten, but so have all migrations that were
\* under way, and what they had still to open is cut short.
LEMMA RestartSwept ==
  ASSUME SweptInv, Restart
  PROVE  SweptInv'
<1> DEFINE lost(c) == [coins[c] EXCEPT !.seen = "unseen"]
<1>1. /\ coins' = Reloaded /\ request' = [r \in Requests |-> Idle] /\ EndingAll(Requests)
      /\ UNCHANGED <<proposals, known>>
  BY DEF Restart
<1>2. CoinsShaped /\ KnownSwept
  BY DEF SweptInv
<1>3. ASSUME NEW c \in DOMAIN coins
      PROVE  CoinLike(coins'[c]) /\ coins'[c].asset = coins[c].asset
             /\ coins'[c].spent = coins[c].spent
  <2>1. CoinLike(coins[c])
    BY <1>2, SameCoins
  <2>2. DOMAIN lost(c) = DOMAIN coins[c] /\ lost(c).asset = coins[c].asset
        /\ lost(c).spent = coins[c].spent
    BY <2>1 DEF CoinLike
  <2>3. coins'[c] = lost(c) \/ coins'[c] = coins[c]
    BY <1>1 DEF Reloaded
  <2> HIDE DEF lost
  <2> QED
    BY <2>1, <2>2, <2>3 DEF CoinLike
<1>4. DOMAIN coins' = DOMAIN coins /\ coins' = [c \in DOMAIN coins |-> coins'[c]]
  BY <1>1 DEF Reloaded
<1>5. CoinsShaped'
  <2>1. PICK S : coins \in Seq(S)
    BY <1>2 DEF CoinsShaped, IsSeq
  <2>2. DOMAIN coins' = 1..Len(coins) /\ Len(coins) \in Nat
    BY <1>4, <2>1
  <2>3. coins' \in Seq({coins'[c] : c \in DOMAIN coins'})
    BY <1>4, <2>2
  <2>4. IsSeq(coins')
    BY <2>3, Zenon DEF IsSeq
  <2> QED
    BY <1>3, <1>4, <2>4 DEF CoinsShaped, RowsOf
<1>6. SlotsSee'
  BY <1>1, IdleSees DEF SlotsSee
<1>7. CoinsStay(coins, coins')
  BY <1>3, <1>4 DEF CoinsStay
<1>8. SweepsStay
  BY <1>1, AlignedRows
<1>9. SlotsCarry(Requests) /\ EndsKept(Requests)
  BY <1>1, <1>2, EndingKeeps DEF SlotsCarry
<1> HIDE DEF SweepsStay
<1>10. KnownSwept'
  BY <1>1, <1>2, <1>7, <1>8, <1>9, KnownStays
<1> QED
  BY <1>5, <1>6, <1>10 DEF SweptInv

LEMMA QuietSwept ==
  ASSUME SweptInv, [Next]_vars, ~Restart,
         \/ \E u, v, chain : MaxSpend(u, v, chain)
         \/ \E v, a : Deposit(v, a)
         \/ \E c : Confirm(c)
         \/ \E u, d, atPath : OnboardSigner(u, d, atPath)
         \/ UNCHANGED vars
  PROVE  SweptInv'
<1>1. SlotsSee /\ CoinsFollow(coins, coins')
  BY CoinsStep DEF SweptInv
<1>2. UNCHANGED <<proposals, history>>
  BY DEF MaxSpend, Deposit, Confirm, OnboardSigner, vars
<1>3. UNCHANGED request \/ \E now : request' = Noticing(now)
  BY DEF MaxSpend, Deposit, Confirm, OnboardSigner, vars
<1>4. SlotsCarry({})
  BY <1>1, <1>3, UnchangedSlotsCarry, NoticingCarries DEF SlotsCarry
<1>5. SweepsStay
  BY <1>2, AlignedRows
<1> HIDE DEF SweepsStay
<1> QED
  BY <1>1, <1>2, <1>4, <1>5, CarriedSwept

\* A request that is served, but for migrations.
LEMMA HandlersSwept ==
  ASSUME RosterInv, PrivilegeInv, SweptInv, [Next]_vars, ~Restart, NEW r \in Requests,
         Creation(r) \/ Viewing(r)
  PROVE  SweptInv'
<1>1. CASE InsertProposal(r)
  BY <1>1, InsertSwept
<1>2. CASE Describe(r)
  BY <1>2, DescribeSwept
<1>3. CASE ~InsertProposal(r) /\ ~Describe(r)
  <2>1. SlotsCarry({})
    <3>1. SlotsSound /\ SlotsSee
      BY DEF RosterInv, SweptInv
    <3> QED
      BY <1>3, <3>1, ArrivalsCarry, HandlersCarry DEF Creation, Viewing
  <2>2. UNCHANGED <<proposals, history>>
    BY <1>3
       DEF Creation, Viewing, RequestCreate, CheckStatus, Build, OpenPage, OpenSend,
           Show, Detail, ReadVisible, ListVersions, LockRecipient, Panel, ExternalRows,
           ChangeRows, ReserveTotal, SyncPage, ReadBalance, Reply
  <2>3. CoinsFollow(coins, coins')
    BY CoinsStep DEF SweptInv
  <2>4. SweepsStay
    BY <2>2, AlignedRows
  <2> HIDE DEF SweepsStay
  <2> QED
    BY <2>1, <2>2, <2>3, <2>4, CarriedSwept
<1> QED
  BY <1>1, <1>2, <1>3

LEMMA SweptInvInductive ==
  ASSUME RosterInv, PrivilegeInv, SweptInv, [Next]_vars
  PROVE  SweptInv'
<1>1. CASE Restart
  BY <1>1, RestartSwept
<1>2. ASSUME ~Restart, Rosters
      PROVE  SweptInv'
  <2>1. ASSUME NEW r \in Requests, NEW u, NEW base \in Indices, NEW add, NEW remove, NEW m,
               Migrate(r, u, base, add, remove, m)
        PROVE  SweptInv'
    BY <2>1, MigrateSwept
  <2>2. ASSUME NEW u, NEW d, NEW atPath, OnboardSigner(u, d, atPath)
        PROVE  SweptInv'
    BY <1>2, <2>2, QuietSwept
  <2>3. ASSUME NEW u, NEW picked, NEW m, NEW taproot, Found(u, picked, m, taproot)
        PROVE  SweptInv'
    BY <2>3, FoundSwept
  <2> QED
    BY <1>2, <2>1, <2>2, <2>3, CancelMigrationSwept DEF Rosters
<1>3. ASSUME ~Restart, NEW r \in Requests, Sweeping(r)
      PROVE  SweptInv'
  BY <1>3, StoreSwept, BuildSweepSwept, OpenSweepSwept, FlipUnfundedSwept, CutShortSwept
     DEF Sweeping
<1>4. ASSUME ~Restart, NEW r \in Requests, Creation(r) \/ Viewing(r)
      PROVE  SweptInv'
  BY <1>4, HandlersSwept
<1>5. ASSUME ~Restart, Money
      PROVE  SweptInv'
  BY <1>5, BroadcastSwept, CancelProposalSwept, QuietSwept DEF Money
<1>6. CASE UNCHANGED vars /\ ~Restart
  BY <1>6, QuietSwept
<1> QED
  BY <1>1, <1>2, <1>3, <1>4, <1>5, <1>6 DEF Next

\* In such a lineage, when a version takes over, every coin its migration had
\* seen of its predecessor is spent or in a sweep of that migration, whatever is
\* deposited, synced, spent or cancelled meanwhile, wherever builds fail and
\* requests stop: only a chain whose sweep the request has not opened, or ended
\* without opening, is left out, and issued assets without any L-BTC to pay for
\* their sweep (migrations.rs:187).
THEOREM SeenIsSwept ==
  RosterTypeOK /\ RostersFollow /\ Headed(versions) /\ CoinsTypeOK /\ Spec => []SeenCoinsAreSwept
<1>1. RosterTypeOK /\ RostersFollow /\ Headed(versions) /\ CoinsTypeOK /\ Init =>
        RosterInv /\ PrivilegeInv /\ SweptInv
  <2> SUFFICES ASSUME RosterTypeOK, RostersFollow, Headed(versions), CoinsTypeOK, Init
               PROVE  RosterInv /\ PrivilegeInv /\ SweptInv
    OBVIOUS
  <2>1. RosterInv /\ PrivilegeInv
    BY InitialInvs
  <2>2. CoinsShaped
    <3>1. IsSeq(coins)
      BY Zenon DEF CoinsTypeOK, IsSeq
    <3>2. \A c \in RowsOf(coins) : c \in Coin
      BY DEF CoinsTypeOK, RowsOf
    <3>3. \A c \in Coin : CoinLike(c)
      BY DEF Coin, CoinLike
    <3> QED
      BY <3>1, <3>2, <3>3 DEF CoinsShaped
  <2>3. SlotsSee
    BY IdleSees DEF SlotsSee, Init
  <2>4. KnownSwept
    BY DEF KnownSwept, Handled, Init
  <2> QED
    BY <2>1, <2>2, <2>3, <2>4 DEF SweptInv
<1>2. RosterInv /\ PrivilegeInv /\ SweptInv /\ [Next]_vars =>
        RosterInv' /\ PrivilegeInv' /\ SweptInv'
  BY RosterInvInductive, PrivilegeInvInductive, SweptInvInductive
<1>3. RosterInv /\ SweptInv => SeenCoinsAreSwept
  BY SweptInvSuffices
<1> QED
  BY <1>1, <1>2, <1>3, PTL DEF Spec

=============================================================================
