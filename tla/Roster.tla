------------------------------- MODULE Roster -------------------------------
(***************************************************************************)
(* Who sits in which version of a federation, with which device, and who   *)
(* may look at what: signers, federations and federation_members as they   *)
(* are written by onboarding (onboard.rs), creation (new_federation.rs)    *)
(* and migrations (migrations.rs), and the queries of db.rs every page     *)
(* asks of them.  One lineage; a version is its version_index plus one.    *)
(***************************************************************************)
EXTENDS Naturals, Sequences, FiniteSets

CONSTANTS
  Users,
  Devices,      \* hardware wallets, by master fingerprint
  NoDevice,
  DeviceType,   \* what each is
  LastVersion   \* bound: versions of the lineage

ASSUME RosterAssumption ==
  /\ IsFiniteSet(Users) /\ Users # {} /\ NoDevice \notin Devices
  /\ DeviceType \in [Devices -> {"Jade", "Ledger", "Trezor"}]
  /\ LastVersion \in Nat

VARIABLES
  signers,   \* the rows of signers: for each user, oldest first
  versions   \* the rows of federations and federation_members

rosterVars == <<signers, versions>>

\* A key is of the federation's derivation path (P2WSH) or of another one.
SignerRow == [device : Devices, atPath : BOOLEAN]

\* A version: its status, that of the migration that minted it, the device of
\* each member, and migration_changes.
Version == [status : {"pending", "active", "superseded", "abandoned"},
            migration : {"none", "proposed", "enacted", "cancelled"},
            seats : [Users -> Devices \cup {NoDevice}],
            threshold : Nat, elements : BOOLEAN, taproot : BOOLEAN,
            change : [Users -> {"none", "keep", "add", "remove"}]]

Indices == DOMAIN versions

RosterTypeOK ==
  /\ signers \in [Users -> Seq(SignerRow)]
  /\ versions \in Seq(Version)
  /\ Len(versions) <= LastVersion

RosterInit ==
  /\ signers = [u \in Users |-> <<>>]
  /\ versions = <<>>

-----------------------------------------------------------------------------
(* Queries *)

IsMember(u, v) == versions[v].seats[u] # NoDevice
Members(v)     == {u \in Users : IsMember(u, v)}
MemberOf(u)    == {v \in Indices : IsMember(u, v)}

\* Mutant: the newest key at the path.
LastAtPath(u, i) ==
  /\ i \in DOMAIN signers[u] /\ signers[u][i].atPath
  /\ \A j \in (i + 1)..Len(signers[u]) : ~signers[u][j].atPath

\* find_signer_for_user_at_path: the oldest key at the federation's path.
FirstAtPath(u, i) ==
  /\ i \in DOMAIN signers[u] /\ signers[u][i].atPath
  /\ \A j \in 1..(i - 1) : ~signers[u][j].atPath
HasSigner(u) == \E i \in DOMAIN signers[u] : signers[u][i].atPath
SignerOf(u)  == signers[u][CHOOSE i \in DOMAIN signers[u] : FirstAtPath(u, i)].device

\* current_version_for_lineage, 0 when no version is active.
Current == IF \E v \in Indices : versions[v].status = "active"
           THEN CHOOSE v \in Indices : versions[v].status = "active"
           ELSE 0

\* current_signer_status, given the current version it has read.
IsCurrentSigner(u, current) == current = 0 \/ IsMember(u, current)

\* Mutant: the invitee of a version that is not current yet counts.
VisibleToInvited(u, current) ==
  IF current # 0 /\ \E v \in Indices : v >= current /\ IsMember(u, v)
  THEN Indices ELSE MemberOf(u)

\* visible_versions_for_user, given the current version it has read.
Visible(u, current) ==
  IF current # 0 /\ IsMember(u, current) THEN Indices ELSE MemberOf(u)

InFlight == \E v \in Indices : versions[v].migration = "proposed"

-----------------------------------------------------------------------------
(* Onboarding and creation *)

\* insert_signer.  A fingerprint the user already has is refused, at whatever
\* path it was.
Onboard(u, d, atPath) ==
  /\ \A i \in DOMAIN signers[u] : signers[u][i].device # d
  /\ signers' = [signers EXCEPT ![u] = Append(@, [device |-> d, atPath |-> atPath])]
  /\ UNCHANGED versions

\* resolve_member_signers: every one of them, or the list of those without.
Resolved(members) == [u \in Users |-> IF u \in members THEN SignerOf(u) ELSE NoDevice]

\* emvault-core's builders refuse the same extended key twice.
BuilderAccepts(seats) ==
  \A u, w \in Users : seats[u] = seats[w] /\ seats[u] # NoDevice => u = w

\* validate_threshold, and the same check in new_federation_post.
ValidThreshold(m, members) == m >= 1 /\ m <= Cardinality(members)

All(seats, type) == \A u \in Users : seats[u] # NoDevice => DeviceType[seats[u]] = type

\* insert_federation_with_members: version 0 of a lineage of its own.
FirstVersion(seats, m, taproot) ==
  [status |-> "active", migration |-> "none", seats |-> seats, threshold |-> m,
   elements |-> All(seats, "Jade"), taproot |-> taproot, change |-> [u \in Users |-> "none"]]

\* new_federation_post.  picked is what the form posts; the creator is put in.
NewFederation(u, picked, m, taproot) ==
  LET members == picked \cup {u}
      seats   == Resolved(members)
  IN  /\ versions = <<>> /\ LastVersion > 0
      /\ ValidThreshold(m, members)
      /\ \A w \in members : HasSigner(w)
      /\ taproot => All(seats, "Ledger")
      /\ BuilderAccepts(seats)
      /\ versions' = <<FirstVersion(seats, m, taproot)>>
      /\ UNCHANGED signers

-----------------------------------------------------------------------------
(* Migrations *)

\* compute_roster_plan (emvault-core): it refuses an added member, a removed
\* stranger and a plan that leaves nobody.
PlanAccepted(base, add, remove) ==
  /\ add \cap Members(base) = {} /\ remove \subseteq Members(base)
  /\ (Members(base) \cup add) \ remove # {}
Plan(base, add, remove) ==
  [u \in Users |-> IF IsMember(u, base) THEN IF u \in remove THEN "remove" ELSE "keep"
                   ELSE IF u \in add THEN "add" ELSE "none"]

\* The successor migrate_post builds from the roster it reads.
Successor(base, m, change) ==
  [status |-> "pending", migration |-> "proposed",
   seats |-> Resolved({u \in Users : change[u] \in {"keep", "add"}}),
   threshold |-> m, elements |-> versions[base].elements, taproot |-> FALSE,
   change |-> change]

\* migrate_post, up to what it builds before anything is stored.
MayMigrate(u, base) ==
  /\ base \in Indices /\ versions[base].status = "active" /\ ~versions[base].taproot
  /\ IsMember(u, base)
  /\ ~InFlight
Drafts(base, add, remove, m) ==
  LET change == Plan(base, add, remove)
      next   == {u \in Users : change[u] \in {"keep", "add"}}
      built  == IF PlanAccepted(base, add, remove) /\ ValidThreshold(m, next)
                   /\ \A w \in next : HasSigner(w)
                THEN {Successor(base, m, change)} ELSE {}
  IN  {s \in built : BuilderAccepts(s.seats)}

\* create_pending_migration: the index after the base's must be free, and no
\* other migration in flight.
Storable(base) == base = Len(versions) /\ ~InFlight /\ Len(versions) < LastVersion

\* enact_version_transition and cancel_migration.
Flipped(vs, v) == [vs EXCEPT ![v - 1].status = "superseded", ![v].status = "active",
                             ![v].migration = "enacted"]
Cancelled(v) == [versions EXCEPT ![v].migration = "cancelled",
                   ![v].status = IF @ = "pending" THEN "abandoned" ELSE @]

-----------------------------------------------------------------------------
(* Properties *)

\* However members, devices and migrations come and go, a seat is held by the
\* first key its member onboarded at the federation's path, so whoever stays
\* signs every version with one device (migrations.rs:128, which resolves the
\* members who stay a second time).
SeatsAreFirstKeys ==
  \A v \in Indices, u \in Users :
    IsMember(u, v) => HasSigner(u) /\ versions[v].seats[u] = SignerOf(u)

\* A version has a quorum: its threshold is within its members, whose devices
\* are different ones.
QuorumExists ==
  \A v \in Indices :
    versions[v].threshold \in 1..Cardinality({versions[v].seats[u] : u \in Members(v)})

\* A successor's roster is what the recorded changes make of its predecessor's,
\* however long ago the handler read that one, and it keeps both chains.
ChangesExplainRoster ==
  \A v \in Indices \ {1} :
    /\ \A u \in Users :
         /\ IsMember(u, v) <=> versions[v].change[u] \in {"keep", "add"}
         /\ IsMember(u, v - 1) <=> versions[v].change[u] \in {"keep", "remove"}
    /\ versions[v].elements = versions[v - 1].elements

\* The rosters of a lineage follow from one another and can sign
\* (new_federation.rs:177, migrations.rs:82).
RostersFollow == SeatsAreFirstKeys /\ QuorumExists /\ ChangesExplainRoster
=============================================================================
