--------------------------- MODULE MigrationProofs ---------------------------
(***************************************************************************)
(* Theorems about Migration, for lineages of any length, any deposits, one *)
(* chain or two, and any number of requests abandoned anywhere: first the  *)
(* succession of versions, then where a migration puts the coins.          *)
(***************************************************************************)
EXTENDS Migration, TLAPS

\* A slot that moves to another statement, or ends, stays well typed.
LEMMA GotoType ==
  ASSUME request \in [Requests -> Request], NEW r \in Requests,
         NEW step \in Steps, Goto(r, step)
  PROVE  request' \in [Requests -> Request]
  BY DEF Goto, Request

LEMMA FinishType ==
  ASSUME request \in [Requests -> Request], NEW r \in Requests, Finish(r)
  PROVE  request' \in [Requests -> Request]
  BY MigrationAssumption DEF Finish, Idle, Request, Steps, Versions

\* A submission, a cancellation or a broadcast of one sweep: up to its guard it
\* takes a free slot, then it writes the row it has read by its id alone.
Start(r, v, c) == RequestSign(r, v, c) \/ RequestCancelSweep(r, v, c) \/ RequestBroadcast(r, v, c)
Rewrite(r)     == UpdatePsbt(r) \/ FinalizeSweep(r) \/ CancelSweep(r) \/ MarkBroadcast(r)

LEMMA WhatStarts ==
  ASSUME request \in [Requests -> Request], NEW r \in Requests, NEW v \in Versions,
         NEW c \in Chains, Start(r, v, c)
  PROVE  /\ UNCHANGED <<version, migration, sweep, sweptVia, coinAt, sent>>
         /\ request[r].step = "idle"
         /\ request'[r].step \in {"update", "cancel", "send"} /\ request'[r].target = v
         /\ request'[r].todo = {c} /\ request'[r].inputs = sweep[v][c].inputs
         /\ \A s \in Requests \ {r} : request'[s] = request[s]
         /\ sweep[v][c].status \in {"open", "finalized"}
         /\ request'[r].step = "update" => sweep[v][c].status = "open"
         /\ request'[r].step = "send" =>
              sweep[v][c].status = "finalized" /\ sweep[v][c].extracted
<1>1. CASE RequestSign(r, v, c)
  BY <1>1 DEF RequestSign, Free, dbVars, chainVars
<1>2. CASE RequestCancelSweep(r, v, c)
  BY <1>2 DEF RequestCancelSweep, Free, dbVars, chainVars
<1>3. CASE RequestBroadcast(r, v, c)
  BY <1>3 DEF RequestBroadcast, Free, dbVars, chainVars
<1> QED
  BY <1>1, <1>2, <1>3 DEF Start

\* What a row has after such a write, and what the other rows keep.
RowBecomes(r, status, v, c) ==
  IF Working(r, v, c)
  THEN /\ sweep'[v][c].status = status
       /\ sweep[v][c].extracted => sweep'[v][c].extracted
       /\ sweep'[v][c].inputs = sweep[v][c].inputs
  ELSE sweep'[v][c] = sweep[v][c]

LEMMA RowWritten ==
  ASSUME sweep \in [Versions -> [Chains -> Sweep]], NEW r,
         NEW status \in {"open", "finalized", "broadcast", "cancelled"},
         NEW extracted \in BOOLEAN, WriteSweep(r, status, extracted)
  PROVE  /\ sweep' \in [Versions -> [Chains -> Sweep]]
         /\ \A v \in Versions, c \in Chains : RowBecomes(r, status, v, c)
<1> DEFINE new(v, c) == [sweep[v][c] EXCEPT !.status = status, !.extracted = extracted \/ @]
<1>1. \A v \in Versions, c \in Chains :
        /\ new(v, c) \in Sweep
        /\ new(v, c).status = status
        /\ sweep[v][c].extracted => new(v, c).extracted
        /\ new(v, c).inputs = sweep[v][c].inputs
  <2> TAKE v \in Versions, c \in Chains
  <2> DEFINE s == sweep[v][c]
  <2>1. s \in Sweep
    OBVIOUS
  <2> HIDE DEF s
  <2>2. (extracted \/ s.extracted) \in BOOLEAN
    BY <2>1 DEF Sweep
  <2>3. LET n == [s EXCEPT !.status = status, !.extracted = extracted \/ @]
        IN  /\ n \in Sweep /\ n.status = status
            /\ (s.extracted => n.extracted) /\ n.inputs = s.inputs
    BY <2>1, <2>2 DEF Sweep
  <2> QED
    BY <2>3 DEF s
<1>2. sweep' = [v \in Versions |-> [c \in Chains |->
                  IF Working(r, v, c) THEN new(v, c) ELSE sweep[v][c]]]
  BY DEF WriteSweep
<1> HIDE DEF new
<1>3. \A v \in Versions, c \in Chains :
        sweep'[v][c] = IF Working(r, v, c) THEN new(v, c) ELSE sweep[v][c]
  BY <1>2
<1>4. sweep' \in [Versions -> [Chains -> Sweep]]
  BY <1>1, <1>2
<1> QED
  BY <1>1, <1>3, <1>4 DEF RowBecomes

\* The writes, with what each makes of its slot and of the row.
LEMMA WhatRewrites ==
  ASSUME TypeOK, NEW r \in Requests, Rewrite(r)
  PROVE  /\ UNCHANGED <<version, migration, sweptVia, coinAt, sent>>
         /\ request[r].step \in {"update", "extract", "cancel", "mark"}
         /\ \A s \in Requests \ {r} : request'[s] = request[s]
         /\ \/ request'[r].step = "idle" /\ request[r].step # "mark"
            \/ /\ request[r].step = "update" /\ request'[r].step = "extract"
               /\ request'[r].target = request[r].target /\ request'[r].todo = request[r].todo
            \/ /\ request[r].step = "mark" /\ request'[r].step = "lookup"
               /\ request'[r].target = request[r].target /\ request'[r].todo = request[r].todo
<1>t. request \in [Requests -> Request]
  BY DEF TypeOK
<1>1. UNCHANGED <<version, migration, sweptVia, coinAt, sent>>
  BY DEF Rewrite, UpdatePsbt, FinalizeSweep, CancelSweep, MarkBroadcast, chainVars
<1>2. \/ request[r].step \in {"update", "extract", "cancel"} /\ Finish(r)
      \/ request[r].step = "update" /\ Goto(r, "extract")
      \/ request[r].step = "mark" /\ Goto(r, "lookup")
  BY DEF Rewrite, UpdatePsbt, FinalizeSweep, CancelSweep, MarkBroadcast
<1>3. CASE Finish(r)
  BY <1>t, <1>1, <1>2, <1>3 DEF Finish, Idle, Goto, Request
<1>4. CASE request[r].step = "update" /\ Goto(r, "extract")
  BY <1>t, <1>1, <1>4 DEF Goto, Request
<1>5. CASE request[r].step = "mark" /\ Goto(r, "lookup")
  BY <1>t, <1>1, <1>5 DEF Goto, Request
<1> QED
  BY <1>2, <1>3, <1>4, <1>5

LEMMA WhatIsWritten ==
  ASSUME TypeOK, NEW r \in Requests, Rewrite(r)
  PROVE  /\ sweep' \in [Versions -> [Chains -> Sweep]]
         /\ \E status \in {"open", "finalized", "broadcast", "cancelled"} :
              /\ status = "broadcast" => request[r].step = "mark"
              /\ request'[r].step = "extract" => status = "finalized"
              /\ \A v \in Versions, c \in Chains : RowBecomes(r, status, v, c)
<1>t. /\ sweep \in [Versions -> [Chains -> Sweep]] /\ request \in [Requests -> Request]
  BY DEF TypeOK
<1>1. PICK status \in {"open", "finalized", "broadcast", "cancelled"}, extracted \in BOOLEAN :
        /\ WriteSweep(r, status, extracted)
        /\ status = "broadcast" => request[r].step = "mark"
        /\ status = "finalized" \/ Finish(r) \/ Goto(r, "lookup")
  BY DEF Rewrite, UpdatePsbt, FinalizeSweep, CancelSweep, MarkBroadcast
<1>2. request'[r].step = "extract" => status = "finalized"
  BY <1>t, <1>1 DEF Finish, Goto, Idle, Request
<1>3. WriteSweep(r, status, extracted)
  BY <1>1
<1>4. /\ sweep' \in [Versions -> [Chains -> Sweep]]
      /\ \A v \in Versions, c \in Chains : RowBecomes(r, status, v, c)
  BY <1>t, <1>3, RowWritten
<1> QED
  BY <1>1, <1>2, <1>4

\* A cancelled migration closes the sweeps of that migration that are not sent,
\* and leaves what they spend and what was extracted.
LEMMA WhatCancels ==
  ASSUME TypeOK, NEW r \in Requests, NEW v \in Versions, CancelMigration(r, v)
  PROVE  /\ request[r].step = "idle" /\ UNCHANGED <<sweptVia, coinAt, sent, request>>
         /\ \A u \in Versions, c \in Chains :
              \/ /\ sweep'[u][c] = sweep[u][c]
                 /\ u # v \/ sweep[u][c].status \notin {"open", "finalized"}
              \/ /\ u = v /\ sweep[u][c].status \in {"open", "finalized"}
                 /\ sweep'[u][c].status = "cancelled"
                 /\ sweep'[u][c].extracted = sweep[u][c].extracted
                 /\ sweep'[u][c].inputs = sweep[u][c].inputs
<1>1. request[r].step = "idle" /\ UNCHANGED <<sweptVia, coinAt, sent, request>>
  BY DEF CancelMigration, Free, chainVars
<1> SUFFICES ASSUME NEW u \in Versions, NEW c \in Chains
             PROVE  \/ /\ sweep'[u][c] = sweep[u][c]
                       /\ u # v \/ sweep[u][c].status \notin {"open", "finalized"}
                    \/ /\ u = v /\ sweep[u][c].status \in {"open", "finalized"}
                       /\ sweep'[u][c].status = "cancelled"
                       /\ sweep'[u][c].extracted = sweep[u][c].extracted
                       /\ sweep'[u][c].inputs = sweep[u][c].inputs
  BY <1>1
<1> DEFINE closed == [sweep[u][c] EXCEPT !.status = "cancelled"]
<1>2. /\ closed.status = "cancelled" /\ closed.extracted = sweep[u][c].extracted
      /\ closed.inputs = sweep[u][c].inputs
  BY DEF TypeOK, Sweep
<1>3. sweep'[u][c] = IF u = v /\ sweep[u][c].status \in {"open", "finalized"}
                     THEN closed ELSE sweep[u][c]
  BY DEF CancelMigration, TypeOK
<1> HIDE DEF closed
<1> QED
  BY <1>2, <1>3

\* Committed or rolled back, the version flip keeps the columns well typed.
LEMMA EnactType ==
  ASSUME TypeOK, NEW v \in Versions, EnactTransition(v)
  PROVE  TypeOK!1' /\ TypeOK!2'
  BY DEF TypeOK, EnactTransition, Activate

\* Every reachable state of the lineage, its coins and the slots has its type.
THEOREM TypeCorrect == Spec => []TypeOK
<1>1. Init => TypeOK
  BY MigrationAssumption DEF Init, TypeOK, Sweep, NoSweep, Request, Steps, Idle, Versions
<1>2. TypeOK /\ [Next]_vars => TypeOK'
  <2> SUFFICES ASSUME TypeOK, [Next]_vars
               PROVE  TypeOK'
    OBVIOUS
  <2> USE DEF TypeOK, dbVars, chainVars
  <2>1. ASSUME NEW r \in Requests, NEW b \in Versions, RequestMigration(r, b)
        PROVE  TypeOK'
    <3>1. b + 1 \in Versions
      BY <2>1, MigrationAssumption DEF RequestMigration, Versions
    <3> DEFINE funded == {c \in Chains : Held(b, c) # {}}
               inputs == IF DualChain THEN {} ELSE {k \in Coins : coinAt[k] = b}
    <3>2. [step |-> "create", target |-> b + 1, todo |-> funded, inputs |-> inputs]
            \in Request
      BY <3>1 DEF Request, Steps
    <3> QED
      BY <2>1, <3>2 DEF RequestMigration
  <2>2. ASSUME NEW r \in Requests, CreatePending(r)
        PROVE  TypeOK'
    <3>1. request[r].target \in Versions
      BY DEF Request
    <3>2. request' \in [Requests -> Request]
      BY <2>2, GotoType, FinishType DEF CreatePending, Steps
    <3> QED
      BY <2>2, <3>1, <3>2 DEF CreatePending
  <2>3. ASSUME NEW r \in Requests, InsertSweep(r)
        PROVE  TypeOK'
    <3> DEFINE v == request[r].target
               c == NextChain(request[r].todo)
               inputs == IF DualChain THEN Held(v - 1, c) ELSE request[r].inputs
    <3>1. v \in Versions /\ inputs \subseteq Coins /\ request[r].todo \subseteq Chains
      BY DEF Request, Held
    <3>2. [status |-> "open", extracted |-> FALSE, inputs |-> inputs] \in Sweep
      BY <3>1 DEF Sweep
    <3>3. sweep' = [sweep EXCEPT ![v][c] =
                      [status |-> "open", extracted |-> FALSE, inputs |-> inputs]]
      BY <2>3 DEF InsertSweep
    <3>4. sweep' \in [Versions -> [Chains -> Sweep]]
      BY <3>1, <3>2, <3>3
    <3>5. request' \in [Requests -> Request]
      <4>1. CASE Finish(r)
        BY <4>1, FinishType
      <4>2. CASE request' = [request EXCEPT ![r].todo = @ \ {c}]
        <5>1. [request[r] EXCEPT !.todo = @ \ {c}] \in Request
          BY <3>1 DEF Request
        <5> QED
          BY <4>2, <5>1
      <4> QED
        BY <2>3, <4>1, <4>2 DEF InsertSweep
    <3> QED
      BY <2>3, <3>4, <3>5 DEF InsertSweep
  <2>4. ASSUME NEW r \in Requests, EnactUnfunded(r) \/ EnactBroadcast(r)
        PROVE  TypeOK'
    <3>1. request[r].target \in Versions
      BY DEF Request
    <3>2. request' \in [Requests -> Request]
      BY <2>4, GotoType, FinishType DEF EnactUnfunded, EnactBroadcast, Steps
    <3> QED
      BY <2>4, <3>1, <3>2, EnactType DEF EnactUnfunded, EnactBroadcast
  <2>5. ASSUME NEW r \in Requests, NEW v \in Versions, NEW c \in Chains, Start(r, v, c)
        PROVE  TypeOK'
    <3>1. sweep[v][c].inputs \subseteq Coins
      BY DEF Sweep
    <3>2. \A st \in {"update", "cancel", "send"} :
            [step |-> st, target |-> v, todo |-> {c}, inputs |-> sweep[v][c].inputs] \in Request
      BY <3>1 DEF Request, Steps
    <3>3. request' \in [Requests -> Request]
      BY <2>5, <3>2 DEF Start, RequestSign, RequestCancelSweep, RequestBroadcast
    <3> QED
      BY <2>5, <3>3, WhatStarts
  <2>6. ASSUME NEW r \in Requests, Rewrite(r)
        PROVE  TypeOK'
    <3>1. request' \in [Requests -> Request]
      BY <2>6, GotoType, FinishType
         DEF Rewrite, UpdatePsbt, FinalizeSweep, CancelSweep, MarkBroadcast, Steps
    <3> QED
      BY <2>6, <3>1, WhatRewrites, WhatIsWritten
  <2>7. ASSUME NEW r \in Requests, BuildFails(r)
        PROVE  TypeOK'
    BY <2>7, FinishType DEF BuildFails
  <2>8. ASSUME NEW r \in Requests, BroadcastSweep(r)
        PROVE  TypeOK'
    <3>1. request[r].target \in Versions /\ request[r].todo \subseteq Chains
      BY DEF Request
    <3>2. request' \in [Requests -> Request]
      BY <2>8, GotoType DEF BroadcastSweep, Steps
    <3>3. sent' \in [Versions -> SUBSET Chains]
      BY <2>8, <3>1 DEF BroadcastSweep
    <3> QED
      BY <2>8, <3>1, <3>2, <3>3 DEF BroadcastSweep
  <2>9. ASSUME NEW r \in Requests, RefuseSweep(r)
        PROVE  TypeOK'
    BY <2>9, FinishType DEF RefuseSweep
  <2>11. ASSUME NEW r \in Requests, LookupEnactment(r)
         PROVE  TypeOK'
    BY <2>11, GotoType, FinishType DEF LookupEnactment, Steps
  <2>12. ASSUME NEW r \in Requests, CompleteMigration(r)
         PROVE  TypeOK'
    <3>1. request[r].todo \in SUBSET Chains
      BY DEF Request
    <3> QED
      BY <2>12, <3>1, FinishType DEF CompleteMigration
  <2>13. ASSUME NEW r \in Requests, NEW v \in Versions, CancelMigration(r, v)
         PROVE  TypeOK'
    <3>1. sweep' \in [Versions -> [Chains -> Sweep]]
      <4>1. \A x \in Sweep : [x EXCEPT !.status = "cancelled"] \in Sweep
        BY DEF Sweep
      <4> QED
        BY <2>13, <4>1 DEF CancelMigration
    <3> QED
      BY <2>13, <3>1 DEF CancelMigration
  <2>14. ASSUME NEW r \in Requests, Stop(r)
         PROVE  TypeOK'
    BY <2>14, FinishType DEF Stop
  <2>15. ASSUME NEW k \in Coins, Spend(k) \/ \E v \in Versions : Deposit(k, v)
         PROVE  TypeOK'
    BY <2>15 DEF Spend, Deposit
  <2>16. CASE UNCHANGED vars
    BY <2>16 DEF vars
  <2> QED
    BY <2>1, <2>2, <2>3, <2>4, <2>5, <2>6, <2>7, <2>8, <2>9, <2>11, <2>12,
       <2>13, <2>14, <2>15, <2>16 DEF Next, Receive, Advance, Start, Rewrite
<1> QED
  BY <1>1, <1>2, PTL DEF Spec

-----------------------------------------------------------------------------

(***************************************************************************)
(* The succession of versions.  LineageShape is not inductive alone: that  *)
(* a late or stale flip finds either its own version current or another    *)
(* version active needs TargetsStored, and that the predecessor it         *)
(* supersedes is the current version needs InFlightAmendsCurrent.          *)
(***************************************************************************)
SuccessionInv ==
  /\ TypeOK
  /\ LineageShape
  /\ InFlightAmendsCurrent
  /\ TargetsStored

LEMMA VersionArithmetic == \A v \in Versions : v \in Int /\ v >= 0 /\ (v # 0 => v - 1 \in Versions)
  BY MigrationAssumption DEF Versions

LEMMA InitSuccession == Init => SuccessionInv
<1> SUFFICES ASSUME Init
             PROVE  SuccessionInv
  OBVIOUS
<1>1. TypeOK
  BY MigrationAssumption DEF Init, TypeOK, Sweep, NoSweep, Request, Steps, Idle, Versions
<1>2. LineageShape
  <2>1. 0 \in Versions
    BY MigrationAssumption DEF Versions
  <2>2. version = [v \in Versions |-> IF v = 0 THEN "active" ELSE "none"]
    BY DEF Init
  <2>3. \A v \in Versions : /\ version[v] = "active" <=> v = 0
                            /\ version[v] = "superseded" <=> v < 0
                            /\ v > 0 + 1 => version[v] = "none"
    BY <2>2, VersionArithmetic
  <2> QED
    BY <2>1, <2>3 DEF LineageShape
<1>3. InFlightAmendsCurrent /\ TargetsStored
  BY DEF Init, Idle, NoSweep, InFlightAmendsCurrent, TargetsStored, RowsStored, SlotsStored
<1> QED
  BY <1>1, <1>2, <1>3 DEF SuccessionInv

\* A column value a version never loses once it has one of its kind.
Kept(u) == /\ version[u] # "none" => version'[u] # "none"
           /\ version[u] \in {"active", "superseded"} =>
                version'[u] \in {"active", "superseded"}

OnlyAdds(v) == \A u \in Versions :
  Kept(u) /\ (migration'[u] # "none" => u = v \/ migration[u] # "none")

\* Committed or rolled back, a flip to a stored version keeps the succession.
LEMMA EnactSuccession ==
  ASSUME SuccessionInv, NEW v \in Versions, v # 0, version[v] # "none", EnactTransition(v)
  PROVE  LineageShape' /\ InFlightAmendsCurrent' /\ OnlyAdds(v)
<1>1. CASE ~CanActivate(v)
  <2>1. version' = version /\ migration' = migration
    BY <1>1 DEF EnactTransition
  <2> QED
    BY <2>1 DEF SuccessionInv, LineageShape, InFlightAmendsCurrent, OnlyAdds, Kept
<1>2. CASE CanActivate(v)
  <2> PICK current \in Versions :
        \A u \in Versions :
          /\ version[u] = "active" <=> u = current
          /\ version[u] = "superseded" <=> u < current
          /\ u > current + 1 => version[u] = "none"
    BY DEF SuccessionInv, LineageShape
  <2>1. v = current \/ v = current + 1
    <3>1. version[current] = "active"
      OBVIOUS
    <3>2. current \in {v - 1, v}
      BY <1>2, <3>1 DEF CanActivate
    <3> QED
      BY <3>2, VersionArithmetic
  <2>2. v - 1 \in Versions
    BY VersionArithmetic
  <2>3. /\ version' = [version EXCEPT ![v - 1] = "superseded", ![v] = "active"]
        /\ migration' = [migration EXCEPT ![v] = "enacted"]
    BY <1>2 DEF EnactTransition, Activate
  <2>4. \A u \in Versions :
          /\ version'[u] = IF u = v THEN "active"
                           ELSE IF u = v - 1 THEN "superseded" ELSE version[u]
          /\ migration'[u] = IF u = v THEN "enacted" ELSE migration[u]
    BY <2>2, <2>3 DEF SuccessionInv, TypeOK
  <2>5. \A u \in Versions : /\ version'[u] = "active" <=> u = v
                            /\ version'[u] = "superseded" <=> u < v
                            /\ u > v + 1 => version'[u] = "none"
    BY <2>1, <2>4, VersionArithmetic
  <2>6. LineageShape'
    BY <2>5 DEF LineageShape
  <2>7. InFlightAmendsCurrent'
    <3> SUFFICES ASSUME NEW u \in Versions, migration'[u] = "proposed"
                 PROVE  u # 0 /\ version'[u] = "pending" /\ version'[u - 1] = "active"
      BY DEF InFlightAmendsCurrent
    <3>1. u # v /\ migration[u] = "proposed"
      BY <2>4
    <3>2. u # 0 /\ version[u] = "pending" /\ version[u - 1] = "active" /\ u - 1 \in Versions
      BY <3>1, VersionArithmetic DEF SuccessionInv, InFlightAmendsCurrent
    <3>3. u = current + 1
      BY <3>2, VersionArithmetic
    <3>4. v = current
      BY <2>1, <3>1, <3>3
    <3> QED
      BY <2>4, <3>1, <3>2, <3>3, <3>4, VersionArithmetic
  <2> QED
    BY <2>4, <2>6, <2>7 DEF OnlyAdds, Kept
<1> QED
  BY <1>1, <1>2

\* A slot ends, moves on past its insert, or is not touched.
MovesOn(s) == \/ request'[s].step = "idle"
              \/ request'[s] = request[s]
              \/ /\ request'[s].target = request[s].target
                 /\ request[s].step \notin {"idle", "create"}
                 /\ request'[s].step # "create"

LEMMA SlotsMoveOn ==
  ASSUME TypeOK, SlotsStored,
         \A u \in Versions : Kept(u),
         \A s \in Requests : MovesOn(s)
  PROVE  SlotsStored'
<1> SUFFICES ASSUME NEW s \in Requests
             PROVE  /\ request'[s].step = "create" =>
                         /\ request'[s].target # 0
                         /\ version'[request'[s].target - 1] \in {"active", "superseded"}
                    /\ request'[s].step \notin {"idle", "create"} =>
                         request'[s].target # 0 /\ version'[request'[s].target] # "none"
  BY DEF SlotsStored
<1>1. request[s].target \in Versions
  BY DEF TypeOK, Request
<1>2. request[s].target # 0 => request[s].target - 1 \in Versions
  BY <1>1, VersionArithmetic
<1>3. MovesOn(s) /\ Kept(request[s].target)
  BY <1>1
<1>4. request[s].target # 0 => Kept(request[s].target - 1)
  BY <1>2
<1> QED
  BY <1>3, <1>4 DEF SlotsStored, MovesOn, Kept

LEMMA NextSuccession == SuccessionInv /\ TypeOK' /\ [Next]_vars => SuccessionInv'
<1> SUFFICES ASSUME SuccessionInv, TypeOK', [Next]_vars
             PROVE  LineageShape' /\ InFlightAmendsCurrent' /\ TargetsStored'
  BY DEF SuccessionInv
<1>i. SuccessionInv
  OBVIOUS
<1> USE DEF SuccessionInv
<1>t. TypeOK
  OBVIOUS
\* Steps that leave the versions and the migrations alone.
<1>u. ASSUME UNCHANGED <<version, migration>>
      PROVE  LineageShape' /\ InFlightAmendsCurrent' /\ \A u \in Versions : Kept(u)
  BY <1>u DEF LineageShape, InFlightAmendsCurrent, OnlyAdds, Kept
<1>1. ASSUME NEW r \in Requests, NEW b \in Versions, RequestMigration(r, b)
      PROVE  LineageShape' /\ InFlightAmendsCurrent' /\ TargetsStored'
  <2>1. UNCHANGED <<version, migration, sweep>>
    BY <1>1 DEF RequestMigration, dbVars
  <2>2. RowsStored'
    BY <2>1 DEF TargetsStored, RowsStored
  <2>3. /\ request'[r].step = "create" /\ request'[r].target = b + 1
        /\ \A s \in Requests \ {r} : request'[s] = request[s]
    BY <1>1, <1>t DEF RequestMigration, TypeOK
  <2>4. b + 1 # 0 /\ (b + 1) - 1 = b /\ version'[b] = "active"
    BY <1>1, <2>1, VersionArithmetic DEF RequestMigration
  <2>5. SlotsStored'
    BY <2>1, <2>3, <2>4 DEF TargetsStored, SlotsStored
  <2> QED
    BY <1>u, <2>1, <2>2, <2>5 DEF TargetsStored
<1>2. ASSUME NEW r \in Requests, CreatePending(r)
      PROVE  LineageShape' /\ InFlightAmendsCurrent' /\ TargetsStored'
  <2> DEFINE v == request[r].target
  <2>1. CASE ~(NoneInFlight /\ version[v] = "none")
    <3>1. UNCHANGED <<version, migration, sweep>> /\ Finish(r)
      BY <1>2, <2>1 DEF CreatePending
    <3>2. \A s \in Requests : MovesOn(s)
      BY <3>1, <1>t DEF Finish, Idle, MovesOn, TypeOK
    <3>3. SlotsStored'
      BY <1>t, <1>u, <3>1, <3>2, SlotsMoveOn DEF TargetsStored
    <3> QED
      BY <1>u, <3>1, <3>3 DEF TargetsStored, RowsStored
  <2>2. CASE NoneInFlight /\ version[v] = "none"
    <3>1. v \in Versions /\ v # 0 /\ version[v - 1] \in {"active", "superseded"}
          /\ v - 1 \in Versions
      BY <1>2, <1>t, VersionArithmetic
         DEF CreatePending, TypeOK, Request, TargetsStored, SlotsStored
    <3>2. /\ version' = [version EXCEPT ![v] = "pending"]
          /\ migration' = [migration EXCEPT ![v] = "proposed"]
          /\ sweep' = sweep
          /\ \E step \in {"bump", "insert"} : Goto(r, step)
      BY <1>2, <2>2 DEF CreatePending
    <3>3. \A u \in Versions :
            /\ version'[u] = IF u = v THEN "pending" ELSE version[u]
            /\ migration'[u] = IF u = v THEN "proposed" ELSE migration[u]
      BY <3>1, <3>2 DEF TypeOK
    <3> PICK current \in Versions :
          \A u \in Versions :
            /\ version[u] = "active" <=> u = current
            /\ version[u] = "superseded" <=> u < current
            /\ u > current + 1 => version[u] = "none"
      BY DEF LineageShape
    <3>4. v = current + 1
      BY <2>2, <3>1, VersionArithmetic
    <3>5. LineageShape'
      <4>1. \A u \in Versions : /\ version'[u] = "active" <=> u = current
                                /\ version'[u] = "superseded" <=> u < current
                                /\ u > current + 1 => version'[u] = "none"
        BY <3>3, <3>4, VersionArithmetic
      <4> QED
        BY <4>1 DEF LineageShape
    <3>6. InFlightAmendsCurrent'
      <4>1. \A u \in Versions : migration'[u] = "proposed" => u = v
        BY <2>2, <3>3 DEF NoneInFlight
      <4>2. version'[v] = "pending" /\ version'[v - 1] = "active"
        BY <3>1, <3>3, <3>4, VersionArithmetic
      <4> QED
        BY <4>1, <4>2, <3>1 DEF InFlightAmendsCurrent
    <3>7. RowsStored'
      BY <3>1, <3>2, <3>3 DEF TargetsStored, RowsStored
    <3>8. SlotsStored'
      <4> SUFFICES ASSUME NEW s \in Requests
                   PROVE  /\ request'[s].step = "create" =>
                               /\ request'[s].target # 0
                               /\ version'[request'[s].target - 1] \in {"active", "superseded"}
                          /\ request'[s].step \notin {"idle", "create"} =>
                               request'[s].target # 0 /\ version'[request'[s].target] # "none"
        BY DEF SlotsStored
      <4>1. CASE s = r
        <5>1. request'[r].target = v /\ request'[r].step # "create"
          BY <3>2, <1>t DEF Goto, TypeOK, Request
        <5> QED
          BY <4>1, <5>1, <3>1, <3>3
      <4>2. CASE s # r
        <5>1. request'[s] = request[s] /\ request[s].target \in Versions
          BY <4>2, <3>2, <1>t DEF Goto, TypeOK, Request
        <5>2. request[s].target # 0 => request[s].target - 1 \in Versions
          BY <5>1, VersionArithmetic
        <5> QED
          BY <5>1, <5>2, <3>3, <2>2 DEF TargetsStored, SlotsStored
      <4> QED
        BY <4>1, <4>2
    <3> QED
      BY <3>5, <3>6, <3>7, <3>8 DEF TargetsStored
  <2> QED
    BY <2>1, <2>2
<1>3. ASSUME NEW r \in Requests, InsertSweep(r)
      PROVE  LineageShape' /\ InFlightAmendsCurrent' /\ TargetsStored'
  <2> DEFINE v == request[r].target
             c == NextChain(request[r].todo)
  <2>1. UNCHANGED <<version, migration>> /\ request[r].step = "insert"
    BY <1>3 DEF InsertSweep
  <2>2. v \in Versions /\ v # 0 /\ version[v] # "none"
    BY <2>1, <1>t DEF TypeOK, Request, TargetsStored, SlotsStored
  <2>3. \A u \in Versions \ {v} : sweep'[u] = sweep[u]
    BY <1>3, <1>t DEF InsertSweep, TypeOK
  <2>4. RowsStored'
    BY <2>1, <2>2, <2>3 DEF TargetsStored, RowsStored
  <2>5. \A s \in Requests : MovesOn(s)
    <3>1. CASE Finish(r)
      BY <3>1, <1>t DEF Finish, Idle, MovesOn, TypeOK
    <3>2. CASE request' = [request EXCEPT ![r].todo = @ \ {c}]
      BY <3>2, <1>t, <2>1 DEF MovesOn, TypeOK, Request
    <3> QED
      BY <3>1, <3>2, <1>3 DEF InsertSweep
  <2> QED
    BY <1>t, <1>u, <2>1, <2>4, <2>5, SlotsMoveOn DEF TargetsStored
<1>4. ASSUME NEW r \in Requests, EnactUnfunded(r) \/ EnactBroadcast(r)
      PROVE  LineageShape' /\ InFlightAmendsCurrent' /\ TargetsStored'
  <2> PICK v \in Versions : v = request[r].target
    BY <1>t DEF TypeOK, Request
  <2>1. /\ request[r].step \in {"bump", "enact"}
        /\ EnactTransition(v)
        /\ UNCHANGED sweep
        /\ Goto(r, "complete") \/ Finish(r)
    BY <1>4 DEF EnactUnfunded, EnactBroadcast
  <2>2. v \in Versions /\ v # 0 /\ version[v] # "none"
    BY <2>1, <1>t DEF TypeOK, Request, TargetsStored, SlotsStored
  <2>3. LineageShape' /\ InFlightAmendsCurrent' /\ OnlyAdds(v)
    BY <1>i, <2>1, <2>2, EnactSuccession
  <2>4. RowsStored'
    BY <2>1, <2>2, <2>3 DEF OnlyAdds, Kept, TargetsStored, RowsStored
  <2>5. \A s \in Requests : MovesOn(s)
    BY <2>1, <1>t DEF Goto, Finish, Idle, MovesOn, TypeOK, Request
  <2> QED
    BY <1>t, <2>3, <2>4, <2>5, SlotsMoveOn DEF TargetsStored, OnlyAdds
<1>5. ASSUME NEW r \in Requests, NEW v \in Versions, NEW c \in Chains, Start(r, v, c)
      PROVE  LineageShape' /\ InFlightAmendsCurrent' /\ TargetsStored'
  <2>1. /\ UNCHANGED <<version, migration, sweep>> /\ sweep[v][c].status # "none"
        /\ request'[r].step \notin {"idle", "create"} /\ request'[r].target = v
        /\ \A s \in Requests \ {r} : request'[s] = request[s]
    BY <1>5, <1>t, WhatStarts DEF TypeOK
  <2>2. v # 0 /\ version[v] # "none"
    BY <2>1 DEF TargetsStored, RowsStored
  <2>3. SlotsStored'
    BY <2>1, <2>2 DEF TargetsStored, SlotsStored
  <2>4. RowsStored'
    BY <2>1 DEF TargetsStored, RowsStored
  <2> QED
    BY <1>u, <2>1, <2>3, <2>4 DEF TargetsStored
<1>6. ASSUME NEW r \in Requests, Rewrite(r)
      PROVE  LineageShape' /\ InFlightAmendsCurrent' /\ TargetsStored'
  <2> DEFINE v == request[r].target
  <2>1. /\ UNCHANGED <<version, migration>>
        /\ request[r].step \notin {"idle", "create"}
        /\ \A s \in Requests \ {r} : request'[s] = request[s]
        /\ \/ request'[r].step = "idle"
           \/ request'[r].target = v /\ request'[r].step \in {"extract", "lookup"}
    BY <1>6, <1>t, WhatRewrites
  <2>2. v \in Versions /\ v # 0 /\ version[v] # "none"
    BY <2>1, <1>t DEF TypeOK, Request, TargetsStored, SlotsStored
  <2>3. \A u \in Versions \ {v}, c \in Chains : sweep'[u][c] = sweep[u][c]
    <3> TAKE u \in Versions \ {v}, c \in Chains
    <3>1. ~Working(r, u, c) /\ u \in Versions
      BY DEF Working
    <3> HIDE DEF v
    <3> QED
      BY <1>6, <1>t, <3>1, WhatIsWritten DEF RowBecomes
  <2>4. RowsStored'
    BY <2>1, <2>2, <2>3 DEF TargetsStored, RowsStored
  <2>5. \A s \in Requests : MovesOn(s)
    BY <2>1 DEF MovesOn
  <2> QED
    BY <1>t, <1>u, <2>1, <2>4, <2>5, SlotsMoveOn DEF TargetsStored
<1>7. ASSUME NEW r \in Requests,
             BroadcastSweep(r) \/ RefuseSweep(r) \/ LookupEnactment(r)
               \/ CompleteMigration(r) \/ Stop(r) \/ BuildFails(r)
      PROVE  LineageShape' /\ InFlightAmendsCurrent' /\ TargetsStored'
  <2>1. UNCHANGED <<version, migration, sweep>>
    BY <1>7 DEF BroadcastSweep, RefuseSweep, LookupEnactment, CompleteMigration, Stop,
                BuildFails, dbVars
  <2>2. /\ request[r].step \notin {"idle", "create"} /\ (Goto(r, "mark") \/ Goto(r, "enact"))
        \/ Finish(r)
    BY <1>7 DEF BroadcastSweep, RefuseSweep, LookupEnactment, CompleteMigration, Stop, BuildFails
  <2>3. \A s \in Requests : MovesOn(s)
    BY <2>2, <1>t DEF Goto, Finish, Idle, MovesOn, TypeOK, Request
  <2>4. RowsStored'
    BY <2>1 DEF TargetsStored, RowsStored
  <2> QED
    BY <1>t, <1>u, <2>1, <2>3, <2>4, SlotsMoveOn DEF TargetsStored
<1>9. ASSUME NEW r \in Requests, NEW v \in Versions, CancelMigration(r, v)
      PROVE  LineageShape' /\ InFlightAmendsCurrent' /\ TargetsStored'
  <2>1. v # 0 /\ version[v] # "none" /\ request' = request
    BY <1>9 DEF CancelMigration, TargetsStored, RowsStored
  <2>2. \A u \in Versions :
          /\ version'[u] = IF u = v /\ version[v] = "pending" THEN "abandoned" ELSE version[u]
          /\ migration'[u] = IF u = v THEN "cancelled" ELSE migration[u]
          /\ u # v => sweep'[u] = sweep[u]
    BY <1>9, <1>t DEF CancelMigration, TypeOK
  <2>3. LineageShape'
    <3> PICK current \in Versions :
          \A u \in Versions :
            /\ version[u] = "active" <=> u = current
            /\ version[u] = "superseded" <=> u < current
            /\ u > current + 1 => version[u] = "none"
      BY DEF LineageShape
    <3>1. \A u \in Versions : /\ version'[u] = "active" <=> u = current
                              /\ version'[u] = "superseded" <=> u < current
                              /\ u > current + 1 => version'[u] = "none"
      BY <2>2
    <3> QED
      BY <3>1 DEF LineageShape
  <2>4. InFlightAmendsCurrent'
    <3> SUFFICES ASSUME NEW u \in Versions, migration'[u] = "proposed"
                 PROVE  u # 0 /\ version'[u] = "pending" /\ version'[u - 1] = "active"
      BY DEF InFlightAmendsCurrent
    <3>1. u # v /\ u # 0 /\ version[u] = "pending" /\ version[u - 1] = "active"
      BY <2>2 DEF InFlightAmendsCurrent
    <3> QED
      BY <3>1, <2>2, VersionArithmetic
  <2>5. \A u \in Versions : Kept(u)
    BY <2>2 DEF Kept
  <2>6. RowsStored'
    BY <2>1, <2>2 DEF TargetsStored, RowsStored
  <2>7. SlotsStored'
    BY <1>t, <2>1, <2>5, SlotsMoveOn DEF MovesOn, TargetsStored
  <2> QED
    BY <2>3, <2>4, <2>6, <2>7 DEF TargetsStored
<1>10. ASSUME NEW k \in Coins, Spend(k) \/ \E v \in Versions : Deposit(k, v)
       PROVE  LineageShape' /\ InFlightAmendsCurrent' /\ TargetsStored'
  <2>1. UNCHANGED <<version, migration, sweep, request>>
    BY <1>10 DEF Spend, Deposit, dbVars
  <2> QED
    BY <1>u, <2>1 DEF TargetsStored, RowsStored, SlotsStored
<1>11. CASE UNCHANGED vars
  <2>1. UNCHANGED <<version, migration, sweep, request>>
    BY <1>11 DEF vars, dbVars
  <2> QED
    BY <1>u, <2>1 DEF TargetsStored, RowsStored, SlotsStored
<1> QED
  BY <1>1, <1>2, <1>3, <1>4, <1>5, <1>6, <1>7, <1>9, <1>10, <1>11
     DEF Next, Receive, Advance, Start, Rewrite

\* Whatever the interleaving of requests and wherever they are abandoned, one
\* version is current, the ones before it are superseded, and a migration in
\* flight amends the current one.
THEOREM SuccessionHolds == Spec => [](LineageShape /\ InFlightAmendsCurrent /\ TargetsStored)
<1>1. SuccessionInv => LineageShape /\ InFlightAmendsCurrent /\ TargetsStored
  BY DEF SuccessionInv
<1> QED
  BY <1>1, InitSuccession, NextSuccession, TypeCorrect, PTL DEF Spec

\* A migration in flight amends the current version, however long ago its request
\* read that one as current (migrations.rs:96).
THEOREM InFlightIsOnCurrent == Spec => []InFlightAmendsCurrent
<1> QED
  BY SuccessionHolds, PTL

\* Every migration, every sweep and, past the insert, every request is of a version
\* that is stored, and a version about to be stored has a base that is or was
\* current (db.rs:1480).
THEOREM SlotsHaveTargets == Spec => []TargetsStored
<1> QED
  BY SuccessionHolds, PTL

-----------------------------------------------------------------------------

(***************************************************************************)
(* The consent behind every version flip.  FlipsEarned is inductive given  *)
(* the succession: a version being minted has no sweep yet because its row *)
(* did not exist, which RowsStored and SlotsStored say.                    *)
(***************************************************************************)
FlipInv == SuccessionInv /\ FlipsEarned

LEMMA NextChainInTodo ==
  ASSUME NEW todo \in SUBSET Chains, todo # {}
  PROVE  NextChain(todo) \in todo
  BY MigrationAssumption DEF NextChain

\* A sweep is inserted nowhere, what is extracted or sent stays so, and only
\* a sent one is marked.
Forward == \A v \in Versions, c \in Chains :
  /\ sweep'[v][c].status = "none" <=> sweep[v][c].status = "none"
  /\ sweep'[v][c].status = "broadcast" => sweep[v][c].status = "broadcast" \/ c \in sent[v]
  /\ sweep[v][c].extracted => sweep'[v][c].extracted
  /\ sweep'[v][c].extracted => sweep[v][c].status # "none"
  /\ c \in sent[v] => c \in sent'[v]

LEMMA SlotStaysEarned ==
  ASSUME TypeOK, NEW s \in Requests, SlotEarned(s), Forward,
         \/ request'[s] = request[s]
         \/ /\ request'[s].target = request[s].target /\ request'[s].todo = request[s].todo
            /\ \/ request[s].step = "update" /\ request'[s].step = "extract"
               \/ request[s].step = "mark" /\ request'[s].step = "lookup"
               \/ request[s].step = "lookup" /\ request'[s].step = "enact"
               \/ request[s].step = "enact" /\ request'[s].step = "complete"
  PROVE  SlotEarned(s)'
<1>1. request[s] \in Request
  BY DEF TypeOK
<1>2. request[s].target \in Versions /\ request[s].todo \subseteq Chains
  BY <1>1 DEF Request
<1>3. CASE request'[s] = request[s]
  BY <1>2, <1>3 DEF SlotEarned, Forward
<1>4. CASE request'[s] # request[s]
  BY <1>2, <1>4 DEF SlotEarned, Forward
<1> QED
  BY <1>3, <1>4

\* What the node has accepted stays extracted while it accepts nothing more.
LEMMA SentStaysExtracted ==
  ASSUME SentExtracted, Forward, UNCHANGED sent
  PROVE  SentExtracted'
  BY DEF SentExtracted, Forward

LEMMA IdleIsEarned ==
  ASSUME NEW s \in Requests, request'[s] = Idle
  PROVE  SlotEarned(s)'
  BY DEF SlotEarned, Idle

\* No request begins to mint.
LEMMA MinterStays ==
  ASSUME OneMinter,
         \A s \in Requests : Minting(s)' =>
           Minting(s) /\ request'[s].target = request[s].target
  PROVE  OneMinter'
  BY DEF OneMinter

LEMMA NextFlips == FlipInv /\ SuccessionInv' /\ [Next]_vars => FlipsEarned'
<1> SUFFICES ASSUME FlipInv, SuccessionInv', [Next]_vars
             PROVE  FlipsEarned'
  OBVIOUS
<1>t. /\ TypeOK /\ TypeOK' /\ RowsStored /\ SlotsStored
      /\ OneMinter /\ SentExtracted /\ \A r \in Requests : SlotEarned(r) /\ request[r] \in Request
  BY DEF FlipInv, SuccessionInv, TargetsStored, FlipsEarned, TypeOK
\* Steps that leave the sweeps alone.
<1>u. ASSUME UNCHANGED <<sweep, sent>>
      PROVE  Forward /\ SentExtracted'
  BY <1>u, <1>t DEF Forward, SentExtracted
<1>1. ASSUME NEW r \in Requests, NEW b \in Versions, RequestMigration(r, b)
      PROVE  FlipsEarned'
  <2>1. Forward /\ SentExtracted'
    BY <1>1, <1>u DEF RequestMigration, dbVars, chainVars
  <2>2. /\ request'[r].step = "create" /\ (DualChain \/ request'[r].todo # {})
        /\ \A s \in Requests \ {r} : request'[s] = request[s]
    BY <1>1, <1>t DEF RequestMigration, TypeOK
  <2>3. \A s \in Requests : SlotEarned(s)'
    <3>1. SlotEarned(r)'
      BY <2>2 DEF SlotEarned
    <3> QED
      BY <1>t, <2>1, <2>2, <3>1, SlotStaysEarned
  <2>4. OneMinter'
    BY <1>t, <2>2, MinterStays DEF Minting
  <2> QED
    BY <2>1, <2>3, <2>4 DEF FlipsEarned
<1>2. ASSUME NEW r \in Requests, CreatePending(r)
      PROVE  FlipsEarned'
  <2> DEFINE v == request[r].target
  <2>1. request[r].step = "create" /\ UNCHANGED sweep /\ Forward /\ SentExtracted'
    BY <1>2, <1>u DEF CreatePending, chainVars
  <2>2. CASE Finish(r)
    <3>1. request'[r] = Idle /\ \A s \in Requests \ {r} : request'[s] = request[s]
      BY <2>2, <1>t DEF Finish, TypeOK
    <3>2. \A s \in Requests : SlotEarned(s)'
      BY <1>t, <2>1, <3>1, SlotStaysEarned, IdleIsEarned
    <3>3. OneMinter'
      BY <1>t, <3>1, MinterStays DEF Minting, Idle
    <3> QED
      BY <2>1, <3>2, <3>3 DEF FlipsEarned
  <2>3. CASE ~Finish(r)
    <3>1. version[v] = "none" /\ v \in Versions
      BY <1>2, <1>t, <2>3 DEF CreatePending, Request
    <3>2. /\ request'[r] = [request[r] EXCEPT !.step =
                              IF request[r].todo = {} THEN "bump" ELSE "insert"]
          /\ \A s \in Requests \ {r} : request'[s] = request[s]
      BY <1>2, <1>t, <2>3 DEF CreatePending, Goto, TypeOK
    <3>3. /\ request'[r].target = v /\ request'[r].todo = request[r].todo
          /\ request'[r].step = IF request[r].todo = {} THEN "bump" ELSE "insert"
      BY <3>2, <1>t DEF Request
    <3>4. \A c \in Chains : sweep'[v][c].status = "none"
      BY <2>1, <3>1, <1>t DEF RowsStored
    <3>5. request[r].todo \subseteq Chains
      BY <1>t DEF Request
    <3>6. SlotEarned(r)'
      <4>1. DualChain \/ request[r].todo # {}
        BY <1>t, <2>1 DEF SlotEarned
      <4> QED
        BY <3>3, <3>4, <3>5, <4>1 DEF SlotEarned
    <3>7. \A s \in Requests : SlotEarned(s)'
      BY <1>t, <2>1, <3>2, <3>6, SlotStaysEarned
    <3>8. \A s \in Requests \ {r} : Minting(s)' => Minting(s) /\ request'[s].target # v
      BY <3>1, <3>2, <1>t DEF Minting, SlotsStored
    <3>9. OneMinter'
      <4> SUFFICES ASSUME NEW s \in Requests, NEW q \in Requests, s # q,
                          Minting(s)', Minting(q)'
                   PROVE  request'[s].target # request'[q].target
        BY DEF OneMinter
      <4>1. CASE s = r \/ q = r
        BY <3>3, <3>8, <4>1
      <4>2. CASE s # r /\ q # r
        <5>1. request'[s] = request[s] /\ request'[q] = request[q] /\ Minting(s) /\ Minting(q)
          BY <3>2, <3>8, <4>2
        <5> QED
          BY <5>1, <1>t DEF OneMinter
      <4> QED
        BY <4>1, <4>2
    <3> QED
      BY <2>1, <3>7, <3>9 DEF FlipsEarned
  <2> QED
    BY <2>2, <2>3
<1>3. ASSUME NEW r \in Requests, InsertSweep(r)
      PROVE  FlipsEarned'
  <2> DEFINE v == request[r].target
             c == NextChain(request[r].todo)
  <2>1. /\ request[r].step = "insert" /\ v \in Versions /\ request[r].todo \subseteq Chains
        /\ request[r].todo # {} /\ c \in request[r].todo
        /\ \A d \in request[r].todo : sweep[v][d].status = "none"
    <3>1. /\ request[r].step = "insert" /\ v \in Versions /\ request[r].todo \in SUBSET Chains
      BY <1>3, <1>t DEF InsertSweep, Request
    <3>2. /\ request[r].todo # {}
          /\ \A d \in request[r].todo : sweep[v][d].status = "none"
      BY <3>1, <1>t DEF SlotEarned
    <3> QED
      BY <3>1, <3>2, NextChainInTodo
  <2> PICK inputs : sweep' = [sweep EXCEPT ![v][c] =
                                [status |-> "open", extracted |-> FALSE, inputs |-> inputs]]
    BY <1>3 DEF InsertSweep
  <2>2. /\ sweep'[v][c].status = "open" /\ sweep'[v][c].extracted = FALSE
        /\ \A u \in Versions, d \in Chains :
             u # v \/ d # c => sweep'[u][d] = sweep[u][d]
        /\ sent' = sent
    BY <1>3, <2>1, <1>t DEF InsertSweep, TypeOK, chainVars
  <2>3. \A s \in Requests \ {r} : request'[s] = request[s] /\ SlotEarned(s)'
    <3> SUFFICES ASSUME NEW s \in Requests \ {r}
                 PROVE  request'[s] = request[s] /\ SlotEarned(s)'
      OBVIOUS
    <3>1. request'[s] = request[s]
      BY <1>3, <1>t DEF InsertSweep, Finish, TypeOK
    <3>2. request[s].target \in Versions /\ request[s].todo \subseteq Chains
      BY <1>t DEF Request
    <3>3. Minting(s) => request[s].target # v
      BY <2>1, <1>t DEF OneMinter, Minting
    <3>4. request[s].step \in {"update", "extract", "cancel", "send", "mark"}
            /\ request[s].target = v => c \notin request[s].todo
      BY <2>1, <3>2, <1>t DEF SlotEarned
    <3> QED
      BY <2>2, <3>1, <3>2, <3>3, <3>4, <1>t DEF SlotEarned, Minting
  <2>4. SlotEarned(r)' /\ (Minting(r)' => request'[r].target = v)
    <3>1. CASE Finish(r)
      <4>1. request'[r] = Idle
        BY <3>1, <1>t DEF Finish, TypeOK
      <4> QED
        BY <4>1, IdleIsEarned DEF Minting, Idle
    <3>2. CASE request[r].todo # {c} /\ request' = [request EXCEPT ![r].todo = @ \ {c}]
      <4>1. /\ request'[r].todo = request[r].todo \ {c} /\ request'[r].target = v
            /\ request'[r].step = "insert"
        BY <3>2, <2>1, <1>t DEF TypeOK, Request
      <4> QED
        BY <3>2, <4>1, <2>1, <2>2 DEF SlotEarned
    <3> QED
      BY <1>3, <3>1, <3>2 DEF InsertSweep
  <2>5. OneMinter'
    BY <1>t, <2>1, <2>3, <2>4, MinterStays DEF Minting
  <2>6. SentExtracted'
    <3>1. sweep[v][c].status = "none" /\ v \in Versions /\ c \in Chains
      BY <2>1
    <3>2. c \notin sent[v]
      BY <1>t, <3>1 DEF SentExtracted
    <3> HIDE DEF v, c
    <3> QED
      BY <1>t, <2>2, <3>1, <3>2 DEF SentExtracted
  <2> QED
    BY <2>3, <2>4, <2>5, <2>6 DEF FlipsEarned
<1>4. ASSUME NEW r \in Requests,
             EnactUnfunded(r) \/ RefuseSweep(r) \/ CompleteMigration(r) \/ Stop(r)
               \/ BuildFails(r) \/ LookupEnactment(r) \/ EnactBroadcast(r)
      PROVE  FlipsEarned'
  <2>1. Forward /\ SentExtracted'
    BY <1>4, <1>u DEF EnactUnfunded, RefuseSweep, CompleteMigration, Stop, BuildFails,
                      LookupEnactment, EnactBroadcast, dbVars, chainVars
  <2>2. \/ Finish(r)
        \/ request[r].step = "lookup" /\ Goto(r, "enact")
        \/ request[r].step = "enact" /\ Goto(r, "complete")
    BY <1>4 DEF EnactUnfunded, RefuseSweep, CompleteMigration, Stop, BuildFails,
                LookupEnactment, EnactBroadcast
  <2>3. /\ \A s \in Requests \ {r} : request'[s] = request[s]
        /\ \/ request'[r] = Idle
           \/ /\ request'[r].target = request[r].target /\ request'[r].todo = request[r].todo
              /\ \/ request[r].step = "lookup" /\ request'[r].step = "enact"
                 \/ request[r].step = "enact" /\ request'[r].step = "complete"
    BY <2>2, <1>t DEF Finish, Goto, TypeOK, Request
  <2>4. \A s \in Requests : SlotEarned(s)'
    BY <1>t, <2>1, <2>3, SlotStaysEarned, IdleIsEarned
  <2>5. \A s \in Requests : Minting(s)' => Minting(s) /\ request'[s].target = request[s].target
    BY <1>t, <2>3 DEF Minting, Idle
  <2> QED
    BY <1>t, <2>1, <2>4, <2>5, MinterStays DEF FlipsEarned
<1>5. ASSUME NEW r \in Requests, NEW v \in Versions, NEW c \in Chains, Start(r, v, c)
      PROVE  FlipsEarned'
  <2>1. /\ UNCHANGED <<sweep, sent>> /\ Forward /\ SentExtracted'
        /\ request'[r].step \in {"update", "cancel", "send"}
        /\ request'[r].target = v /\ request'[r].todo = {c}
        /\ \A s \in Requests \ {r} : request'[s] = request[s]
        /\ sweep[v][c].status # "none"
        /\ request'[r].step = "send" => sweep[v][c].extracted
    BY <1>5, <1>t, <1>u, WhatStarts DEF TypeOK
  <2>2. SlotEarned(r)'
    BY <2>1 DEF SlotEarned
  <2>3. \A s \in Requests : SlotEarned(s)'
    BY <1>t, <2>1, <2>2, SlotStaysEarned
  <2>4. OneMinter'
    BY <1>t, <2>1, MinterStays DEF Minting
  <2> QED
    BY <2>1, <2>3, <2>4 DEF FlipsEarned
<1>6. ASSUME NEW r \in Requests, Rewrite(r)
      PROVE  FlipsEarned'
  <2> DEFINE v == request[r].target
  <2>1. /\ UNCHANGED sent /\ request[r].step \in {"update", "extract", "cancel", "mark"}
        /\ \A s \in Requests \ {r} : request'[s] = request[s]
        /\ \/ request'[r].step = "idle"
           \/ /\ request[r].step = "update" /\ request'[r].step = "extract"
              /\ request'[r].target = v /\ request'[r].todo = request[r].todo
           \/ /\ request[r].step = "mark" /\ request'[r].step = "lookup"
              /\ request'[r].target = v /\ request'[r].todo = request[r].todo
    BY <1>6, <1>t, WhatRewrites
  <2>2. PICK status \in {"open", "finalized", "broadcast", "cancelled"} :
          /\ status = "broadcast" => request[r].step = "mark"
          /\ \A u \in Versions, d \in Chains : RowBecomes(r, status, u, d)
    BY <1>6, <1>t, WhatIsWritten
  <2>3. /\ v \in Versions /\ request[r].todo \subseteq Chains
        /\ \A d \in request[r].todo : sweep[v][d].status # "none"
        /\ request[r].step = "mark" => request[r].todo \subseteq sent[v]
    BY <2>1, <1>t DEF SlotEarned, Request
  <2>4. Forward
    <3> SUFFICES ASSUME NEW u \in Versions, NEW d \in Chains
                 PROVE  Forward!(u, d)
      BY DEF Forward
    <3>1. sweep[u][d].extracted => sweep[u][d].status # "none"
      BY <1>t DEF SentExtracted
    <3>2. CASE Working(r, u, d)
      BY <2>1, <2>2, <2>3, <3>2 DEF RowBecomes, Working
    <3>3. CASE ~Working(r, u, d)
      <4>1. sweep'[u][d] = sweep[u][d]
        BY <2>2, <3>3 DEF RowBecomes
      <4> QED
        BY <2>1, <3>1, <4>1
    <3> QED
      BY <3>2, <3>3
  <2>5. SentExtracted'
    BY <1>t, <2>1, <2>4, SentStaysExtracted
  <2>6. \A s \in Requests : SlotEarned(s)'
    <3>1. request'[r].step = "idle" => SlotEarned(r)'
      BY DEF SlotEarned
    <3>2. request'[r].step # "idle" => SlotEarned(r)'
      BY <1>t, <2>1, <2>4, SlotStaysEarned
    <3> QED
      BY <1>t, <2>1, <2>4, <3>1, <3>2, SlotStaysEarned
  <2>7. OneMinter'
    BY <1>t, <2>1, MinterStays DEF Minting
  <2> QED
    BY <2>5, <2>6, <2>7 DEF FlipsEarned
<1>7. ASSUME NEW r \in Requests, BroadcastSweep(r)
      PROVE  FlipsEarned'
  <2> DEFINE v == request[r].target
  <2>1. /\ request[r].step = "send" /\ UNCHANGED sweep
        /\ sent' = [sent EXCEPT ![v] = @ \cup request[r].todo]
        /\ request'[r].step = "mark" /\ request'[r].target = v
        /\ request'[r].todo = request[r].todo
        /\ \A s \in Requests \ {r} : request'[s] = request[s]
    BY <1>7, <1>t DEF BroadcastSweep, Goto, dbVars, TypeOK, Request
  <2>2. /\ v \in Versions /\ request[r].todo \subseteq Chains /\ request[r].todo # {}
        /\ \A d \in request[r].todo : sweep[v][d].extracted /\ sweep[v][d].status # "none"
    BY <2>1, <1>t DEF SlotEarned, Request
  <2>3. \A u \in Versions : sent'[u] = IF u = v THEN sent[v] \cup request[r].todo ELSE sent[u]
    BY <2>1, <1>t DEF TypeOK
  <2>4. Forward
    BY <1>t, <2>1, <2>3 DEF Forward, SentExtracted
  <2>5. SentExtracted'
    BY <1>t, <2>1, <2>2, <2>3 DEF SentExtracted
  <2>6. SlotEarned(r)'
    BY <2>1, <2>2, <2>3 DEF SlotEarned
  <2>7. \A s \in Requests : SlotEarned(s)'
    BY <1>t, <2>1, <2>4, <2>6, SlotStaysEarned
  <2>8. OneMinter'
    BY <1>t, <2>1, MinterStays DEF Minting
  <2> QED
    BY <2>5, <2>7, <2>8 DEF FlipsEarned
<1>8. ASSUME NEW r \in Requests, NEW v \in Versions, CancelMigration(r, v)
      PROVE  FlipsEarned'
  <2>1. UNCHANGED <<request, sent>>
    BY <1>8, <1>t, WhatCancels
  <2>2. \A u \in Versions, d \in Chains :
          \/ sweep'[u][d] = sweep[u][d]
          \/ /\ sweep[u][d].status # "none" /\ sweep'[u][d].status = "cancelled"
             /\ sweep'[u][d].extracted = sweep[u][d].extracted
    BY <1>8, <1>t, WhatCancels
  <2>3. Forward
    <3> SUFFICES ASSUME NEW u \in Versions, NEW d \in Chains
                 PROVE  Forward!(u, d)
      BY DEF Forward
    <3>1. sweep[u][d].extracted => sweep[u][d].status # "none"
      BY <1>t DEF SentExtracted
    <3> QED
      BY <2>1, <2>2, <3>1
  <2>4. SentExtracted'
    BY <1>t, <2>1, <2>3, SentStaysExtracted
  <2>5. \A s \in Requests : SlotEarned(s)'
    BY <1>t, <2>1, <2>3, SlotStaysEarned
  <2> QED
    BY <1>t, <2>1, <2>4, <2>5, MinterStays DEF FlipsEarned, Minting
<1>9. ASSUME UNCHANGED <<sweep, sent, request>>
      PROVE  FlipsEarned'
  BY <1>t, <1>u, <1>9, SlotStaysEarned, MinterStays DEF FlipsEarned, Minting
<1>10. ASSUME NEW k \in Coins, Spend(k) \/ \E v \in Versions : Deposit(k, v)
       PROVE  FlipsEarned'
  BY <1>9, <1>10 DEF Spend, Deposit, dbVars
<1>11. CASE UNCHANGED vars
  BY <1>9, <1>11 DEF vars, dbVars, chainVars
<1> QED
  BY <1>1, <1>2, <1>3, <1>4, <1>5, <1>6, <1>7, <1>8, <1>10, <1>11
     DEF Next, Receive, Advance, Start, Rewrite

\* No step makes a version current without a sent sweep, signed by the members
\* of the version before it, or nothing to sweep at all.
LEMMA StepHasConsent ==
  ASSUME FlipInv, [Next]_vars, NEW v \in Versions,
         version[v] # "active", version'[v] = "active"
  PROVE  \/ \E c \in sent[v] : sweep[v][c].extracted
         \/ DualChain /\ \A c \in Chains : sweep[v][c].status = "none"
<1>t. /\ TypeOK /\ SentExtracted /\ \A r \in Requests : SlotEarned(r) /\ request[r] \in Request
  BY DEF FlipInv, SuccessionInv, FlipsEarned, TypeOK
<1>1. PICK r \in Requests :
        request[r].step \in {"bump", "enact"} /\ EnactTransition(request[r].target)
  <2>1. ASSUME NEW r \in Requests, CreatePending(r)
        PROVE  FALSE
    BY <2>1, <1>t DEF CreatePending, TypeOK, Request
  <2>2. ASSUME NEW r \in Requests, NEW u \in Versions, CancelMigration(r, u)
        PROVE  FALSE
    BY <2>2, <1>t DEF CancelMigration, TypeOK
  <2>3. version' # version
    OBVIOUS
  <2>4. ASSUME NEW r \in Requests, Advance(r)
        PROVE  request[r].step \in {"bump", "enact"} /\ EnactTransition(request[r].target)
    BY <2>1, <2>3, <2>4
       DEF Advance, InsertSweep, BuildFails, EnactUnfunded, UpdatePsbt, FinalizeSweep,
           CancelSweep, BroadcastSweep, RefuseSweep, MarkBroadcast, LookupEnactment,
           EnactBroadcast, CompleteMigration, dbVars
  <2>5. ASSUME NEW r \in Requests, Receive(r) \/ Stop(r)
        PROVE  FALSE
    BY <2>2, <2>3, <2>5
       DEF Receive, RequestMigration, RequestSign, RequestCancelSweep, RequestBroadcast, Stop,
           dbVars
  <2>6. ASSUME NEW k \in Coins, Spend(k) \/ \E u \in Versions : Deposit(k, u)
        PROVE  FALSE
    BY <2>3, <2>6 DEF Spend, Deposit, dbVars
  <2>7. PICK r \in Requests : Advance(r)
    BY <2>3, <2>5, <2>6 DEF Next, vars, dbVars
  <2> QED
    BY <2>4, <2>7
<1>2. v = request[r].target
  BY <1>1, <1>t DEF EnactTransition, Activate, TypeOK, Request
<1>3. request[r].todo \subseteq Chains /\ v \in Versions
  BY <1>t DEF Request
<1>4. CASE request[r].step = "bump"
  BY <1>2, <1>4, <1>t DEF SlotEarned
<1>5. CASE request[r].step = "enact"
  <2>1. PICK c \in Chains : c \in sent[v]
    BY <1>2, <1>3, <1>5, <1>t DEF SlotEarned
  <2> QED
    BY <1>t, <2>1 DEF SentExtracted
<1> QED
  BY <1>1, <1>4, <1>5

\* With any number of requests, abandoned anywhere, a version becomes current
\* only by the consent of the members it takes over from.
THEOREM FlipsHaveConsent == Spec => []FlipsEarned /\ ActivatedByConsent
<1>1. Init => FlipInv
  <2>1. Init => FlipsEarned
    BY DEF Init, Idle, NoSweep, FlipsEarned, OneMinter, Minting, SentExtracted, SlotEarned
  <2> QED
    BY <2>1, InitSuccession DEF FlipInv
<1>2. FlipInv /\ TypeOK' /\ [Next]_vars => FlipInv'
  BY NextSuccession, NextFlips DEF FlipInv
<1>3. FlipInv => FlipsEarned
  BY DEF FlipInv
<1>4. FlipInv /\ [Next]_vars =>
        [\A v \in Versions :
           version[v] # "active" /\ version'[v] = "active" =>
             \/ \E c \in sent[v] : sweep[v][c].extracted
             \/ DualChain /\ \A c \in Chains : sweep[v][c].status = "none"]_vars
  BY StepHasConsent
<1> QED
  BY <1>1, <1>2, <1>3, <1>4, TypeCorrect, PTL DEF Spec, ActivatedByConsent

\* A handler about to flip a version has had a sweep to it accepted, or the count
\* of an empty dual-chain vault (proposals.rs:1051, migrations.rs:305), whatever
\* others write to the sweep's row meanwhile.
THEOREM FlipsAreEarned == Spec => []FlipsEarned
<1> QED
  BY FlipsHaveConsent, PTL

-----------------------------------------------------------------------------
(* Where a migration puts the coins, and what it records of that *)

(***************************************************************************)
(* A sweep is sent some awaits after it was read, and inserted some awaits *)
(* after its coins were looked at.  The one read is still the one stored,  *)
(* because only the minter writes a sweep's inputs, once; and what a       *)
(* minter has looked at no older sweep can move before it is inserted,     *)
(* because the sweeps of a base version mint one and the same version.     *)
(***************************************************************************)
SweepsSound == \A v \in Versions, c \in Chains :
  /\ sweep[v][c].status = "none" => sweep[v][c].inputs = {}
  /\ \A k \in sweep[v][c].inputs : ChainOf[k] = c

SendsStored == \A r \in Requests :
  request[r].step = "send" =>
    \E c \in Chains : /\ request[r].todo = {c}
                      /\ request[r].inputs = sweep[request[r].target][c].inputs

Minter(r) == \/ request[r].step = "create" /\ version[request[r].target] = "none"
             \/ request[r].step = "insert"
MintInputs == \A r \in Requests :
  Minter(r) => DualChain \/ \A k \in request[r].inputs :
                              coinAt[k] \in {request[r].target - 1, Spent}

FundsParts == SweepsSound /\ SendsStored /\ MintInputs /\ SweepsAndCoinsAgree
FundsInv   == FlipInv /\ FundsParts

\* Sweeps are finalized, cancelled or marked, but what they spend stays.
InputsKept == \A v \in Versions, c \in Chains :
  /\ sweep'[v][c].inputs = sweep[v][c].inputs
  /\ sweep'[v][c].status = "none" => sweep[v][c].status = "none"

\* A slot that starts neither a send nor a migration.
KeepsFunds(s) ==
  \/ request'[s] = request[s]
  \/ request'[s].step \notin {"create", "insert", "send"}
  \/ /\ request[s].step = "create" /\ version[request[s].target] = "none"
     /\ request'[s].step = "insert" /\ request'[s].target = request[s].target
     /\ request'[s].inputs = request[s].inputs

LEMMA FundsStay ==
  ASSUME TypeOK, FundsParts, InputsKept, UNCHANGED <<coinAt, sent>>,
         \A u \in Versions : version'[u] = "none" => version[u] = "none",
         \A s \in Requests : KeepsFunds(s)
  PROVE  FundsParts'
<1>1. SweepsSound'
  BY DEF FundsParts, SweepsSound, InputsKept
<1>2. \A s \in Requests : request[s].target \in Versions
  BY DEF TypeOK, Request
<1>3. SendsStored'
  <2> SUFFICES ASSUME NEW s \in Requests, request'[s].step = "send"
               PROVE  \E c \in Chains :
                        /\ request'[s].todo = {c}
                        /\ request'[s].inputs = sweep'[request'[s].target][c].inputs
    BY DEF SendsStored
  <2>1. request'[s] = request[s]
    BY DEF KeepsFunds
  <2>2. PICK c \in Chains : /\ request[s].todo = {c}
                            /\ request[s].inputs = sweep[request[s].target][c].inputs
    BY <2>1 DEF FundsParts, SendsStored
  <2>3. sweep'[request[s].target][c].inputs = sweep[request[s].target][c].inputs
    BY <1>2 DEF InputsKept
  <2> QED
    BY <2>1, <2>2, <2>3
<1>4. MintInputs'
  <2> SUFFICES ASSUME NEW s \in Requests, Minter(s)', ~DualChain, NEW k \in request'[s].inputs
               PROVE  coinAt[k] \in {request'[s].target - 1, Spent}
    BY DEF MintInputs
  <2>1. /\ Minter(s)
        /\ request'[s].target = request[s].target /\ request'[s].inputs = request[s].inputs
    BY <1>2 DEF KeepsFunds, Minter
  <2> QED
    BY <2>1 DEF FundsParts, MintInputs
<1>5. SweepsAndCoinsAgree'
  BY DEF FundsParts, SweepsAndCoinsAgree, InputsKept
<1> QED
  BY <1>1, <1>3, <1>4, <1>5 DEF FundsParts

\* What is drained is on the chain of the sweep that drains it.
LEMMA DrainIsOnChain ==
  ASSUME TypeOK, NEW r \in Requests, NEW v \in Versions, NEW c \in Chains
  PROVE  LET inputs == IF DualChain THEN Held(v, c) ELSE request[r].inputs
         IN  \A k \in inputs : ChainOf[k] = c
<1>1. request[r].inputs \subseteq Coins
  BY DEF TypeOK, Request
<1>2. DualChain \/ Chains = {c}
  BY MigrationAssumption DEF DualChain
<1>3. \A k \in Coins : ChainOf[k] \in Chains
  BY MigrationAssumption
<1> QED
  BY <1>1, <1>2, <1>3 DEF Held

\* A sweep is inserted where there was none, so the node has not accepted it,
\* no send has read it, and its coins are where its request saw them, or spent.
LEMMA InsertFunds ==
  ASSUME FundsInv, TypeOK', NEW r \in Requests, InsertSweep(r)
  PROVE  FundsParts'
<1> DEFINE v == request[r].target
           c == NextChain(request[r].todo)
           inputs == IF DualChain THEN Held(v - 1, c) ELSE request[r].inputs
<1>t. /\ TypeOK /\ SweepsSound /\ SendsStored /\ MintInputs /\ SweepsAndCoinsAgree /\ SlotsStored
      /\ SentExtracted /\ \A s \in Requests : SlotEarned(s) /\ request[s] \in Request
  BY DEF FundsInv, FundsParts, FlipInv, SuccessionInv, TargetsStored, FlipsEarned, TypeOK
<1>1. /\ request[r].step = "insert" /\ v \in Versions \ {0} /\ v - 1 \in Versions
      /\ request[r].todo \in SUBSET Chains /\ request[r].todo # {}
      /\ \A d \in request[r].todo : sweep[v][d].status = "none"
      /\ version' = version /\ coinAt' = coinAt /\ sent' = sent
  BY <1>t, VersionArithmetic DEF InsertSweep, Request, SlotEarned, SlotsStored, chainVars
<1>2. c \in request[r].todo /\ c \in Chains
  BY <1>1, NextChainInTodo
<1>3. /\ \A s \in Requests \ {r} : request'[s] = request[s]
      /\ \/ request'[r].step = "idle"
         \/ /\ request'[r].step = "insert" /\ request'[r].target = v
            /\ request'[r].inputs = request[r].inputs
  <2>1. CASE Finish(r)
    BY <1>t, <2>1 DEF Finish, Idle, TypeOK
  <2>2. CASE request' = [request EXCEPT ![r].todo = @ \ {c}]
    BY <1>t, <1>1, <2>2 DEF TypeOK, Request
  <2> QED
    BY <2>1, <2>2 DEF InsertSweep
<1>4. sweep' = [sweep EXCEPT ![v][c] =
                  [status |-> "open", extracted |-> FALSE, inputs |-> inputs]]
  BY DEF InsertSweep
<1>5. \A k \in inputs : ChainOf[k] = c
  BY <1>t, <1>1, <1>2, DrainIsOnChain
<1>6. \A k \in inputs : coinAt[k] \in {v - 1, Spent}
  BY <1>t, <1>1 DEF MintInputs, Minter, Held
<1>7. sweep[v][c].status = "none" /\ sweep[v][c].inputs = {} /\ c \notin sent[v]
  BY <1>t, <1>1, <1>2 DEF SweepsSound, SentExtracted
<1> HIDE DEF v, c, inputs
<1>8. /\ sweep'[v][c].status = "open" /\ sweep'[v][c].inputs = inputs
      /\ \A u \in Versions, d \in Chains : u # v \/ d # c => sweep'[u][d] = sweep[u][d]
  BY <1>t, <1>1, <1>2, <1>4 DEF TypeOK
<1>9. SweepsSound'
  BY <1>t, <1>5, <1>8 DEF SweepsSound
<1>10. SendsStored'
  <2> SUFFICES ASSUME NEW s \in Requests, request'[s].step = "send"
               PROVE  \E d \in Chains :
                        /\ request'[s].todo = {d}
                        /\ request'[s].inputs = sweep'[request'[s].target][d].inputs
    BY DEF SendsStored
  <2>1. request'[s] = request[s] /\ request[s].target \in Versions
    BY <1>3, <1>t DEF Request
  <2>2. PICK d \in Chains : /\ request[s].todo = {d}
                            /\ request[s].inputs = sweep[request[s].target][d].inputs
    BY <1>t, <2>1 DEF SendsStored
  <2>3. sweep[request[s].target][d].status # "none"
    BY <1>t, <2>1, <2>2 DEF SlotEarned
  <2>4. sweep'[request[s].target][d] = sweep[request[s].target][d]
    BY <1>7, <1>8, <2>1, <2>3
  <2> QED
    BY <2>1, <2>2, <2>4
<1>11. MintInputs'
  <2> SUFFICES ASSUME NEW s \in Requests, Minter(s)', ~DualChain, NEW k \in request'[s].inputs
               PROVE  coinAt[k] \in {request'[s].target - 1, Spent}
    BY <1>1 DEF MintInputs
  <2>1. /\ Minter(s)
        /\ request'[s].target = request[s].target /\ request'[s].inputs = request[s].inputs
    BY <1>1, <1>3 DEF Minter, v
  <2> QED
    BY <1>t, <2>1 DEF MintInputs
<1>12. SweepsAndCoinsAgree'
  <2> SUFFICES ASSUME NEW u \in Versions \ {0}, NEW d \in Chains, NEW k \in sweep'[u][d].inputs,
                      coinAt[k] # Spent
               PROVE  coinAt[k] \in (IF d \in sent[u] THEN u..LastVersion ELSE {u - 1})
    BY <1>1 DEF SweepsAndCoinsAgree
  <2>1. CASE u = v /\ d = c
    BY <1>6, <1>7, <1>8, <2>1
  <2>2. CASE u # v \/ d # c
    BY <1>t, <1>8, <2>2 DEF SweepsAndCoinsAgree
  <2> QED
    BY <2>1, <2>2
<1> QED
  BY <1>9, <1>10, <1>11, <1>12 DEF FundsParts

\* The node takes a sweep as a whole, from the base version or, once more,
\* where the same sweep has put its coins.  Another sweep that shares a coin
\* with it mints another version, and has been accepted before if it mints an
\* earlier one.
LEMMA BroadcastFunds ==
  ASSUME FundsInv, NEW r \in Requests, BroadcastSweep(r)
  PROVE  FundsParts'
<1> DEFINE v == request[r].target
<1>t. /\ TypeOK /\ SweepsSound /\ SendsStored /\ MintInputs /\ SweepsAndCoinsAgree /\ SlotsStored
      /\ \A s \in Requests : SlotEarned(s) /\ request[s] \in Request
  BY DEF FundsInv, FundsParts, FlipInv, SuccessionInv, TargetsStored, FlipsEarned, TypeOK
<1>1. /\ request[r].step = "send" /\ v \in Versions \ {0} /\ version[v] # "none"
      /\ request[r].inputs \subseteq Coins
      /\ version' = version /\ sweep' = sweep
      /\ \/ \A k \in request[r].inputs : coinAt[k] = v - 1
         \/ \A k \in request[r].inputs : coinAt[k] = v
      /\ \A k \in Coins : coinAt'[k] = IF k \in request[r].inputs THEN v ELSE coinAt[k]
      /\ \A u \in Versions : sent'[u] = IF u = v THEN sent[v] \cup request[r].todo ELSE sent[u]
  BY <1>t DEF BroadcastSweep, TypeOK, Request, SlotsStored, dbVars
<1>2. PICK c \in Chains : request[r].todo = {c} /\ request[r].inputs = sweep[v][c].inputs
  BY <1>t, <1>1 DEF SendsStored
<1>3. request'[r].step = "mark" /\ \A s \in Requests \ {r} : request'[s] = request[s]
  BY <1>t DEF BroadcastSweep, Goto, TypeOK, Request
<1>4. sweep[v][c].status # "none"
  BY <1>t, <1>1, <1>2 DEF SlotEarned
<1> HIDE DEF v
<1>5. SweepsSound'
  BY <1>t, <1>1 DEF SweepsSound
<1>6. SendsStored'
  BY <1>t, <1>1, <1>3 DEF SendsStored
<1>7. MintInputs'
  <2> SUFFICES ASSUME NEW s \in Requests, Minter(s)', ~DualChain, NEW k \in request'[s].inputs
               PROVE  coinAt'[k] \in {request'[s].target - 1, Spent}
    BY DEF MintInputs
  <2> DEFINE u == request[s].target
  <2>1. /\ request'[s] = request[s] /\ Minter(s) /\ u \in Versions /\ k \in Coins
        /\ request[s].todo \subseteq Chains
    BY <1>1, <1>3, <1>t DEF Minter, Request
  <2>2. coinAt[k] \in {u - 1, Spent}
    BY <1>t, <2>1 DEF MintInputs
  <2>3. u # v
    <3>1. CASE request[s].step = "create"
      BY <1>1, <2>1, <3>1 DEF Minter
    <3>2. CASE request[s].step = "insert"
      <4>1. PICK d \in request[s].todo : sweep[u][d].status = "none"
        BY <1>t, <3>2 DEF SlotEarned
      <4>2. d = c
        BY <2>1, <4>1, MigrationAssumption DEF DualChain
      <4> QED
        BY <1>4, <4>1, <4>2
    <3> QED
      BY <2>1, <3>1, <3>2 DEF Minter
  <2>4. CASE k \in request[r].inputs
    <3>1. coinAt[k] \in {v - 1, v} /\ v \in Int /\ u \in Int /\ coinAt[k] # Spent
      BY <1>1, <2>1, <2>4, VersionArithmetic, MigrationAssumption DEF Versions
    <3>2. v = u - 1
      <4> HIDE DEF u
      <4> QED
        BY <2>2, <2>3, <3>1
    <3> QED
      BY <1>1, <2>1, <2>4, <3>2
  <2>5. CASE k \notin request[r].inputs
    BY <1>1, <2>1, <2>2, <2>5
  <2> QED
    BY <2>4, <2>5
<1>8. SweepsAndCoinsAgree'
  <2> SUFFICES ASSUME NEW u \in Versions \ {0}, NEW d \in Chains, NEW k \in sweep[u][d].inputs,
                      coinAt'[k] # Spent
               PROVE  coinAt'[k] \in (IF d \in sent'[u] THEN u..LastVersion ELSE {u - 1})
    BY <1>1 DEF SweepsAndCoinsAgree
  <2>1. /\ k \in Coins /\ u \in Int /\ v \in Int /\ v \in 0..LastVersion /\ LastVersion \in Int
        /\ d \in sent[u] => d \in sent'[u]
        /\ coinAt[k] # Spent =>
             coinAt[k] \in (IF d \in sent[u] THEN u..LastVersion ELSE {u - 1})
    <3>1. k \in Coins
      BY <1>t DEF TypeOK, Sweep
    <3>2. u \in Int /\ v \in Int /\ v \in 0..LastVersion /\ LastVersion \in Int
      BY <1>1, MigrationAssumption DEF Versions
    <3>3. coinAt[k] # Spent =>
            coinAt[k] \in (IF d \in sent[u] THEN u..LastVersion ELSE {u - 1})
      BY <1>t DEF SweepsAndCoinsAgree
    <3>4. d \in sent[u] => d \in sent'[u]
      BY <1>1
    <3> QED
      BY <3>1, <3>2, <3>3, <3>4
  <2>2. CASE k \in request[r].inputs
    <3>1. d = c /\ coinAt'[k] = v /\ coinAt[k] \in {v - 1, v} /\ coinAt[k] # Spent
      BY <1>t, <1>1, <1>2, <2>1, <2>2, MigrationAssumption DEF SweepsSound, Versions
    <3>2. CASE u = v
      <4>1. d \in sent'[u]
        BY <1>1, <1>2, <3>1, <3>2
      <4> QED
        BY <2>1, <3>1, <3>2, <4>1
    <3>3. CASE u # v /\ d \in sent[u]
      BY <2>1, <3>1, <3>3
    <3>4. CASE u # v /\ d \notin sent[u]
      <4>1. coinAt[k] = u - 1 /\ d \notin sent'[u]
        BY <1>1, <2>1, <3>1, <3>4
      <4>2. v = u - 1
        BY <2>1, <3>1, <3>4, <4>1
      <4> QED
        BY <3>1, <4>1, <4>2
    <3> QED
      BY <3>2, <3>3, <3>4
  <2>3. CASE k \notin request[r].inputs
    <3>1. coinAt'[k] = coinAt[k] /\ ~(u = v /\ d = c)
      BY <1>1, <1>2, <2>1, <2>3
    <3>2. d \in sent'[u] <=> d \in sent[u]
      BY <1>1, <1>2, <3>1
    <3> QED
      BY <2>1, <3>1, <3>2
  <2> QED
    BY <2>2, <2>3
<1> QED
  BY <1>5, <1>6, <1>7, <1>8 DEF FundsParts

LEMMA NextFunds ==
  ASSUME FundsInv, TypeOK', [Next]_vars
  PROVE  FundsParts'
<1>t. /\ TypeOK /\ FundsParts /\ SuccessionInv
      /\ SlotsStored /\ \A s \in Requests : request[s] \in Request
  BY DEF FundsInv, FlipInv, SuccessionInv, TargetsStored, TypeOK
\* Steps that leave the sweeps alone, and slots that leave their send or mint.
<1>s. UNCHANGED sweep => InputsKept
  BY DEF InputsKept
<1>k. ASSUME NEW r \in Requests,
             Finish(r) \/ \E step \in {"bump", "enact", "complete"} : Goto(r, step)
      PROVE  \A s \in Requests : KeepsFunds(s)
  BY <1>k, <1>t DEF Finish, Goto, Idle, KeepsFunds, TypeOK, Request
<1>1. ASSUME NEW r \in Requests, NEW b \in Versions, RequestMigration(r, b)
      PROVE  FundsParts'
  <2>1. UNCHANGED <<sweep, version, coinAt, sent>>
    BY <1>1 DEF RequestMigration, dbVars, chainVars
  <2>2. /\ request'[r].step = "create" /\ request'[r].target = b + 1
        /\ DualChain \/ request'[r].inputs = {k \in Coins : coinAt[k] = b}
        /\ \A s \in Requests \ {r} : request'[s] = request[s]
    BY <1>1, <1>t DEF RequestMigration, TypeOK
  <2>3. SweepsSound' /\ SweepsAndCoinsAgree'
    BY <1>t, <2>1 DEF FundsParts, SweepsSound, SweepsAndCoinsAgree
  <2>5. SendsStored'
    BY <1>t, <2>1, <2>2 DEF FundsParts, SendsStored
  <2>4. MintInputs'
    <3> SUFFICES ASSUME NEW s \in Requests, Minter(s)', ~DualChain, NEW k \in request'[s].inputs
                 PROVE  coinAt[k] \in {request'[s].target - 1, Spent}
      BY <2>1 DEF MintInputs
    <3>1. CASE s = r
      <4>1. k \in {j \in Coins : coinAt[j] = b}
        BY <2>2, <3>1
      <4>2. b \in Int
        BY VersionArithmetic
      <4> QED
        BY <2>2, <3>1, <4>1, <4>2
    <3>2. CASE s # r
      BY <1>t, <2>1, <2>2, <3>2 DEF FundsParts, MintInputs, Minter
    <3> QED
      BY <3>1, <3>2
  <2> QED
    BY <2>3, <2>4, <2>5 DEF FundsParts
<1>2. ASSUME NEW r \in Requests, CreatePending(r)
      PROVE  FundsParts'
  <2> DEFINE v == request[r].target
  <2>1. UNCHANGED <<sweep, coinAt, sent>> /\ request[r].step = "create" /\ v \in Versions
    BY <1>2, <1>t DEF CreatePending, chainVars, Request
  <2>2. CASE UNCHANGED version /\ Finish(r)
    BY <1>t, <1>s, <1>k, <2>1, <2>2, FundsStay
  <2>3. CASE /\ version[v] = "none" /\ version' = [version EXCEPT ![v] = "pending"]
             /\ Goto(r, IF request[r].todo = {} THEN "bump" ELSE "insert")
    <3>1. \A u \in Versions : version'[u] = "none" => version[u] = "none"
      BY <1>t, <2>1, <2>3 DEF TypeOK
    <3>2. \A s \in Requests : KeepsFunds(s)
      BY <1>t, <2>1, <2>3 DEF Goto, KeepsFunds, TypeOK, Request
    <3> QED
      BY <1>t, <1>s, <2>1, <3>1, <3>2, FundsStay
  <2> QED
    BY <1>2, <2>2, <2>3 DEF CreatePending
<1>3. ASSUME NEW r \in Requests, InsertSweep(r)
      PROVE  FundsParts'
  BY <1>3, InsertFunds
<1>4. ASSUME NEW r \in Requests, EnactUnfunded(r) \/ EnactBroadcast(r)
      PROVE  FundsParts'
  <2> PICK v \in Versions : v = request[r].target
    BY <1>t DEF Request
  <2>1. /\ request[r].step \in {"bump", "enact"} /\ EnactTransition(v)
        /\ UNCHANGED <<sweep, coinAt, sent>>
        /\ Goto(r, "complete") \/ Finish(r)
    BY <1>4 DEF EnactUnfunded, EnactBroadcast, chainVars
  <2>2. \A u \in Versions : version'[u] = "none" => version[u] = "none"
    BY <1>t, <2>1 DEF EnactTransition, Activate, TypeOK
  <2>3. \A s \in Requests : KeepsFunds(s)
    BY <1>k, <2>1
  <2> QED
    BY <1>t, <1>s, <2>1, <2>2, <2>3, FundsStay
<1>5. ASSUME NEW r \in Requests, NEW v \in Versions, NEW c \in Chains, Start(r, v, c)
      PROVE  FundsParts'
  <2>1. /\ UNCHANGED <<sweep, version, coinAt, sent>>
        /\ request'[r].step \in {"update", "cancel", "send"} /\ request'[r].target = v
        /\ request'[r].todo = {c} /\ request'[r].inputs = sweep[v][c].inputs
        /\ \A s \in Requests \ {r} : request'[s] = request[s]
    BY <1>5, <1>t, WhatStarts DEF TypeOK
  <2>2. SendsStored'
    BY <1>t, <2>1 DEF FundsParts, SendsStored
  <2>3. SweepsSound' /\ MintInputs' /\ SweepsAndCoinsAgree'
    BY <1>t, <2>1 DEF FundsParts, SweepsSound, MintInputs, Minter, SweepsAndCoinsAgree
  <2> QED
    BY <2>2, <2>3 DEF FundsParts
<1>6. ASSUME NEW r \in Requests, Rewrite(r)
      PROVE  FundsParts'
  <2>1. UNCHANGED <<version, coinAt, sent>> /\ \A s \in Requests : KeepsFunds(s)
    BY <1>6, <1>t, WhatRewrites DEF KeepsFunds
  <2>2. InputsKept
    <3>1. PICK status \in {"open", "finalized", "broadcast", "cancelled"} :
            \A v \in Versions, c \in Chains : RowBecomes(r, status, v, c)
      BY <1>6, <1>t, WhatIsWritten
    <3> QED
      BY <3>1 DEF InputsKept, RowBecomes
  <2> QED
    BY <1>t, <2>1, <2>2, FundsStay
<1>7. ASSUME NEW r \in Requests, BroadcastSweep(r)
      PROVE  FundsParts'
  BY <1>7, BroadcastFunds
<1>8. ASSUME NEW r \in Requests,
             \/ RefuseSweep(r) \/ LookupEnactment(r) \/ CompleteMigration(r)
             \/ Stop(r) \/ BuildFails(r)
      PROVE  FundsParts'
  <2>1. UNCHANGED <<sweep, version, coinAt, sent>> /\ (Finish(r) \/ Goto(r, "enact"))
    BY <1>8 DEF RefuseSweep, LookupEnactment, CompleteMigration, Stop, BuildFails,
                dbVars, chainVars
  <2>2. \A s \in Requests : KeepsFunds(s)
    BY <1>k, <2>1
  <2> QED
    BY <1>t, <1>s, <2>1, <2>2, FundsStay
<1>9. ASSUME NEW r \in Requests, NEW v \in Versions, CancelMigration(r, v)
      PROVE  FundsParts'
  <2>1. UNCHANGED <<request, coinAt, sent>> /\ InputsKept
    BY <1>9, <1>t, WhatCancels DEF InputsKept
  <2>2. \A u \in Versions : version'[u] = "none" => version[u] = "none"
    BY <1>9, <1>t DEF CancelMigration, TypeOK
  <2> QED
    BY <1>t, <2>1, <2>2, FundsStay DEF KeepsFunds
\* A coin that is spent or deposited is in no sweep that still counts on it.
<1>10. ASSUME NEW k \in Coins, Spend(k) \/ \E v \in Versions : Deposit(k, v)
       PROVE  FundsParts'
  <2>1. UNCHANGED <<sweep, request, version, sent>>
    BY <1>10 DEF Spend, Deposit, dbVars
  <2>2. \A j \in Coins : coinAt'[j] = coinAt[j] \/ coinAt'[j] = Spent \/ coinAt[j] = Unseen
    BY <1>10, <1>t DEF Spend, Deposit, TypeOK
  <2>3. \A r \in Requests : request[r].inputs \subseteq Coins /\ request[r].target \in Versions
    BY <1>t DEF Request
  <2>4. \A v \in Versions, c \in Chains : sweep[v][c].inputs \subseteq Coins
    BY <1>t DEF TypeOK, Sweep
  <2>5. SweepsSound' /\ SendsStored'
    BY <1>t, <2>1 DEF FundsParts, SweepsSound, SendsStored
  <2>6. SweepsAndCoinsAgree'
    <3> SUFFICES ASSUME NEW v \in Versions \ {0}, NEW c \in Chains, NEW j \in sweep[v][c].inputs,
                        coinAt'[j] # Spent
                 PROVE  coinAt'[j] \in (IF c \in sent[v] THEN v..LastVersion ELSE {v - 1})
      BY <2>1 DEF SweepsAndCoinsAgree
    <3>1. coinAt[j] # Spent => coinAt[j] \in (IF c \in sent[v] THEN v..LastVersion ELSE {v - 1})
      BY <1>t DEF FundsParts, SweepsAndCoinsAgree
    <3>2. coinAt[j] # Unseen
      <4>1. /\ v - 1 \in Nat /\ v..LastVersion \subseteq Nat
            /\ Unseen \notin Nat /\ Unseen # Spent
        BY MigrationAssumption DEF Versions
      <4> QED
        BY <3>1, <4>1
    <3> QED
      BY <2>2, <2>4, <3>1, <3>2
  <2>7. MintInputs'
    <3> SUFFICES ASSUME NEW r \in Requests, Minter(r), ~DualChain, NEW j \in request[r].inputs
                 PROVE  coinAt'[j] \in {request[r].target - 1, Spent}
      BY <2>1 DEF MintInputs, Minter
    <3>1. coinAt[j] \in {request[r].target - 1, Spent}
      BY <1>t DEF FundsParts, MintInputs
    <3>2. request[r].target # 0
      BY <1>t DEF SlotsStored, Minter
    <3>3. coinAt[j] # Unseen
      <4>1. request[r].target - 1 \in Nat
        BY <2>3, <3>2, MigrationAssumption DEF Versions
      <4> QED
        BY <3>1, <4>1, MigrationAssumption
    <3> QED
      BY <2>2, <2>3, <3>1, <3>3
  <2> QED
    BY <2>5, <2>6, <2>7 DEF FundsParts
<1>11. CASE UNCHANGED vars
  BY <1>11, <1>t, <1>s, FundsStay DEF vars, dbVars, chainVars, KeepsFunds
<1> QED
  BY <1>1, <1>2, <1>3, <1>4, <1>5, <1>6, <1>7, <1>8, <1>9, <1>10, <1>11
     DEF Next, Receive, Advance, Start, Rewrite

LEMMA AlwaysFunds == Spec => []FundsInv
<1>1. Init => FundsInv
  <2> SUFFICES ASSUME Init
               PROVE  FundsInv
    OBVIOUS
  <2>1. FlipInv
    BY InitSuccession
       DEF Init, Idle, NoSweep, FlipInv, FlipsEarned, OneMinter, Minting, SentExtracted, SlotEarned
  <2> QED
    BY <2>1 DEF Init, Idle, NoSweep, FundsInv, FundsParts, SweepsSound, SendsStored, MintInputs,
                Minter, SweepsAndCoinsAgree
<1>2. FundsInv /\ TypeOK' /\ [Next]_vars => FundsInv'
  <2>1. FlipInv /\ TypeOK' /\ [Next]_vars => FlipInv'
    BY NextSuccession, NextFlips DEF FlipInv
  <2> QED
    BY <2>1, NextFunds DEF FundsInv
<1> QED
  BY <1>1, <1>2, TypeCorrect, PTL DEF Spec

\* A sweep and the coins it was built from go together whatever the deposits:
\* until the node accepts it they are in the base version's wallet or spent,
\* and once it has, none comes back to that version or an earlier one.
THEOREM SweptCoinsMove == Spec => []SweepsAndCoinsAgree
<1>1. FundsInv => SweepsAndCoinsAgree
  BY DEF FundsInv, FundsParts
<1> QED
  BY <1>1, AlwaysFunds, PTL

-----------------------------------------------------------------------------
(***************************************************************************)
(* One request at a time, none abandoned.  A cancellation then never finds *)
(* a sweep on its way: whoever sent it has flipped the version and has     *)
(* recorded the sweep before the next request is looked at.  And what a    *)
(* request goes on to write of a sweep's row is what it has read.          *)
(***************************************************************************)
OneAtATime ==
  /\ \A r, s \in Requests : r = s
  /\ ~MayStop

Current(v) == version[v] \in {"active", "superseded"}

\* Some request is at one of these steps of the migration that mints v.
At(steps, v) == \E r \in Requests : request[r].step \in steps /\ request[r].target = v

PendingInFlight == \A v \in Versions : version[v] = "pending" => migration[v] = "proposed"

AbandonedUnsent == \A v \in Versions : version[v] = "abandoned" =>
  sent[v] = {} /\ \A c \in Chains : sweep[v][c].status \in {"none", "cancelled"}

SentEnacted == \A v \in Versions : sent[v] # {} =>
  \/ Current(v)
  \/ version[v] = "pending" /\ At({"mark", "lookup", "enact"}, v)

SentRecorded == \A v \in Versions :
  Current(v) /\ (\E c \in Chains : sweep[v][c].status # "none") =>
    sweptVia[v - 1] # {} \/ At({"complete"}, v)

Writing == {"update", "extract", "cancel", "send", "mark"}
SlotInTime(r) ==
  LET v == request[r].target
  IN  /\ request[r].step \in {"insert", "bump"} => version[v] = "pending"
      /\ request[r].step \in Writing =>
           \A c \in request[r].todo : sweep[v][c].status \in {"open", "finalized"}
      /\ request[r].step = "enact" => migration[v] = "proposed"

SerialParts ==
  /\ PendingInFlight
  /\ AbandonedUnsent
  /\ SentEnacted
  /\ SentRecorded
  /\ \A r \in Requests : SlotInTime(r)

SerialInv == FundsInv /\ SerialParts

\* With one slot, only its request can be at a step.
LEMMA AtSlot ==
  ASSUME OneAtATime, NEW r \in Requests, NEW steps, NEW v
  PROVE  /\ At(steps, v) <=> request[r].step \in steps /\ request[r].target = v
         /\ At(steps, v)' <=> request'[r].step \in steps /\ request'[r].target = v
BY DEF OneAtATime, At

\* What the proofs below use of the invariants, for the one slot in use.
LEMMA InTime ==
  ASSUME OneAtATime, SerialInv, NEW r \in Requests
  PROVE  /\ TypeOK /\ SerialParts /\ LineageShape /\ InFlightAmendsCurrent
         /\ request[r] \in Request /\ request[r].target \in Versions
         /\ request[r].todo \subseteq Chains
         /\ SlotInTime(r) /\ SlotEarned(r) /\ SentExtracted
         /\ request[r].step \notin {"idle", "create"} =>
              request[r].target # 0 /\ version[request[r].target] # "none"
BY DEF SerialInv, SerialParts, FundsInv, FlipInv, SuccessionInv, TargetsStored, SlotsStored,
       FlipsEarned, TypeOK, Request

\* Only slot r can change, so its slot is the only one to look at.
LEMMA SlotsInTime ==
  ASSUME OneAtATime, NEW r \in Requests, SlotInTime(r)'
  PROVE  (\A s \in Requests : SlotInTime(s))'
BY DEF OneAtATime

\* The version that is being minted is the next one: its flip goes through.
LEMMA FlipInTime ==
  ASSUME TypeOK, LineageShape, InFlightAmendsCurrent, PendingInFlight,
         NEW v \in Versions, version[v] = "pending", EnactTransition(v)
  PROVE  /\ CanActivate(v) /\ v - 1 \in Versions /\ version[v - 1] = "active"
         /\ \A u \in Versions :
              /\ version'[u] = IF u = v THEN "active"
                               ELSE IF u = v - 1 THEN "superseded" ELSE version[u]
              /\ migration'[u] = IF u = v THEN "enacted" ELSE migration[u]
<1>1. v # 0 /\ version[v - 1] = "active"
  BY DEF PendingInFlight, InFlightAmendsCurrent
<1>2. v - 1 \in Versions /\ v - 1 # v
  BY <1>1, VersionArithmetic
<1>3. CanActivate(v)
  BY <1>1, <1>2 DEF LineageShape, CanActivate
<1>4. /\ version' = [version EXCEPT ![v - 1] = "superseded", ![v] = "active"]
      /\ migration' = [migration EXCEPT ![v] = "enacted"]
  BY <1>3 DEF EnactTransition, Activate
<1>5. \A u \in Versions :
        /\ version'[u] = IF u = v THEN "active"
                         ELSE IF u = v - 1 THEN "superseded" ELSE version[u]
        /\ migration'[u] = IF u = v THEN "enacted" ELSE migration[u]
  BY <1>2, <1>4 DEF TypeOK
<1> QED
  BY <1>1, <1>2, <1>3, <1>5

\* A request that starts a migration, or goes away before it has sent anything.
LEMMA QuietInTime ==
  ASSUME OneAtATime, SerialInv, NEW r \in Requests,
         UNCHANGED <<version, migration, sweep, sweptVia, sent>>,
         request[r].step \in {"idle", "create", "insert", "send"},
         request'[r].step \in {"idle", "create"}
  PROVE  SerialParts'
<1>t. TypeOK /\ SerialParts
  BY InTime
<1>a. \A steps, v : /\ At(steps, v) <=> request[r].step \in steps /\ request[r].target = v
                    /\ At(steps, v)' <=> request'[r].step \in steps /\ request'[r].target = v
  BY AtSlot
<1>1. \A v : ~At({"mark", "lookup", "enact"}, v) /\ ~At({"complete"}, v)
  BY <1>a
<1>2. (PendingInFlight /\ AbandonedUnsent /\ SentEnacted /\ SentRecorded)'
  BY <1>t, <1>1 DEF SerialParts, PendingInFlight, AbandonedUnsent, SentEnacted,
     SentRecorded, Current
<1>3. SlotInTime(r)'
  BY DEF SlotInTime, Writing
<1> QED
  BY <1>2, <1>3, SlotsInTime DEF SerialParts

LEMMA CreateInTime ==
  ASSUME OneAtATime, SerialInv, NEW r \in Requests, CreatePending(r)
  PROVE  SerialParts'
<1> DEFINE v == request[r].target
<1>t. TypeOK /\ SerialParts /\ v \in Versions
  BY InTime
<1>0. request[r].step = "create" /\ UNCHANGED <<sweep, sweptVia, sent>>
  BY DEF CreatePending, chainVars
<1>1. CASE Finish(r) /\ UNCHANGED <<version, migration>>
  <2>1. request'[r].step = "idle"
    BY <1>t, <1>1 DEF Finish, Idle, TypeOK
  <2> QED
    BY <1>0, <1>1, <2>1, QuietInTime
<1>2. CASE /\ version[v] = "none"
           /\ version' = [version EXCEPT ![v] = "pending"]
           /\ migration' = [migration EXCEPT ![v] = "proposed"]
           /\ Goto(r, IF request[r].todo = {} THEN "bump" ELSE "insert")
  <2>a. \A steps, u : At(steps, u) <=> request[r].step \in steps /\ request[r].target = u
    BY AtSlot
  <2>2. request'[r].step \in {"bump", "insert"} /\ request'[r].target = v
    BY <1>t, <1>2 DEF Goto, TypeOK, Request
  <2>3. \A u : ~At({"mark", "lookup", "enact"}, u) /\ ~At({"complete"}, u)
    BY <1>0, <2>a
  <2>4. \A u \in Versions :
          /\ version'[u] = IF u = v THEN "pending" ELSE version[u]
          /\ migration'[u] = IF u = v THEN "proposed" ELSE migration[u]
    BY <1>t, <1>2 DEF TypeOK
  <2>5. PendingInFlight' /\ AbandonedUnsent'
    BY <1>0, <1>t, <2>4 DEF SerialParts, PendingInFlight, AbandonedUnsent
  <2>6. SentEnacted' /\ SentRecorded'
    BY <1>0, <1>t, <1>2, <2>3, <2>4 DEF SerialParts, SentEnacted, SentRecorded,
       Current
  <2>7. SlotInTime(r)'
    BY <1>t, <2>2, <2>4 DEF SlotInTime, Writing
  <2> QED
    BY <2>5, <2>6, <2>7, SlotsInTime DEF SerialParts
<1> QED
  BY <1>1, <1>2 DEF CreatePending

LEMMA InsertInTime ==
  ASSUME OneAtATime, SerialInv, NEW r \in Requests, InsertSweep(r)
  PROVE  SerialParts'
<1> DEFINE v == request[r].target
           c == NextChain(request[r].todo)
<1>t. /\ TypeOK /\ SerialParts /\ v \in Versions /\ request[r] \in Request
      /\ version[v] = "pending" /\ request[r].step = "insert"
      /\ UNCHANGED <<version, migration, sweptVia, sent>>
  BY InTime DEF InsertSweep, SlotInTime, chainVars
<1>a. \A steps, u : At(steps, u) <=> request[r].step \in steps /\ request[r].target = u
  BY AtSlot
<1>1. \A u : ~At({"mark", "lookup", "enact"}, u) /\ ~At({"complete"}, u)
  BY <1>a, <1>t
<1>2. SlotInTime(r)'
  <2>1. \/ request'[r].step = "idle"
        \/ request'[r].step = "insert" /\ request'[r].target = v
    BY <1>t DEF InsertSweep, Finish, Idle, TypeOK, Request
  <2> QED
    BY <1>t, <2>1 DEF SlotInTime, Writing
<1>3. \A u \in Versions \ {v} : sweep'[u] = sweep[u]
  <2> PICK row : sweep' = [sweep EXCEPT ![v][c] = row]
    BY DEF InsertSweep
  <2> HIDE DEF v, c
  <2> QED
    BY <1>t DEF TypeOK
<1> HIDE DEF v, c
<1>4. (PendingInFlight /\ AbandonedUnsent /\ SentEnacted /\ SentRecorded)'
  BY <1>t, <1>1, <1>3
     DEF SerialParts, PendingInFlight, AbandonedUnsent, SentEnacted, SentRecorded,
         Current
<1> QED
  BY <1>2, <1>4, SlotsInTime DEF SerialParts

\* The flip of a version that had nothing to sweep, and that of one whose
\* sweep was sent, which the same request goes on to record.
LEMMA EnactInTime ==
  ASSUME OneAtATime, SerialInv, NEW r \in Requests, EnactUnfunded(r) \/ EnactBroadcast(r)
  PROVE  SerialParts'
<1> DEFINE v == request[r].target
<1>t. /\ TypeOK /\ SerialParts /\ v \in Versions /\ request[r] \in Request
      /\ LineageShape /\ InFlightAmendsCurrent /\ SlotInTime(r) /\ SlotEarned(r)
  BY InTime
<1>a. \A steps, u : /\ At(steps, u) <=> request[r].step \in steps /\ request[r].target = u
                    /\ At(steps, u)' <=> request'[r].step \in steps /\ request'[r].target = u
  BY AtSlot
<1>1. /\ request[r].step \in {"bump", "enact"} /\ EnactTransition(v)
      /\ UNCHANGED <<sweep, sweptVia, sent>>
  BY DEF EnactUnfunded, EnactBroadcast, chainVars
<1>2. version[v] = "pending"
  BY <1>t, <1>1 DEF SlotInTime, InFlightAmendsCurrent
<1>3. /\ CanActivate(v) /\ v - 1 \in Versions /\ version[v - 1] = "active"
      /\ \A u \in Versions :
           /\ version'[u] = IF u = v THEN "active"
                            ELSE IF u = v - 1 THEN "superseded" ELSE version[u]
           /\ migration'[u] = IF u = v THEN "enacted" ELSE migration[u]
  BY <1>t, <1>1, <1>2, FlipInTime DEF SerialParts
<1>4. /\ request[r].step = "bump" => request'[r].step = "idle"
      /\ request[r].step = "enact" => request'[r].step = "complete" /\ request'[r].target = v
  BY <1>t, <1>3 DEF EnactUnfunded, EnactBroadcast, Finish, Goto, Idle, TypeOK, Request
<1>5. SlotInTime(r)'
  BY <1>1, <1>4 DEF SlotInTime, Writing
<1>6. \A u \in Versions : /\ Current(u)' <=> Current(u) \/ u = v
                          /\ u # v => (version'[u] = "pending" <=> version[u] = "pending")
                          /\ version'[u] = "abandoned" => version[u] = "abandoned"
  BY <1>2, <1>3 DEF Current
<1>7. PendingInFlight' /\ AbandonedUnsent'
  BY <1>t, <1>1, <1>3, <1>6 DEF SerialParts, PendingInFlight, AbandonedUnsent
<1>8. /\ \A u : u # v => ~At({"mark", "lookup", "enact"}, u) /\ ~At({"complete"}, u)
      /\ ~At({"complete"}, v)
  BY <1>a, <1>1
<1>9. SentEnacted'
  <2> SUFFICES ASSUME NEW u \in Versions, sent[u] # {}
               PROVE  Current(u)'
    BY <1>1 DEF SentEnacted
  <2>1. CASE u = v
    BY <1>6, <2>1
  <2>2. CASE u # v
    BY <1>t, <1>6, <1>8, <2>2 DEF SerialParts, SentEnacted
  <2> QED
    BY <2>1, <2>2
<1>10. SentRecorded'
  <2> SUFFICES ASSUME NEW u \in Versions, Current(u)', \E c \in Chains : sweep[u][c].status # "none"
               PROVE  sweptVia[u - 1] # {} \/ At({"complete"}, u)'
    BY <1>1 DEF SentRecorded
  <2>2. CASE u # v
    BY <1>t, <1>6, <1>8, <2>2 DEF SerialParts, SentRecorded
  <2>3. CASE u = v
    <3>1. request'[r].step = "complete" /\ request'[r].target = u
      BY <1>t, <1>1, <1>4, <2>3 DEF SlotEarned
    <3> QED
      BY <1>a, <3>1
  <2> QED
    BY <2>2, <2>3
<1> QED
  BY <1>5, <1>7, <1>9, <1>10, SlotsInTime DEF SerialParts

\* A sweep that is signed, sent or cancelled was open when it was read, so its
\* version is not one that was given up.
LEMMA SentIsNotAbandoned ==
  ASSUME OneAtATime, SerialInv, NEW r \in Requests,
         request[r].step \in Writing \cup {"lookup"}
  PROVE  Current(request[r].target) \/ version[request[r].target] = "pending"
<1> DEFINE v == request[r].target
<1>t. /\ SerialParts /\ TypeOK /\ v \in Versions /\ request[r].todo \subseteq Chains
      /\ SlotInTime(r) /\ SlotEarned(r) /\ version[v] # "none"
  BY InTime DEF Writing
<1>1. PICK c \in Chains : c \in request[r].todo
  BY <1>t DEF SlotEarned, Writing
<1>2. sweep[v][c].status \in {"open", "finalized"} \/ c \in sent[v]
  BY <1>t, <1>1 DEF SlotEarned, SlotInTime
<1>3. version[v] # "abandoned"
  BY <1>t, <1>1, <1>2 DEF SerialParts, AbandonedUnsent
<1> QED
  BY <1>t, <1>3 DEF TypeOK, Current

LEMMA StartInTime ==
  ASSUME OneAtATime, SerialInv, NEW r \in Requests, NEW v \in Versions, NEW c \in Chains,
         Start(r, v, c)
  PROVE  SerialParts'
<1>t. TypeOK /\ SerialParts
  BY InTime
<1>1. /\ UNCHANGED <<version, migration, sweep, sweptVia, sent>>
      /\ sweep[v][c].status \in {"open", "finalized"} /\ request[r].step = "idle"
      /\ request'[r].step \in {"update", "cancel", "send"}
      /\ request'[r].target = v /\ request'[r].todo = {c}
  BY <1>t, WhatStarts DEF TypeOK
<1>a. \A steps, u : At(steps, u) <=> request[r].step \in steps /\ request[r].target = u
  BY AtSlot
<1>2. \A u : ~At({"mark", "lookup", "enact"}, u) /\ ~At({"complete"}, u)
  BY <1>a, <1>1
<1>3. (PendingInFlight /\ AbandonedUnsent /\ SentEnacted /\ SentRecorded)'
  BY <1>t, <1>1, <1>2 DEF SerialParts, PendingInFlight, AbandonedUnsent, SentEnacted,
     SentRecorded, Current
<1>4. SlotInTime(r)'
  BY <1>1 DEF SlotInTime
<1> QED
  BY <1>3, <1>4, SlotsInTime DEF SerialParts

LEMMA RewriteInTime ==
  ASSUME OneAtATime, SerialInv, NEW r \in Requests, Rewrite(r)
  PROVE  SerialParts'
<1> DEFINE v == request[r].target
<1>t. /\ TypeOK /\ SerialParts /\ v \in Versions /\ request[r].todo \subseteq Chains
      /\ SlotInTime(r)
  BY InTime
<1>a. \A steps, u : /\ At(steps, u) <=> request[r].step \in steps /\ request[r].target = u
                    /\ At(steps, u)' <=> request'[r].step \in steps /\ request'[r].target = u
  BY AtSlot
<1>1. /\ UNCHANGED <<version, migration, sweptVia, sent>>
      /\ request[r].step \in {"update", "extract", "cancel", "mark"}
      /\ \/ request'[r].step = "idle" /\ request[r].step # "mark"
         \/ /\ request[r].step = "update" /\ request'[r].step = "extract"
            /\ request'[r].target = v /\ request'[r].todo = request[r].todo
         \/ /\ request[r].step = "mark" /\ request'[r].step = "lookup"
            /\ request'[r].target = v /\ request'[r].todo = request[r].todo
  BY <1>t, WhatRewrites
<1>2. PICK status \in {"open", "finalized", "broadcast", "cancelled"} :
        /\ request'[r].step = "extract" => status = "finalized"
        /\ \A u \in Versions, d \in Chains : RowBecomes(r, status, u, d)
  BY <1>t, WhatIsWritten
<1>3. \A u \in Versions, d \in Chains :
        /\ Working(r, u, d) => /\ sweep'[u][d].status = status
                               /\ sweep[u][d].status \in {"open", "finalized"}
        /\ ~Working(r, u, d) => sweep'[u][d] = sweep[u][d]
  BY <1>1, <1>2, <1>t DEF RowBecomes, Working, SlotInTime, Writing
<1> HIDE DEF v
<1>4. (PendingInFlight /\ AbandonedUnsent)'
  BY <1>t, <1>1, <1>3 DEF SerialParts, PendingInFlight, AbandonedUnsent
<1>5. SentEnacted'
  <2>1. \A u : At({"mark", "lookup", "enact"}, u) => At({"mark", "lookup", "enact"}, u)'
    BY <1>a, <1>1 DEF v
  <2> QED
    BY <1>t, <1>1, <2>1 DEF SerialParts, SentEnacted, Current
<1>6. SentRecorded'
  <2>1. \A u : ~At({"complete"}, u)
    BY <1>a, <1>1
  <2>2. \A u \in Versions, d \in Chains :
          sweep'[u][d].status # "none" => sweep[u][d].status # "none"
    BY <1>3
  <2> QED
    BY <1>t, <1>1, <2>1, <2>2 DEF SerialParts, SentRecorded, Current
<1>7. SlotInTime(r)'
  <2>1. CASE request'[r].step = "extract"
    <3>1. \A c \in request[r].todo : sweep'[v][c].status = "finalized"
      BY <1>2, <1>3, <1>t, <2>1 DEF Working, v
    <3> QED
      BY <1>1, <2>1, <3>1 DEF SlotInTime
  <2>2. CASE request'[r].step # "extract"
    BY <1>1, <2>2 DEF SlotInTime, Writing
  <2> QED
    BY <2>1, <2>2
<1> QED
  BY <1>4, <1>5, <1>6, <1>7, SlotsInTime DEF SerialParts

LEMMA BroadcastInTime ==
  ASSUME OneAtATime, SerialInv, NEW r \in Requests, BroadcastSweep(r)
  PROVE  SerialParts'
<1> DEFINE v == request[r].target
<1>t. TypeOK /\ SerialParts /\ v \in Versions /\ request[r] \in Request /\ SlotInTime(r)
  BY InTime
<1>a. \A steps, u : /\ At(steps, u) <=> request[r].step \in steps /\ request[r].target = u
                    /\ At(steps, u)' <=> request'[r].step \in steps /\ request'[r].target = u
  BY AtSlot
<1>1. /\ request[r].step = "send" /\ UNCHANGED <<version, migration, sweep, sweptVia>>
      /\ \A u \in Versions \ {v} : sent'[u] = sent[u]
      /\ request'[r].step = "mark" /\ request'[r].target = v
      /\ request'[r].todo = request[r].todo
  BY <1>t DEF BroadcastSweep, Goto, dbVars, TypeOK, Request
<1>2. \A u : ~At({"mark", "lookup", "enact"}, u) /\ ~At({"complete"}, u)
  BY <1>a, <1>1
<1>3. Current(v) \/ version[v] = "pending"
  BY <1>1, SentIsNotAbandoned DEF Writing
<1>5. SlotInTime(r)'
  BY <1>t, <1>1 DEF SlotInTime, Writing
<1> HIDE DEF v
<1>6. (PendingInFlight /\ AbandonedUnsent /\ SentRecorded)'
  BY <1>t, <1>1, <1>2, <1>3 DEF SerialParts, PendingInFlight, AbandonedUnsent, SentRecorded,
     Current
<1>7. SentEnacted'
  <2> SUFFICES ASSUME NEW u \in Versions, sent'[u] # {}, ~Current(u)
               PROVE  version[u] = "pending" /\ At({"mark", "lookup", "enact"}, u)'
    BY <1>1 DEF SentEnacted, Current
  <2>1. CASE u = v
    BY <1>a, <1>1, <1>3, <2>1
  <2>2. CASE u # v
    <3>1. sent[u] # {}
      BY <1>1, <2>2 
    <3> QED
      BY <1>t, <1>2, <3>1 DEF SerialParts, SentEnacted
  <2> QED
    BY <2>1, <2>2
<1> QED
  BY <1>5, <1>6, <1>7, SlotsInTime DEF SerialParts

LEMMA LookupInTime ==
  ASSUME OneAtATime, SerialInv, NEW r \in Requests, LookupEnactment(r)
  PROVE  SerialParts'
<1> DEFINE v == request[r].target
<1>t. TypeOK /\ SerialParts /\ v \in Versions /\ request[r] \in Request
  BY InTime
<1>a. \A steps, u : /\ At(steps, u) <=> request[r].step \in steps /\ request[r].target = u
                    /\ At(steps, u)' <=> request'[r].step \in steps /\ request'[r].target = u
  BY AtSlot
<1>1. /\ request[r].step = "lookup"
      /\ UNCHANGED <<version, migration, sweep, sweptVia, sent>>
      /\ \/ migration[v] = "proposed" /\ request'[r].step = "enact" /\ request'[r].target = v
         \/ migration[v] # "proposed" /\ request'[r].step = "idle"
  BY <1>t DEF LookupEnactment, Goto, Finish, Idle, dbVars, chainVars, TypeOK, Request
\* A version that is looked up and not in flight has become current already.
<1>2. request'[r].step = "idle" => Current(v) /\ version[v] # "pending"
  BY <1>t, <1>1, SentIsNotAbandoned DEF SerialParts, PendingInFlight
<1>3. (PendingInFlight /\ AbandonedUnsent)'
  BY <1>t, <1>1 DEF SerialParts, PendingInFlight, AbandonedUnsent
<1>5. SentEnacted'
  <2> SUFFICES ASSUME NEW u \in Versions, ~Current(u), sent[u] # {}
               PROVE  version[u] = "pending" /\ At({"mark", "lookup", "enact"}, u)'
    BY <1>1 DEF SentEnacted, Current
  <2>1. version[u] = "pending" /\ At({"mark", "lookup", "enact"}, u)
    BY <1>t DEF SerialParts, SentEnacted
  <2>2. u = v
    BY <1>a, <2>1
  <2>3. request'[r].step = "enact" /\ request'[r].target = u
    BY <1>1, <1>2, <2>2
  <2> QED
    BY <1>a, <2>1, <2>3
<1>6. SentRecorded'
  <2>1. \A u : ~At({"complete"}, u)
    BY <1>a, <1>1
  <2> QED
    BY <1>t, <1>1, <2>1 DEF SerialParts, SentRecorded, Current
<1>7. SlotInTime(r)'
  BY <1>1 DEF SlotInTime, Writing
<1> QED
  BY <1>3, <1>5, <1>6, <1>7, SlotsInTime DEF SerialParts

LEMMA CompleteInTime ==
  ASSUME OneAtATime, SerialInv, NEW r \in Requests, CompleteMigration(r)
  PROVE  SerialParts'
<1> DEFINE v == request[r].target
<1>t. /\ TypeOK /\ SerialParts /\ v \in Versions /\ request[r] \in Request
      /\ SlotEarned(r) /\ v # 0
  BY InTime DEF CompleteMigration
<1>a. \A steps, u : At(steps, u) <=> request[r].step \in steps /\ request[r].target = u
  BY AtSlot
<1>1. /\ request[r].step = "complete" /\ request'[r].step = "idle"
      /\ UNCHANGED <<version, migration, sweep, sent>>
      /\ sweptVia' = [sweptVia EXCEPT ![v - 1] = request[r].todo]
      /\ request[r].todo # {}
  BY <1>t DEF CompleteMigration, Finish, Idle, chainVars, TypeOK, SlotEarned
<1>2. \A u : ~At({"mark", "lookup", "enact"}, u)
  BY <1>a, <1>1
<1>3. (PendingInFlight /\ AbandonedUnsent /\ SentEnacted)'
  BY <1>t, <1>1, <1>2 DEF SerialParts, PendingInFlight, AbandonedUnsent, SentEnacted,
     Current
<1>4. SentRecorded'
  <2> SUFFICES ASSUME NEW u \in Versions, Current(u), \E c \in Chains : sweep[u][c].status # "none"
               PROVE  sweptVia'[u - 1] # {}
    BY <1>1 DEF SentRecorded, Current
  <2>1. u # 0 /\ u - 1 \in Versions /\ v - 1 \in Versions
    BY <1>t, VersionArithmetic DEF SerialInv, FundsInv, FlipInv, SuccessionInv, TargetsStored,
       RowsStored
  <2>2. CASE u = v
    BY <1>t, <1>1, <2>1, <2>2 DEF TypeOK
  <2>3. CASE u # v
    <3>1. sweptVia[u - 1] # {}
      BY <1>a, <1>t, <2>3 DEF SerialParts, SentRecorded
    <3>2. u - 1 # v - 1
      BY <1>t, <2>3, VersionArithmetic
    <3> QED
      BY <1>t, <1>1, <2>1, <3>1, <3>2 DEF TypeOK
  <2> QED
    BY <2>2, <2>3
<1>5. SlotInTime(r)'
  BY <1>1 DEF SlotInTime, Writing
<1> QED
  BY <1>3, <1>4, <1>5, SlotsInTime DEF SerialParts

\* With no sweep on its way, what is given up has sent nothing.
LEMMA CancelInTime ==
  ASSUME OneAtATime, SerialInv, NEW r \in Requests, NEW v \in Versions, CancelMigration(r, v)
  PROVE  SerialParts'
<1>t. TypeOK /\ SerialParts /\ SentExtracted
  BY InTime
<1>a. \A steps, u : At(steps, u) <=> request[r].step \in steps /\ request[r].target = u
  BY AtSlot
<1>1. /\ request[r].step = "idle" /\ UNCHANGED <<sweptVia, sent, request>>
      /\ \A u \in Versions :
           /\ version'[u] = IF u = v /\ version[v] = "pending" THEN "abandoned" ELSE version[u]
           /\ migration'[u] = IF u = v THEN "cancelled" ELSE migration[u]
  <2>1. request[r].step = "idle" /\ UNCHANGED <<sweptVia, sent, request>>
    BY <1>t, WhatCancels
  <2>2. \A u \in Versions :
          /\ version'[u] = IF u = v /\ version[v] = "pending" THEN "abandoned" ELSE version[u]
          /\ migration'[u] = IF u = v THEN "cancelled" ELSE migration[u]
    BY <1>t DEF CancelMigration, TypeOK
  <2> QED
    BY <2>1, <2>2
<1>2. \A u : ~At({"mark", "lookup", "enact"}, u) /\ ~At({"complete"}, u)
  BY <1>a, <1>1
<1>3. \A u \in Versions, c \in Chains :
        \/ sweep'[u][c] = sweep[u][c] /\ (u # v \/ sweep[u][c].status \notin {"open", "finalized"})
        \/ u = v /\ sweep[u][c].status # "none" /\ sweep'[u][c].status = "cancelled"
  BY <1>t, WhatCancels
<1>4. \A u \in Versions, c \in Chains :
        /\ sweep'[u][c].status # "none" => sweep[u][c].status # "none"
        /\ sweep[u][c].status \in {"none", "cancelled"} =>
             sweep'[u][c].status \in {"none", "cancelled"}
  BY <1>3
<1>5. \A u \in Versions : Current(u)' <=> Current(u)
  BY <1>1 DEF Current
<1>6. PendingInFlight'
  BY <1>t, <1>1 DEF SerialParts, PendingInFlight
<1>7. AbandonedUnsent'
  <2> SUFFICES ASSUME NEW u \in Versions, version'[u] = "abandoned"
               PROVE  /\ sent[u] = {}
                      /\ \A c \in Chains : sweep'[u][c].status \in {"none", "cancelled"}
    BY <1>1 DEF AbandonedUnsent
  <2>1. CASE version[u] = "abandoned"
    BY <1>t, <1>4, <2>1 DEF SerialParts, AbandonedUnsent
  <2>2. CASE version[u] # "abandoned"
    <3>1. u = v /\ version[v] = "pending"
      BY <1>1, <2>2
    <3>2. sent[u] = {}
      BY <1>t, <1>2, <3>1 DEF SerialParts, SentEnacted, Current
    <3>3. \A c \in Chains :
            /\ sweep[v][c].status # "broadcast"
            /\ sweep[v][c].status \in {"none", "open", "finalized", "broadcast", "cancelled"}
      BY <1>t, <3>1, <3>2 DEF SentExtracted, TypeOK, Sweep
    <3> QED
      BY <1>3, <3>1, <3>2, <3>3
  <2> QED
    BY <2>1, <2>2
<1>8. SentEnacted' /\ SentRecorded'
  <2>2. SentEnacted'
    BY <1>t, <1>1, <1>2, <1>5 DEF SerialParts, SentEnacted
  <2>3. SentRecorded'
    BY <1>t, <1>1, <1>2, <1>4, <1>5 DEF SerialParts, SentRecorded
  <2> QED
    BY <2>2, <2>3
<1>9. SlotInTime(r)'
  BY <1>1 DEF SlotInTime, Writing
<1> QED
  BY <1>6, <1>7, <1>8, <1>9, SlotsInTime DEF SerialParts

\* Deposits and ordinary sends, and nothing at all.
LEMMA OutsideInTime ==
  ASSUME SerialInv, UNCHANGED <<dbVars, request, sent>>
  PROVE  SerialParts'
<1>t. SerialParts
  BY DEF SerialInv
<1>1. \A steps, u : At(steps, u)' <=> At(steps, u)
  BY DEF At
<1>2. (PendingInFlight /\ AbandonedUnsent /\ SentEnacted /\ SentRecorded)'
  BY <1>t, <1>1 DEF SerialParts, PendingInFlight, AbandonedUnsent, SentEnacted, SentRecorded,
     Current, dbVars
<1>3. (\A r \in Requests : SlotInTime(r))'
  BY <1>t DEF SerialParts, SlotInTime, dbVars
<1> QED
  BY <1>2, <1>3 DEF SerialParts

LEMMA NextInTime ==
  ASSUME OneAtATime, SerialInv, [Next]_vars
  PROVE  SerialParts'
<1>t. TypeOK
  BY DEF SerialInv, FundsInv, FlipInv, SuccessionInv
<1>1. ASSUME NEW r \in Requests, NEW b \in Versions, RequestMigration(r, b)
      PROVE  SerialParts'
  <2>1. /\ UNCHANGED <<version, migration, sweep, sweptVia, sent>>
        /\ request[r].step = "idle" /\ request'[r].step = "create"
    BY <1>t, <1>1 DEF RequestMigration, Free, dbVars, chainVars, TypeOK
  <2> QED
    BY <2>1, QuietInTime
<1>2. ASSUME NEW r \in Requests, RefuseSweep(r) \/ BuildFails(r)
      PROVE  SerialParts'
  <2>1. /\ UNCHANGED <<version, migration, sweep, sweptVia, sent>>
        /\ request[r].step \in {"send", "insert"} /\ request'[r].step = "idle"
    BY <1>t, <1>2 DEF RefuseSweep, BuildFails, Finish, Idle, dbVars, chainVars, TypeOK
  <2> QED
    BY <2>1, QuietInTime
<1>3. ASSUME NEW k \in Coins, Spend(k) \/ \E v \in Versions : Deposit(k, v)
      PROVE  SerialParts'
  BY <1>3, OutsideInTime DEF Spend, Deposit
<1>4. CASE UNCHANGED vars
  BY <1>4, OutsideInTime DEF vars, chainVars
<1>5. ASSUME NEW r \in Requests, Stop(r)
      PROVE  FALSE
  BY <1>5 DEF Stop, OneAtATime
<1> QED
  BY <1>1, <1>2, <1>3, <1>4, <1>5, CreateInTime, InsertInTime, EnactInTime, StartInTime,
     RewriteInTime, BroadcastInTime, LookupInTime, CompleteInTime, CancelInTime
  DEF Next, Receive, Advance, Start, Rewrite

LEMMA AlwaysInTime == ASSUME OneAtATime PROVE Spec => []SerialInv
<1>1. Init => SerialParts
  BY DEF Init, Idle, NoSweep, SerialParts, PendingInFlight, AbandonedUnsent, SentEnacted,
     SentRecorded, SlotInTime, Writing, Current
<1>2. FundsInv /\ SerialParts /\ [Next]_vars => SerialParts'
  BY NextInTime DEF SerialInv
<1>3. SerialInv <=> FundsInv /\ SerialParts
  BY DEF SerialInv
<1> QED
  BY <1>1, <1>2, <1>3, AlwaysFunds, PTL DEF Spec

-----------------------------------------------------------------------------

\* No sweep to a version that is given up has reached the network: cancel_post
\* writes `abandoned' over a pending version without asking the node, which is
\* right as long as requests do not overlap.
THEOREM AbandonedNeverSent == ASSUME OneAtATime PROVE Spec => []AbandonedBeforeBroadcast
<1>1. SerialInv => AbandonedBeforeBroadcast
  BY DEF SerialInv, SerialParts, AbandonedUnsent, AbandonedBeforeBroadcast
<1> QED
  BY <1>1, AlwaysInTime, PTL

\* Between requests, a migration whose sweep the node accepted has flipped its
\* version: marking the proposal and the flip are statements of one request.
THEOREM SentIsEnacted == ASSUME OneAtATime PROVE Spec => []BroadcastIsEnacted
<1>1. SerialInv => BroadcastIsEnacted
  BY DEF SerialInv, SerialParts, SentEnacted, At, Current, BroadcastIsEnacted, AtRest, Free
<1> QED
  BY <1>1, AlwaysInTime, PTL

\* Between requests, the version an accepted sweep has left carries its txid,
\* the one column from which the reconciliation with the chain starts.
THEOREM SentIsRecorded == ASSUME OneAtATime PROVE Spec => []SentSweepIsRecorded
<1>1. SerialInv => SentSweepIsRecorded
  <2> SUFFICES ASSUME SerialInv, AtRest, NEW v \in Versions, sent[v] # {}
               PROVE  sweptVia[v - 1] # {}
    BY DEF SentSweepIsRecorded
  <2>1. ~At({"mark", "lookup", "enact"}, v) /\ ~At({"complete"}, v)
    BY DEF At, AtRest, Free
  <2>2. Current(v)
    BY <2>1 DEF SerialInv, SerialParts, SentEnacted
  <2>3. PICK c \in Chains : c \in sent[v]
    BY DEF SerialInv, FundsInv, FlipInv, SuccessionInv, TypeOK
  <2>4. sweep[v][c].status # "none"
    BY <2>3 DEF SerialInv, FundsInv, FlipInv, FlipsEarned, SentExtracted
  <2> QED
    BY <2>1, <2>2, <2>4 DEF SerialInv, SerialParts, SentRecorded
<1> QED
  BY <1>1, AlwaysInTime, PTL

=============================================================================
