--------------------------- MODULE ReconcileProofs ---------------------------
(***************************************************************************)
(* Theorems about Reconcile, for any transactions and deposits, any number *)
(* of requests and passes abandoned anywhere, and any number of reorgs;    *)
(* then, when requests are served one at a time and none is abandoned,     *)
(* that the columns implement the record of sweeps, step by step.          *)
(***************************************************************************)
EXTENDS Reconcile, TLAPS

Steps == {"idle", "send", "mark", "lookup", "enact", "complete",
          "syncBase", "syncCurrent", "load", "readBase", "readCurrent", "write",
          "resync", "build", "evict", "insert"}

\* A slot that moves to another statement, ends, or begins stays well typed.
LEMMA GotoType ==
  ASSUME request \in [Requests -> Request], NEW r \in Requests, NEW step \in Steps,
         Goto(r, step)
  PROVE  request' \in [Requests -> Request]
  BY DEF Goto, Request, Steps

LEMMA IdleType == Idle \in Request
  BY DEF Idle, Request

LEMMA FinishType ==
  ASSUME request \in [Requests -> Request], NEW r \in Requests, Finish(r)
  PROVE  request' \in [Requests -> Request]
  BY IdleType DEF Finish

LEMMA StartType ==
  ASSUME request \in [Requests -> Request], NEW r \in Requests,
         NEW step \in Steps, NEW tx \in Txs \cup {NoTx}, Start(r, step, tx)
  PROVE  request' \in [Requests -> Request]
<1>1. [Idle EXCEPT !.step = step, !.tx = tx] \in Request
  BY DEF Idle, Request, Steps
<1> QED
  BY <1>1 DEF Start

\* A new proposal of coins that have arrived is well typed.
LEMMA InsertType ==
  ASSUME TypeOK, NEW t \in Txs, NEW kind \in {"resweep", "relay"},
         NEW inputs \in SUBSET Coins, Insert(t, kind, inputs)
  PROVE  proposal' \in [Txs -> Proposal]
<1>1. [kind |-> kind, status |-> "finalized", inputs |-> inputs] \in Proposal
  BY DEF Proposal
<1> QED
  BY <1>1 DEF Insert, TypeOK

\* A sync leaves every graph with the places the node has.
LEMMA ReadType ==
  ASSUME TypeOK, NEW w \in Wallets, graph' = Read(w)
  PROVE  graph' \in [Wallets -> [Txs -> Places]]
  BY DEF TypeOK, Read

\* The statements of the broadcast handler keep the types.
LEMMA BroadcastingType ==
  ASSUME TypeOK, NEW r \in Requests, Broadcasting(r)
  PROVE  TypeOK'
<1> USE DEF TypeOK, columns, nodeVars, wallets
<1>1. CASE AcceptTx(r)
  <2>1. node' \in [Txs -> Places]
    BY <1>1 DEF AcceptTx, Places
  <2> QED
    BY <1>1, <2>1, GotoType DEF AcceptTx, Steps
<1>2. CASE RefuseTx(r)
  BY <1>2, FinishType DEF RefuseTx
<1>3. CASE MarkBroadcast(r)
  <2>1. \A p \in Proposal : [p EXCEPT !.status = "broadcast"] \in Proposal
    BY DEF Proposal
  <2>2. proposal' \in [Txs -> Proposal]
    BY <1>3, <2>1 DEF MarkBroadcast
  <2> QED
    BY <1>3, <2>2, GotoType DEF MarkBroadcast, Steps
<1>4. CASE Lookup(r)
  <2>1. Goto(r, "enact") \/ Goto(r, "complete") \/ Finish(r)
    BY <1>4 DEF Lookup
  <2>2. request' \in [Requests -> Request]
    BY <2>1, GotoType, FinishType DEF Steps
  <2> QED
    BY <1>4, <2>2 DEF Lookup
<1>5. CASE Enact(r)
  BY <1>5, GotoType DEF Enact, Steps
<1>6. CASE CompleteMigration(r)
  <2>1. request[r].tx \in Txs \cup {NoTx}
    BY DEF Request
  <2> QED
    BY <1>6, <2>1, FinishType DEF CompleteMigration
<1> QED
  BY <1>1, <1>2, <1>3, <1>4, <1>5, <1>6 DEF Broadcasting

\* What a pass has read of its candidate is a truth value.
LEMMA ReadGraphType ==
  ASSUME TypeOK, NEW r \in Requests, NEW w \in Wallets, NEW step \in Steps,
         NEW next \in Steps, ReadGraph(r, step, w, next)
  PROVE  TypeOK'
<1> DEFINE found == graph[w][request[r].tx] = "confirmed"
           read  == [request[r] EXCEPT !.step = next, !.seen = @ \/ found]
<1>1. request[r].seen \/ found \in BOOLEAN
  OBVIOUS
<1>2. read \in Request
  BY <1>1 DEF Request, Steps, TypeOK
<1>3. request' \in [Requests -> Request]
  <2>1. request' = [request EXCEPT ![r] = read]
    BY DEF ReadGraph
  <2> QED
    BY <1>2, <2>1 DEF TypeOK
<1> QED
  BY <1>3 DEF ReadGraph, TypeOK, columns, nodeVars, wallets

\* The statements of a sync pass keep the types.
LEMMA ReconcilingType ==
  ASSUME TypeOK, NEW r \in Requests, Reconciling(r)
  PROVE  TypeOK'
<1> USE DEF TypeOK, columns, nodeVars, wallets
<1>1. CASE SyncBase(r) \/ SyncCurrent(r)
  <2>1. graph' \in [Wallets -> [Txs -> Places]]
    BY <1>1, ReadType DEF SyncBase, SyncCurrent, Wallets
  <2>2. request' \in [Requests -> Request]
    BY <1>1, GotoType DEF SyncBase, SyncCurrent, Steps
  <2> QED
    BY <1>1, <2>1, <2>2 DEF SyncBase, SyncCurrent
<1>2. CASE LoadCandidate(r)
  <2> DEFINE found == [request[r] EXCEPT !.step = "readBase", !.tx = sweepTxid,
                                         !.wasLatched = latched]
  <2>1. found \in Request
    BY DEF Request
  <2>2. Finish(r) \/ request' = [request EXCEPT ![r] = found]
    BY <1>2 DEF LoadCandidate
  <2>3. request' \in [Requests -> Request]
    BY <2>1, <2>2, FinishType
  <2> QED
    BY <1>2, <2>3 DEF LoadCandidate
<1>3. CASE ReadBase(r) \/ ReadCurrent(r)
  BY <1>3, ReadGraphType DEF ReadBase, ReadCurrent, Wallets, Steps
<1>4. CASE Latch(r)
  BY <1>4, FinishType DEF Latch, Recorded
<1>5. CASE Revert(r)
  BY <1>5, FinishType DEF Revert, Recorded
<1>6. CASE LeaveAlone(r)
  BY <1>6, FinishType DEF LeaveAlone
<1> QED
  BY <1>1, <1>2, <1>3, <1>4, <1>5, <1>6 DEF Reconciling

\* The statements of a resweep request keep the types.
LEMMA ResweepingType ==
  ASSUME TypeOK, NEW r \in Requests, Resweeping(r)
  PROVE  TypeOK'
<1> USE DEF TypeOK, columns, nodeVars, wallets
<1>1. CASE ResyncBase(r)
  BY <1>1, ReadType, GotoType DEF ResyncBase, Wallets, Steps
<1>2. CASE BuildResweep(r)
  <2>1. hidden' \subseteq Txs
    BY <1>2 DEF BuildResweep, Stranded
  <2> DEFINE built == [request[r] EXCEPT !.step = "evict", !.inputs = Spendable(hidden')]
  <2>2. Spendable(hidden') \in SUBSET Coins
    BY DEF Spendable
  <2>3. built \in Request
    BY <2>2 DEF Request
  <2>4. Finish(r) \/ request' = [request EXCEPT ![r] = built]
    BY <1>2 DEF BuildResweep
  <2>5. request' \in [Requests -> Request]
    BY <2>3, <2>4, FinishType
  <2> QED
    BY <1>2, <2>1, <2>5 DEF BuildResweep
<1>3. CASE EvictCache(r)
  BY <1>3, GotoType DEF EvictCache, Steps
<1>4. CASE InsertResweep(r)
  <2>1. request[r].inputs \in SUBSET Coins
    BY DEF Request
  <2>2. proposal' \in [Txs -> Proposal]
    BY <1>4, <2>1, InsertType DEF InsertResweep
  <2> QED
    BY <1>4, <2>2, FinishType DEF InsertResweep
<1> QED
  BY <1>1, <1>2, <1>3, <1>4 DEF Resweeping

\* Every step keeps the types.
LEMMA TypeStep == TypeOK /\ [Next]_vars => TypeOK'
<1> SUFFICES ASSUME TypeOK, [Next]_vars
             PROVE  TypeOK'
  OBVIOUS
<1> USE DEF TypeOK, columns, nodeVars, wallets
<1>1. ASSUME NEW r \in Requests, Receive(r)
      PROVE  TypeOK'
  <2>1. CASE RequestPass(r)
    BY <1>1, <2>1, StartType DEF RequestPass, Steps
  <2>2. CASE RequestResweep(r)
    BY <1>1, <2>2, StartType DEF RequestResweep, Steps
  <2>3. CASE \E t \in Txs : RequestBroadcast(r, t)
    BY <1>1, <2>3, StartType DEF RequestBroadcast, Steps
  <2> QED
    BY <1>1, <2>1, <2>2, <2>3 DEF Receive
<1>2. ASSUME NEW r \in Requests, Stop(r)
      PROVE  TypeOK'
  BY <1>2, FinishType DEF Stop
<1>3. ASSUME NEW t \in Txs, Mine(t)
      PROVE  TypeOK'
  BY <1>3 DEF Mine, Places
<1>4. ASSUME NEW t \in Txs, Reorg(t)
      PROVE  TypeOK'
  <2>1. node' \in [Txs -> Places]
    BY <1>4 DEF Reorg, Places
  <2>2. reorgs' \in 0..MaxReorgs
    BY <1>4, ReconcileAssumption DEF Reorg
  <2> QED
    BY <1>4, <2>1, <2>2 DEF Reorg
<1>5. ASSUME NEW t \in Txs, ProposeRelay(t)
      PROVE  TypeOK'
  <2>1. Spendable(hidden) \in SUBSET Coins
    BY DEF Spendable
  <2> QED
    BY <1>5, <2>1, InsertType DEF ProposeRelay
<1>6. ASSUME NEW w \in Wallets, SyncWallet(w)
      PROVE  TypeOK'
  BY <1>6, ReadType DEF SyncWallet
<1>7. ASSUME NEW k \in Late, Deposit(k)
      PROVE  TypeOK'
  BY <1>7, ReconcileAssumption DEF Deposit
<1>8. CASE Restart
  BY <1>8, IdleType DEF Restart
<1>9. CASE UNCHANGED vars
  BY <1>9 DEF vars
<1> QED
  BY <1>1, <1>2, <1>3, <1>4, <1>5, <1>6, <1>7, <1>8, <1>9,
     BroadcastingType, ReconcilingType, ResweepingType DEF Next

\* The initial state has its type.
LEMMA InitType == Init => TypeOK
<1> SUFFICES ASSUME Init
             PROVE  TypeOK
  OBVIOUS
<1>1. proposal \in [Txs -> Proposal]
  BY DEF Init, Proposal, Unused
<1>2. node \in [Txs -> Places] /\ graph \in [Wallets -> [Txs -> Places]]
  BY DEF Init, Places
<1>3. request \in [Requests -> Request]
  BY IdleType DEF Init
<1>4. reorgs \in 0..MaxReorgs
  BY ReconcileAssumption DEF Init
<1>5. everConfirmed \subseteq Txs /\ everLost \subseteq Txs /\ calm \subseteq Requests
  BY DEF Init
<1>6. latched \in BOOLEAN /\ enacted \in BOOLEAN
  BY DEF Init
<1> QED
  BY <1>1, <1>2, <1>3, <1>4, <1>5, <1>6 DEF Init, TypeOK

\* Every reachable state of the columns, the chain, the wallets and the slots
\* has its type.
THEOREM TypeCorrect == Spec => []TypeOK
  BY InitType, TypeStep, PTL DEF Spec

-----------------------------------------------------------------------------
(* What the columns say is backed by what the chain has done.  The columns  *)
(* are inductive only with what the slots carry towards them: the next      *)
(* write of a slot records a sweep that was sent, or latches a confirmation *)
(* that some wallet has read off a chain that had it.                       *)

SlotSound(r) ==
  LET q == request[r]
  IN  /\ q.step \in {"send", "mark", "lookup"} => q.tx \in Txs /\ proposal[q.tx].kind # "none"
      /\ q.step = "lookup" => proposal[q.tx].status = "broadcast"
      /\ q.step \in {"enact", "complete", "readBase", "readCurrent", "write"}
           => q.tx \in SentSweeps
      /\ q.seen => q.step \in {"readBase", "readCurrent", "write"} /\ q.tx \in everConfirmed
SlotsSound == \A r \in Requests : SlotSound(r)

ChainSeen ==
  /\ \A t \in Txs : node[t] = "confirmed" => t \in everConfirmed
  /\ \A w \in Wallets, t \in Txs : graph[w][t] = "confirmed" => t \in everConfirmed

EvidenceInv ==
  /\ TypeOK
  /\ ColumnsAgree
  /\ ReopenedOnEvidence
  /\ SlotsSound
  /\ ChainSeen

\* No step takes back a proposal, the sending of one, or a confirmation seen.
HistoryKept ==
  /\ \A t \in Txs :
       /\ proposal[t].kind # "none" => proposal'[t].kind = proposal[t].kind
       /\ proposal[t].kind # "none" /\ proposal[t].status = "broadcast"
            => proposal'[t].status = "broadcast"
  /\ everConfirmed \subseteq everConfirmed'

OtherSlotsKept(r) == \A q \in Requests : q # r => request'[q] = request[q]

LEMMA SentStaySent == HistoryKept => SentSweeps \subseteq SentSweeps'
  BY DEF HistoryKept, SentSweeps, SweepKinds

LEMMA Unmoved == UNCHANGED <<proposal, everConfirmed>> => HistoryKept
  BY DEF HistoryKept

\* A slot that does not move stays sound.
LEMMA SlotKept ==
  ASSUME NEW r \in Requests, SlotSound(r), HistoryKept, request'[r] = request[r]
  PROVE  SlotSound(r)'
  BY SentStaySent DEF SlotSound, HistoryKept

LEMMA OneSlotMoves ==
  ASSUME SlotsSound, HistoryKept, NEW r \in Requests, OtherSlotsKept(r), SlotSound(r)'
  PROVE  SlotsSound'
<1>1. \A q \in Requests : q # r => SlotSound(q)'
  BY SlotKept DEF SlotsSound, OtherSlotsKept
<1> QED
  BY <1>1 DEF SlotsSound

\* A slot at rest, or at a statement that carries nothing, is sound.
LEMMA RestIsSound ==
  ASSUME TypeOK, NEW r \in Requests, Finish(r)
  PROVE  OtherSlotsKept(r) /\ SlotSound(r)'
  BY DEF Finish, Idle, SlotSound, OtherSlotsKept, TypeOK

LEMMA GotoIsSound ==
  ASSUME TypeOK, NEW r \in Requests, SlotSound(r), HistoryKept,
         NEW step \in {"syncCurrent", "load", "build", "insert"}, Goto(r, step),
         ~request[r].seen
  PROVE  OtherSlotsKept(r) /\ SlotSound(r)'
  BY DEF Goto, SlotSound, OtherSlotsKept, TypeOK

LEMMA StartIsSound ==
  ASSUME TypeOK, NEW r \in Requests, NEW step \in {"syncBase", "resync"},
         Start(r, step, NoTx)
  PROVE  OtherSlotsKept(r) /\ SlotSound(r)'
  BY DEF Start, Idle, SlotSound, OtherSlotsKept, TypeOK

\* Columns that do not change stay backed.
LEMMA ColumnsKept ==
  ASSUME ColumnsAgree, ReopenedOnEvidence, HistoryKept, UNCHANGED columns
  PROVE  ColumnsAgree' /\ ReopenedOnEvidence'
  BY SentStaySent DEF ColumnsAgree, ReopenedOnEvidence, columns, HistoryKept

\* A sync reads only confirmations that the chain has had.
LEMMA ReadIsSeen ==
  ASSUME TypeOK, ChainSeen, NEW w \in Wallets, graph' = Read(w),
         UNCHANGED <<node, everConfirmed>>
  PROVE  ChainSeen'
  BY DEF TypeOK, ChainSeen, Read

LEMMA SeenKept ==
  ASSUME ChainSeen, UNCHANGED <<node, graph, everConfirmed>>
  PROVE  ChainSeen'
  BY DEF ChainSeen

\* A proposal inserted, or marked as sent, takes nothing back.
LEMMA InsertKeepsHistory ==
  ASSUME TypeOK, NEW t \in Txs, NEW kind, NEW inputs, Insert(t, kind, inputs),
         UNCHANGED everConfirmed
  PROVE  HistoryKept
  BY DEF Insert, HistoryKept, TypeOK

\* The broadcast handler keeps the columns backed.
LEMMA BroadcastingEvidence ==
  ASSUME EvidenceInv, NEW r \in Requests, Broadcasting(r)
  PROVE  ColumnsAgree' /\ ReopenedOnEvidence' /\ SlotsSound' /\ ChainSeen'
<1> USE DEF EvidenceInv, columns, nodeVars, wallets
<1>1. SlotSound(r)
  BY DEF SlotsSound
<1>2. CASE AcceptTx(r)
  <2>1. HistoryKept
    BY <1>2, Unmoved DEF AcceptTx
  <2>2. ColumnsAgree' /\ ReopenedOnEvidence'
    BY <1>2, <2>1, ColumnsKept DEF AcceptTx
  <2>3. OtherSlotsKept(r) /\ SlotSound(r)'
    BY <1>1, <1>2 DEF AcceptTx, Goto, OtherSlotsKept, SlotSound, TypeOK
  <2>4. ChainSeen'
    <3>1. \A t \in Txs : node'[t] = "confirmed" => node[t] = "confirmed"
      BY <1>2 DEF AcceptTx
    <3> QED
      BY <1>2, <3>1 DEF AcceptTx, ChainSeen
  <2> QED
    BY <2>1, <2>2, <2>3, <2>4, OneSlotMoves
<1>3. CASE RefuseTx(r)
  <2>1. HistoryKept
    BY <1>3, Unmoved DEF RefuseTx
  <2> QED
    BY <1>3, <2>1, ColumnsKept, SeenKept, RestIsSound, OneSlotMoves DEF RefuseTx
<1>4. CASE MarkBroadcast(r)
  <2>1. HistoryKept
    BY <1>4 DEF MarkBroadcast, HistoryKept, TypeOK
  <2>2. ColumnsAgree' /\ ReopenedOnEvidence'
    BY <1>4, <2>1, ColumnsKept DEF MarkBroadcast
  <2>3. OtherSlotsKept(r) /\ SlotSound(r)'
    BY <1>1, <1>4 DEF MarkBroadcast, Goto, OtherSlotsKept, SlotSound, TypeOK
  <2> QED
    BY <1>4, <2>1, <2>2, <2>3, OneSlotMoves, SeenKept DEF MarkBroadcast
<1>5. CASE Lookup(r)
  <2>1. HistoryKept
    BY <1>5, Unmoved DEF Lookup
  <2>2. ColumnsAgree' /\ ReopenedOnEvidence'
    BY <1>5, <2>1, ColumnsKept DEF Lookup
  <2>3. OtherSlotsKept(r) /\ SlotSound(r)'
    <3>1. CASE Finish(r)
      BY <3>1, RestIsSound
    <3>2. CASE /\ Goto(r, "enact") \/ Goto(r, "complete")
               /\ proposal[request[r].tx].kind \in SweepKinds
      <4>1. request[r].tx \in SentSweeps
        BY <1>1, <1>5, <3>2 DEF Lookup, SlotSound, SentSweeps
      <4>2. request[r].tx \in SentSweeps'
        BY <2>1, <4>1, SentStaySent
      <4>3. ~request[r].seen
        BY <1>1, <1>5 DEF Lookup, SlotSound, TypeOK, Request
      <4>4. /\ request'[r].step \in {"enact", "complete"}
            /\ request'[r].tx = request[r].tx
            /\ request'[r].seen = request[r].seen
        BY <3>2 DEF Goto, TypeOK, Request
      <4>5. SlotSound(r)'
        BY <4>2, <4>3, <4>4 DEF SlotSound
      <4>6. OtherSlotsKept(r)
        BY <3>2 DEF Goto, OtherSlotsKept, TypeOK
      <4> QED
        BY <4>5, <4>6
    <3> QED
      BY <1>5, <3>1, <3>2 DEF Lookup, SweepKinds
  <2> QED
    BY <1>5, <2>1, <2>2, <2>3, OneSlotMoves, SeenKept DEF Lookup
<1>6. CASE Enact(r)
  <2>1. HistoryKept
    BY <1>6, Unmoved DEF Enact
  <2>2. ColumnsAgree' /\ ReopenedOnEvidence'
    BY <1>6, <2>1, ColumnsKept DEF Enact
  <2>3. OtherSlotsKept(r) /\ SlotSound(r)'
    BY <1>1, <1>6, <2>1, SentStaySent
       DEF Enact, Goto, OtherSlotsKept, SlotSound, TypeOK
  <2> QED
    BY <1>6, <2>1, <2>2, <2>3, OneSlotMoves, SeenKept DEF Enact
<1>7. CASE CompleteMigration(r)
  <2>1. HistoryKept
    BY <1>7, Unmoved DEF CompleteMigration
  <2>2. request[r].tx \in SentSweeps'
    BY <1>1, <1>7, <2>1, SentStaySent DEF CompleteMigration, SlotSound
  <2>3. ColumnsAgree'
    BY <1>7, <2>2, ReconcileAssumption DEF CompleteMigration, ColumnsAgree, SentSweeps
  <2>4. ReopenedOnEvidence'
    BY <1>7, <2>1, SentStaySent DEF CompleteMigration, ReopenedOnEvidence, HistoryKept
  <2> QED
    BY <1>7, <2>1, <2>3, <2>4, RestIsSound, OneSlotMoves, SeenKept DEF CompleteMigration
<1> QED
  BY <1>2, <1>3, <1>4, <1>5, <1>6, <1>7 DEF Broadcasting

\* A read of a wallet's graph finds only confirmations the chain has had.
LEMMA ReadGraphEvidence ==
  ASSUME EvidenceInv, NEW r \in Requests, NEW w \in Wallets,
         NEW step \in {"readBase", "readCurrent"}, NEW next \in {"readCurrent", "write"},
         ReadGraph(r, step, w, next)
  PROVE  ColumnsAgree' /\ ReopenedOnEvidence' /\ SlotsSound' /\ ChainSeen'
<1> USE DEF EvidenceInv, columns, nodeVars, wallets
<1> DEFINE found == graph[w][request[r].tx] = "confirmed"
           read  == [request[r] EXCEPT !.step = next, !.seen = @ \/ found]
<1>1. SlotSound(r)
  BY DEF SlotsSound
<1>2. HistoryKept
  BY Unmoved DEF ReadGraph
<1>3. request' = [request EXCEPT ![r] = read]
  BY DEF ReadGraph
<1>4. request[r].tx \in SentSweeps'
  BY <1>1, <1>2, SentStaySent DEF ReadGraph, SlotSound
<1>5. request[r].tx \in Txs
  BY <1>4 DEF SentSweeps
<1>6. found => request[r].tx \in everConfirmed
  BY <1>5 DEF ChainSeen
<1>7. request'[r] = read
  BY <1>3 DEF TypeOK
<1>8. /\ read.step = next
      /\ read.tx = request[r].tx
      /\ read.seen = (request[r].seen \/ found)
  <2>1. request[r] \in Request
    BY DEF TypeOK
  <2> QED
    BY <2>1 DEF Request
<1>9. read.seen => request[r].tx \in everConfirmed'
  BY <1>1, <1>2, <1>6, <1>8 DEF SlotSound, HistoryKept
<1>10. SlotSound(r)'
  <2> HIDE DEF read
  <2> QED
    BY <1>4, <1>7, <1>8, <1>9 DEF SlotSound
<1>11. OtherSlotsKept(r)
  BY <1>3 DEF OtherSlotsKept, TypeOK
<1> QED
  BY <1>2, <1>10, <1>11, OneSlotMoves, ColumnsKept, SeenKept DEF ReadGraph

\* The statements of a sync pass keep the columns backed.
LEMMA ReconcilingEvidence ==
  ASSUME EvidenceInv, NEW r \in Requests, Reconciling(r)
  PROVE  ColumnsAgree' /\ ReopenedOnEvidence' /\ SlotsSound' /\ ChainSeen'
<1> USE DEF EvidenceInv, columns, nodeVars, wallets
<1>1. SlotSound(r)
  BY DEF SlotsSound
<1>2. HistoryKept
  <2>1. UNCHANGED <<proposal, everConfirmed>>
    BY DEF Reconciling, SyncBase, SyncCurrent, LoadCandidate, ReadBase, ReadCurrent,
           ReadGraph, Latch, Revert, LeaveAlone
  <2> QED
    BY <2>1, Unmoved
<1>3. CASE SyncBase(r)
  <2>1. ~request[r].seen
    BY <1>1, <1>3 DEF SyncBase, SlotSound
  <2> QED
    BY <1>1, <1>2, <1>3, <2>1, ColumnsKept, ReadIsSeen, GotoIsSound, OneSlotMoves
       DEF SyncBase, Wallets
<1>4. CASE SyncCurrent(r)
  <2>1. ~request[r].seen
    BY <1>1, <1>4 DEF SyncCurrent, SlotSound
  <2> QED
    BY <1>1, <1>2, <1>4, <2>1, ColumnsKept, ReadIsSeen, GotoIsSound, OneSlotMoves
       DEF SyncCurrent, Wallets
<1>5. CASE LoadCandidate(r)
  <2>1. OtherSlotsKept(r) /\ SlotSound(r)'
    <3>1. CASE Finish(r)
      BY <3>1, RestIsSound
    <3>2. CASE ~Finish(r)
      <4>1. /\ sweepTxid # NoTx
            /\ request' = [request EXCEPT ![r] =
                 [@ EXCEPT !.step = "readBase", !.tx = sweepTxid, !.wasLatched = latched]]
        BY <1>5, <3>2 DEF LoadCandidate
      <4>2. sweepTxid \in SentSweeps'
        BY <1>2, <4>1, SentStaySent DEF ColumnsAgree
      <4>3. ~request[r].seen
        BY <1>1, <1>5 DEF LoadCandidate, SlotSound
      <4>4. /\ request'[r].step = "readBase"
            /\ request'[r].tx = sweepTxid
            /\ request'[r].seen = request[r].seen
        BY <4>1 DEF TypeOK, Request
      <4>5. SlotSound(r)'
        BY <4>2, <4>3, <4>4 DEF SlotSound
      <4>6. OtherSlotsKept(r)
        BY <4>1 DEF OtherSlotsKept, TypeOK
      <4> QED
        BY <4>5, <4>6
    <3> QED
      BY <3>1, <3>2
  <2> QED
    BY <1>2, <1>5, <2>1, ColumnsKept, SeenKept, OneSlotMoves DEF LoadCandidate
<1>6. CASE ReadBase(r) \/ ReadCurrent(r)
  BY <1>6, ReadGraphEvidence DEF ReadBase, ReadCurrent, Wallets
<1>7. CASE Latch(r)
  <2>1. request[r].tx \in SentSweeps /\ request[r].tx \in everConfirmed
    BY <1>1, <1>7 DEF Latch, SlotSound
  <2>2. SentSweeps' \cap everConfirmed' # {}
    BY <1>2, <2>1, SentStaySent DEF HistoryKept
  <2>3. ColumnsAgree'
    BY <1>2, <1>7, SentStaySent DEF Latch, Recorded, ColumnsAgree
  <2>4. ReopenedOnEvidence'
    BY <2>2 DEF ReopenedOnEvidence
  <2> QED
    BY <1>2, <1>7, <2>3, <2>4, RestIsSound, OneSlotMoves, SeenKept DEF Latch
<1>8. CASE Revert(r)
  <2>1. ColumnsAgree'
    BY <1>2, <1>8, SentStaySent DEF Revert, Recorded, ColumnsAgree
  <2>2. ReopenedOnEvidence'
    BY <1>2, <1>8, SentStaySent DEF Revert, Recorded, ReopenedOnEvidence, HistoryKept
  <2> QED
    BY <1>2, <1>8, <2>1, <2>2, RestIsSound, OneSlotMoves, SeenKept DEF Revert
<1>9. CASE LeaveAlone(r)
  BY <1>2, <1>9, ColumnsKept, SeenKept, RestIsSound, OneSlotMoves DEF LeaveAlone
<1> QED
  BY <1>3, <1>4, <1>5, <1>6, <1>7, <1>8, <1>9 DEF Reconciling

\* The statements of a resweep request keep the columns backed.
LEMMA ResweepingEvidence ==
  ASSUME EvidenceInv, NEW r \in Requests, Resweeping(r)
  PROVE  ColumnsAgree' /\ ReopenedOnEvidence' /\ SlotsSound' /\ ChainSeen'
<1> USE DEF EvidenceInv, columns, nodeVars, wallets
<1>1. SlotSound(r)
  BY DEF SlotsSound
<1>2. ~request[r].seen
  BY <1>1 DEF Resweeping, ResyncBase, BuildResweep, EvictCache, InsertResweep, SlotSound
<1>3. CASE ResyncBase(r)
  <2>1. HistoryKept
    BY <1>3, Unmoved DEF ResyncBase
  <2> QED
    BY <1>1, <1>2, <1>3, <2>1, ColumnsKept, ReadIsSeen, GotoIsSound, OneSlotMoves
       DEF ResyncBase, Wallets
<1>4. CASE BuildResweep(r)
  <2>1. HistoryKept
    BY <1>4, Unmoved DEF BuildResweep
  <2>2. OtherSlotsKept(r) /\ SlotSound(r)'
    <3>1. CASE Finish(r)
      BY <3>1, RestIsSound
    <3>2. CASE request' = [request EXCEPT ![r] =
                 [@ EXCEPT !.step = "evict", !.inputs = Spendable(hidden')]]
      <4>1. request'[r].step = "evict" /\ request'[r].seen = request[r].seen
        BY <3>2 DEF TypeOK, Request
      <4>2. SlotSound(r)'
        BY <1>2, <4>1 DEF SlotSound
      <4>3. OtherSlotsKept(r)
        BY <3>2 DEF OtherSlotsKept, TypeOK
      <4> QED
        BY <4>2, <4>3
    <3> QED
      BY <1>4, <3>1, <3>2 DEF BuildResweep
  <2> QED
    BY <1>4, <2>1, <2>2, ColumnsKept, SeenKept, OneSlotMoves DEF BuildResweep
<1>5. CASE EvictCache(r)
  <2>1. HistoryKept
    BY <1>5, Unmoved DEF EvictCache
  <2> QED
    BY <1>1, <1>2, <1>5, <2>1, ColumnsKept, SeenKept, GotoIsSound, OneSlotMoves DEF EvictCache
<1>6. CASE InsertResweep(r)
  <2>1. HistoryKept
    BY <1>6, InsertKeepsHistory DEF InsertResweep
  <2> QED
    BY <1>6, <2>1, ColumnsKept, SeenKept, RestIsSound, OneSlotMoves DEF InsertResweep
<1> QED
  BY <1>3, <1>4, <1>5, <1>6 DEF Resweeping

\* A request that arrives, or is abandoned, changes no column.
LEMMA RequestEvidence ==
  ASSUME EvidenceInv, NEW r \in Requests, Receive(r) \/ Stop(r)
  PROVE  ColumnsAgree' /\ ReopenedOnEvidence' /\ SlotsSound' /\ ChainSeen'
<1> USE DEF EvidenceInv, columns, nodeVars, wallets
<1>1. HistoryKept
  <2>1. UNCHANGED <<proposal, everConfirmed>>
    BY DEF Receive, RequestPass, RequestResweep, RequestBroadcast, Stop
  <2> QED
    BY <2>1, Unmoved
<1>2. OtherSlotsKept(r) /\ SlotSound(r)'
  <2>1. CASE RequestPass(r) \/ RequestResweep(r)
    BY <2>1, StartIsSound DEF RequestPass, RequestResweep
  <2>2. ASSUME NEW t \in Txs, RequestBroadcast(r, t)
        PROVE  OtherSlotsKept(r) /\ SlotSound(r)'
    <3>1. request'[r].step = "send" /\ request'[r].tx = t /\ request'[r].seen = FALSE
      BY <2>2 DEF RequestBroadcast, Start, Idle, TypeOK
    <3>2. proposal'[t].kind # "none"
      BY <2>2 DEF RequestBroadcast
    <3>3. SlotSound(r)'
      BY <3>1, <3>2 DEF SlotSound
    <3>4. OtherSlotsKept(r)
      BY <2>2 DEF RequestBroadcast, Start, OtherSlotsKept, TypeOK
    <3> QED
      BY <3>3, <3>4
  <2>3. CASE Stop(r)
    BY <2>3, RestIsSound DEF Stop
  <2> QED
    BY <2>1, <2>2, <2>3 DEF Receive
<1>3. UNCHANGED columns /\ UNCHANGED <<node, graph, everConfirmed>>
  BY DEF Receive, RequestPass, RequestResweep, RequestBroadcast, Stop
<1> QED
  BY <1>1, <1>2, <1>3, ColumnsKept, SeenKept, OneSlotMoves

\* The columns, the slots and what the wallets know of the chain stay backed by
\* what was sent and mined.
LEMMA EvidenceHolds == Spec => []EvidenceInv
<1>1. Init => EvidenceInv
  <2> SUFFICES ASSUME Init
               PROVE  EvidenceInv
    OBVIOUS
  <2>1. TypeOK
    BY InitType
  <2>2. ColumnsAgree /\ ReopenedOnEvidence
    BY DEF Init, ColumnsAgree, ReopenedOnEvidence
  <2>3. SlotsSound
    BY DEF Init, SlotsSound, SlotSound, Idle
  <2>4. ChainSeen
    BY DEF Init, ChainSeen
  <2> QED
    BY <2>1, <2>2, <2>3, <2>4 DEF EvidenceInv
<1>2. EvidenceInv /\ [Next]_vars => EvidenceInv'
  <2> SUFFICES ASSUME EvidenceInv, [Next]_vars
               PROVE  ColumnsAgree' /\ ReopenedOnEvidence' /\ SlotsSound' /\ ChainSeen'
    BY TypeStep DEF EvidenceInv
  <2> USE DEF EvidenceInv, columns, nodeVars, wallets
  <2>1. ASSUME NEW t \in Txs, Mine(t) \/ Reorg(t)
        PROVE  ColumnsAgree' /\ ReopenedOnEvidence' /\ SlotsSound' /\ ChainSeen'
    <3>1. HistoryKept
      BY <2>1 DEF Mine, Reorg, HistoryKept
    <3>2. SlotsSound'
      BY <2>1, <3>1, SlotKept DEF Mine, Reorg, SlotsSound
    <3>3. \A u \in Txs : node'[u] = "confirmed" => u \in everConfirmed'
      BY <2>1 DEF Mine, Reorg, ChainSeen, TypeOK
    <3>4. ChainSeen'
      BY <2>1, <3>1, <3>3 DEF Mine, Reorg, ChainSeen, HistoryKept
    <3> QED
      BY <2>1, <3>1, <3>2, <3>4, ColumnsKept DEF Mine, Reorg
  <2>2. ASSUME NEW t \in Txs, ProposeRelay(t)
        PROVE  ColumnsAgree' /\ ReopenedOnEvidence' /\ SlotsSound' /\ ChainSeen'
    <3>1. HistoryKept
      BY <2>2, InsertKeepsHistory DEF ProposeRelay
    <3>2. SlotsSound'
      BY <2>2, <3>1, SlotKept DEF ProposeRelay, SlotsSound
    <3> QED
      BY <2>2, <3>1, <3>2, ColumnsKept, SeenKept DEF ProposeRelay
  <2>3. ASSUME NEW w \in Wallets, SyncWallet(w)
        PROVE  ColumnsAgree' /\ ReopenedOnEvidence' /\ SlotsSound' /\ ChainSeen'
    <3>1. HistoryKept
      BY <2>3, Unmoved DEF SyncWallet
    <3>2. SlotsSound'
      BY <2>3, <3>1, SlotKept DEF SyncWallet, SlotsSound
    <3> QED
      BY <2>3, <3>1, <3>2, ColumnsKept, ReadIsSeen DEF SyncWallet
  <2>4. ASSUME (\E k \in Late : Deposit(k)) \/ UNCHANGED vars
        PROVE  ColumnsAgree' /\ ReopenedOnEvidence' /\ SlotsSound' /\ ChainSeen'
    <3>1. UNCHANGED <<columns, proposal, everConfirmed, node, graph, request>>
      BY <2>4 DEF Deposit, vars
    <3>2. HistoryKept
      BY <3>1, Unmoved
    <3>3. SlotsSound'
      BY <3>1, <3>2, SlotKept DEF SlotsSound
    <3> QED
      BY <3>1, <3>2, <3>3, ColumnsKept, SeenKept
  <2>5. CASE Restart
    <3>1. HistoryKept
      BY <2>5, Unmoved DEF Restart
    <3>2. SlotsSound'
      BY <2>5 DEF Restart, Idle, SlotsSound, SlotSound
    <3> QED
      BY <2>5, <3>1, <3>2, ColumnsKept, SeenKept DEF Restart
  <2> QED
    BY <2>1, <2>2, <2>3, <2>4, <2>5, BroadcastingEvidence, ReconcilingEvidence,
       ResweepingEvidence, RequestEvidence DEF Next
<1> QED
  BY <1>1, <1>2, PTL DEF Spec

\* The three columns never contradict one another, and record only sweeps that
\* the broadcast handler has marked as sent.
THEOREM ColumnsNeverDisagree == Spec => []ColumnsAgree
<1>1. EvidenceInv => ColumnsAgree
  BY DEF EvidenceInv
<1> QED
  BY <1>1, EvidenceHolds, PTL

\* A version is reopened only after a sweep that was sent has been in a block.
THEOREM ReopeningHasEvidence == Spec => []ReopenedOnEvidence
<1>1. EvidenceInv => ReopenedOnEvidence
  BY DEF EvidenceInv
<1> QED
  BY <1>1, EvidenceHolds, PTL

-----------------------------------------------------------------------------
(* Passes that nothing disturbs                                             *)

Reading == {"readBase", "readCurrent", "write"}
Settled == migrationStatus = "complete" => (latched <=> node[sweepTxid] = "confirmed")

\* As long as nothing moves, what a pass has synced is where the node stands, and
\* what it has loaded and read is what the columns and that chain say; once it has
\* ended the columns are settled, whatever its slot is used for next.
CalmSound(r) ==
  LET q == request[r]
  IN  /\ q.step \notin {"mark", "lookup", "enact", "complete"}
      /\ q.step \in Reading \cup {"syncCurrent", "load"} => graph["base"] = node
      /\ q.step \in Reading \cup {"load"} => graph["current"] = node
      /\ q.step \in Reading =>
           migrationStatus = "complete" /\ q.tx = sweepTxid /\ (q.wasLatched <=> latched)
      /\ q.step = "readBase" => ~q.seen
      /\ q.step \in {"readCurrent", "write"} => (q.seen <=> node[q.tx] = "confirmed")
      /\ q.step \in {"idle", "send", "resync", "build", "evict", "insert"} => Settled
PassInv == \A r \in calm : CalmSound(r)

\* A slot that does not move, while neither the chain nor the columns do.
LEMMA StaysCalm ==
  ASSUME TypeOK, NEW r, CalmSound(r), request'[r] = request[r], UNCHANGED <<columns, node>>,
         graph' = graph \/ \E w \in Wallets : graph' = Read(w)
  PROVE  CalmSound(r)'
<1>1. \A w \in Wallets : graph[w] = node => graph'[w] = node'
  BY DEF Read, TypeOK
<1>2. "base" \in Wallets /\ "current" \in Wallets
  BY DEF Wallets
<1> QED
  BY <1>1, <1>2 DEF CalmSound, Settled, columns

\* One slot moves, and nothing that the others rely on does.
LEMMA OneMovesCalmly ==
  ASSUME TypeOK, PassInv, NEW r, OtherSlotsKept(r), calm' \subseteq calm \cup {r},
         UNCHANGED <<columns, node>>,
         graph' = graph \/ \E w \in Wallets : graph' = Read(w),
         r \in calm' => CalmSound(r)'
  PROVE  PassInv'
<1>1. ASSUME NEW q \in calm', q # r
      PROVE  CalmSound(q)'
  <2>1. CalmSound(q) /\ request'[q] = request[q]
    BY <1>1 DEF PassInv, OtherSlotsKept, TypeOK
  <2> QED
    BY <2>1, StaysCalm
<1> QED
  BY <1>1 DEF PassInv

\* Only the slot that wrote the columns still calls them undisturbed.
LEMMA OneIsLeftCalm ==
  ASSUME NEW r, calm' \subseteq {r}, r \in calm' => CalmSound(r)'
  PROVE  PassInv'
  BY DEF PassInv

LEMMA GotoSlot ==
  ASSUME TypeOK, NEW r \in Requests, NEW step, Goto(r, step)
  PROVE  /\ OtherSlotsKept(r) /\ request'[r].step = step
         /\ request'[r].tx = request[r].tx /\ request'[r].seen = request[r].seen
  BY DEF Goto, OtherSlotsKept, TypeOK, Request

LEMMA RestSlot ==
  ASSUME TypeOK, NEW r \in Requests, Finish(r)
  PROVE  OtherSlotsKept(r) /\ request'[r].step = "idle"
  BY DEF Finish, Idle, OtherSlotsKept, TypeOK

\* A slot at a statement that comes after its pass.
LEMMA RestIsCalm ==
  ASSUME NEW r, request'[r].step \in {"idle", "send", "resync", "build", "evict", "insert"},
         Settled'
  PROVE  CalmSound(r)'
  BY DEF CalmSound, Reading

LEMMA StillSettled ==
  ASSUME PassInv, NEW r \in calm,
         request[r].step \in {"idle", "send", "resync", "build", "evict", "insert"},
         UNCHANGED <<columns, node>>
  PROVE  Settled'
  BY DEF PassInv, CalmSound, Settled, columns

LEMMA BroadcastingCalm ==
  ASSUME TypeOK, PassInv, NEW r \in Requests, Broadcasting(r)
  PROVE  PassInv'
<1>1. CASE AcceptTx(r) \/ CompleteMigration(r)
  BY <1>1, OneIsLeftCalm DEF AcceptTx, CompleteMigration
<1>2. CASE RefuseTx(r)
  <2>1. /\ UNCHANGED <<columns, node, graph, calm>> /\ request[r].step = "send"
        /\ OtherSlotsKept(r) /\ request'[r].step = "idle"
    BY <1>2, RestSlot DEF RefuseTx, nodeVars, wallets
  <2>2. r \in calm' => CalmSound(r)'
    BY <2>1, StillSettled, RestIsCalm
  <2> QED
    BY <2>1, <2>2, OneMovesCalmly
<1>3. CASE MarkBroadcast(r) \/ Lookup(r) \/ Enact(r)
  <2>1. /\ UNCHANGED <<columns, node, graph, calm>>
        /\ request[r].step \in {"mark", "lookup", "enact"}
    BY <1>3 DEF MarkBroadcast, Lookup, Enact, nodeVars, wallets
  <2>2. OtherSlotsKept(r)
    <3>1. Finish(r) \/ \E step : Goto(r, step)
      BY <1>3 DEF MarkBroadcast, Lookup, Enact
    <3> QED
      BY <3>1, RestSlot, GotoSlot
  <2>3. r \notin calm'
    BY <2>1 DEF PassInv, CalmSound
  <2> QED
    BY <2>1, <2>2, <2>3, OneMovesCalmly
<1> QED
  BY <1>1, <1>2, <1>3 DEF Broadcasting

LEMMA ReadGraphCalm ==
  ASSUME TypeOK, PassInv, NEW r \in Requests, NEW w \in Wallets,
         \/ ReadGraph(r, "readBase", w, "readCurrent") /\ w = "base"
         \/ ReadGraph(r, "readCurrent", w, "write") /\ w = "current"
  PROVE  PassInv'
<1> DEFINE found == graph[w][request[r].tx] = "confirmed"
           next == IF w = "base" THEN "readCurrent" ELSE "write"
           read == [request[r] EXCEPT !.step = next, !.seen = @ \/ found]
<1>1. /\ request' = [request EXCEPT ![r] = read] /\ UNCHANGED <<columns, node, graph, calm>>
      /\ request[r].step = IF w = "base" THEN "readBase" ELSE "readCurrent"
  BY DEF ReadGraph, nodeVars, wallets
<1>2. /\ read.step = next /\ read.tx = request[r].tx /\ read.wasLatched = request[r].wasLatched
      /\ read.seen <=> request[r].seen \/ found
  BY DEF TypeOK, Request
<1> HIDE DEF read
<1>3. request'[r] = read /\ OtherSlotsKept(r)
  BY <1>1 DEF OtherSlotsKept, TypeOK
<1>4. ASSUME r \in calm
      PROVE  CalmSound(r)'
  <2>1. CalmSound(r)
    BY <1>4 DEF PassInv
  <2>2. /\ graph["base"] = node /\ graph["current"] = node
        /\ migrationStatus = "complete" /\ request[r].tx = sweepTxid
        /\ request[r].wasLatched <=> latched
    BY <1>1, <2>1 DEF CalmSound, Reading
  <2>3. read.seen <=> node[request[r].tx] = "confirmed"
    <3>1. CASE w = "base"
      BY <1>1, <1>2, <2>1, <2>2, <3>1 DEF CalmSound
    <3>2. CASE w # "base"
      BY <1>1, <1>2, <2>1, <2>2, <3>2 DEF CalmSound, Wallets
    <3> QED
      BY <3>1, <3>2
  <2> QED
    BY <1>1, <1>2, <1>3, <2>2, <2>3 DEF CalmSound, Reading, columns
<1> QED
  BY <1>1, <1>3, <1>4, OneMovesCalmly

\* The statements of a pass.
LEMMA ReconcilingCalm ==
  ASSUME EvidenceInv, PassInv, NEW r \in Requests, Reconciling(r)
  PROVE  PassInv'
<1>1. TypeOK /\ ColumnsAgree /\ SlotSound(r)
  BY DEF EvidenceInv, SlotsSound
<1>2. CASE SyncBase(r)
  <2>1. /\ UNCHANGED <<columns, node, calm>> /\ graph' = Read("base")
        /\ OtherSlotsKept(r) /\ request'[r].step = "syncCurrent"
    BY <1>1, <1>2, GotoSlot DEF SyncBase, nodeVars
  <2>2. graph'["base"] = node'
    BY <1>1, <2>1 DEF Read, TypeOK, Wallets
  <2>3. CalmSound(r)'
    BY <2>1, <2>2 DEF CalmSound, Reading
  <2> QED
    BY <1>1, <2>1, <2>3, OneMovesCalmly DEF Wallets
<1>3. CASE SyncCurrent(r)
  <2>1. /\ UNCHANGED <<columns, node, calm>> /\ graph' = Read("current")
        /\ OtherSlotsKept(r) /\ request'[r].step = "load" /\ request[r].step = "syncCurrent"
    BY <1>1, <1>3, GotoSlot DEF SyncCurrent, nodeVars
  <2>2. graph'["current"] = node' /\ graph'["base"] = graph["base"]
    BY <1>1, <2>1 DEF Read, TypeOK, Wallets
  <2>3. r \in calm' => CalmSound(r)'
    BY <2>1, <2>2 DEF PassInv, CalmSound, Reading
  <2> QED
    BY <1>1, <2>1, <2>3, OneMovesCalmly DEF Wallets
<1>4. CASE LoadCandidate(r)
  <2> DEFINE candidate == migrationStatus = "complete" /\ sweepTxid # NoTx
             loaded == [request[r] EXCEPT !.step = "readBase", !.tx = sweepTxid,
                                          !.wasLatched = latched]
  <2>1. /\ UNCHANGED <<columns, node, graph, calm>> /\ request[r].step = "load"
        /\ \/ candidate /\ request' = [request EXCEPT ![r] = loaded]
           \/ ~candidate /\ Finish(r)
    BY <1>4 DEF LoadCandidate, nodeVars, wallets
  <2>2. ~request[r].seen
    BY <1>1, <2>1 DEF SlotSound
  <2>3. CASE candidate /\ request' = [request EXCEPT ![r] = loaded]
    <3>1. /\ loaded.step = "readBase" /\ loaded.tx = sweepTxid
          /\ loaded.wasLatched = latched /\ loaded.seen = request[r].seen
      BY <1>1 DEF TypeOK, Request
    <3> HIDE DEF loaded
    <3>2. request'[r] = loaded /\ OtherSlotsKept(r)
      BY <1>1, <2>3 DEF OtherSlotsKept, TypeOK
    <3>3. r \in calm' => CalmSound(r)'
      BY <2>1, <2>2, <2>3, <3>1, <3>2 DEF PassInv, CalmSound, Reading, columns
    <3> QED
      BY <1>1, <2>1, <3>2, <3>3, OneMovesCalmly
  <2>4. CASE ~candidate /\ Finish(r)
    <3>1. Settled'
      BY <1>1, <2>1, <2>4 DEF Settled, ColumnsAgree, columns
    <3> QED
      BY <1>1, <2>1, <2>4, <3>1, RestSlot, RestIsCalm, OneMovesCalmly
  <2> QED
    BY <2>1, <2>3, <2>4
<1>5. CASE ReadBase(r) \/ ReadCurrent(r)
  BY <1>1, <1>5, ReadGraphCalm DEF ReadBase, ReadCurrent, Wallets
<1>6. ASSUME Latch(r) \/ Revert(r) \/ LeaveAlone(r)
      PROVE  PassInv'
  <2>1. /\ OtherSlotsKept(r) /\ request'[r].step = "idle" /\ UNCHANGED <<node, graph>>
        /\ request[r].step = "write"
    BY <1>1, <1>6, RestSlot DEF Latch, Revert, LeaveAlone, nodeVars, wallets
  <2>2. ASSUME r \in calm
        PROVE  Settled'
    <3>1. CalmSound(r)
      BY <2>2 DEF PassInv
    <3>2. /\ migrationStatus = "complete" /\ request[r].tx = sweepTxid
          /\ request[r].wasLatched <=> latched
          /\ request[r].seen <=> node[sweepTxid] = "confirmed"
      BY <2>1, <3>1 DEF CalmSound, Reading
    <3>3. Recorded(r)
      BY <3>2 DEF Recorded
    <3>4. CASE Latch(r)
      BY <2>1, <3>2, <3>3, <3>4 DEF Latch, Settled
    <3>5. CASE Revert(r)
      BY <3>2, <3>3, <3>5 DEF Revert, Settled
    <3>6. CASE LeaveAlone(r)
      BY <2>1, <3>2, <3>6 DEF LeaveAlone, Settled, columns
    <3> QED
      BY <1>6, <3>4, <3>5, <3>6
  <2>3. calm' \subseteq calm
    BY <1>6 DEF Latch, Revert, LeaveAlone
  <2>4. r \in calm' => CalmSound(r)'
    BY <2>1, <2>2, <2>3, RestIsCalm
  <2>5. UNCHANGED columns \/ calm' \subseteq {r}
    BY <1>6 DEF Latch, Revert, LeaveAlone, columns
  <2> QED
    BY <1>1, <2>1, <2>3, <2>4, <2>5, OneMovesCalmly, OneIsLeftCalm
<1> QED
  BY <1>2, <1>3, <1>4, <1>5, <1>6 DEF Reconciling

\* The statements of a resweep: they come after the slot's last pass.
LEMMA ResweepingCalm ==
  ASSUME TypeOK, PassInv, NEW r \in Requests, Resweeping(r)
  PROVE  PassInv'
<1>1. /\ UNCHANGED <<columns, node, calm>>
      /\ graph' = graph \/ graph' = Read("base")
      /\ request[r].step \in {"resync", "build", "evict", "insert"}
  BY DEF Resweeping, ResyncBase, BuildResweep, EvictCache, InsertResweep, nodeVars, wallets
<1>2. OtherSlotsKept(r) /\ request'[r].step \in {"idle", "build", "evict", "insert"}
  <2>1. CASE Finish(r) \/ Goto(r, "build") \/ Goto(r, "insert")
    BY <2>1, RestSlot, GotoSlot
  <2>2. ASSUME NEW inputs, request' = [request EXCEPT ![r] =
                             [@ EXCEPT !.step = "evict", !.inputs = inputs]]
        PROVE  OtherSlotsKept(r) /\ request'[r].step = "evict"
    BY <2>2 DEF OtherSlotsKept, TypeOK, Request
  <2>3. \/ Finish(r) \/ Goto(r, "build") \/ Goto(r, "insert")
        \/ \E inputs : request' = [request EXCEPT ![r] =
                         [@ EXCEPT !.step = "evict", !.inputs = inputs]]
    BY DEF Resweeping, ResyncBase, BuildResweep, EvictCache, InsertResweep
  <2> QED
    BY <2>1, <2>2, <2>3
<1>3. r \in calm' => CalmSound(r)'
  BY <1>1, <1>2, StillSettled, RestIsCalm
<1> QED
  BY <1>1, <1>2, <1>3, OneMovesCalmly DEF Wallets

LEMMA RequestCalm ==
  ASSUME TypeOK, PassInv, NEW r \in Requests, Receive(r) \/ Stop(r)
  PROVE  PassInv'
<1>1. UNCHANGED <<columns, node, graph>>
  BY DEF Receive, RequestPass, RequestResweep, RequestBroadcast, Stop, nodeVars, wallets
<1>2. ASSUME NEW step, NEW tx, Start(r, step, tx)
      PROVE  OtherSlotsKept(r) /\ request'[r].step = step /\ request[r].step = "idle"
  BY <1>2 DEF Start, Free, Idle, OtherSlotsKept, TypeOK
<1>3. CASE RequestPass(r)
  <2>1. /\ OtherSlotsKept(r) /\ request'[r].step = "syncBase" /\ calm' = calm \cup {r}
    BY <1>2, <1>3 DEF RequestPass
  <2>2. CalmSound(r)'
    BY <2>1 DEF CalmSound, Reading
  <2> QED
    BY <1>1, <2>1, <2>2, OneMovesCalmly
<1>4. CASE RequestResweep(r) \/ \E t \in Txs : RequestBroadcast(r, t)
  <2>1. /\ OtherSlotsKept(r) /\ request'[r].step \in {"resync", "send"} /\ UNCHANGED calm
        /\ request[r].step = "idle"
    BY <1>2, <1>4 DEF RequestResweep, RequestBroadcast
  <2>2. r \in calm' => CalmSound(r)'
    BY <1>1, <2>1, StillSettled, RestIsCalm
  <2> QED
    BY <1>1, <2>1, <2>2, OneMovesCalmly
<1>5. CASE Stop(r)
  <2>1. OtherSlotsKept(r) /\ calm' = calm \ {r}
    BY <1>5, RestSlot DEF Stop
  <2> QED
    BY <1>1, <2>1, OneMovesCalmly
<1> QED
  BY <1>3, <1>4, <1>5 DEF Receive

LEMMA PassesHold == Spec => []PassInv
<1>1. Init => PassInv
  BY DEF Init, PassInv
<1>2. EvidenceInv /\ PassInv /\ [Next]_vars => PassInv'
  <2> SUFFICES ASSUME EvidenceInv, PassInv, [Next]_vars
               PROVE  PassInv'
    OBVIOUS
  <2>1. TypeOK
    BY DEF EvidenceInv
  <2>2. ASSUME (\E t \in Txs : Mine(t) \/ Reorg(t)) \/ Restart
        PROVE  PassInv'
    BY <2>2 DEF Mine, Reorg, Restart, PassInv
  <2>3. ASSUME \/ \E t \in Txs : ProposeRelay(t)
               \/ \E w \in Wallets : SyncWallet(w)
               \/ \E k \in Late : Deposit(k)
               \/ UNCHANGED vars
        PROVE  PassInv'
    <3>1. /\ UNCHANGED <<columns, node, request, calm>>
          /\ graph' = graph \/ \E w \in Wallets : graph' = Read(w)
      BY <2>3 DEF ProposeRelay, SyncWallet, Deposit, vars, nodeVars, wallets, columns
    <3>2. \A r \in calm' : CalmSound(r)'
      BY <2>1, <3>1, StaysCalm DEF PassInv
    <3> QED
      BY <3>2 DEF PassInv
  <2> QED
    BY <2>1, <2>2, <2>3, BroadcastingCalm, ReconcilingCalm, ResweepingCalm, RequestCalm
       DEF Next
<1> QED
  BY <1>1, <1>2, EvidenceHolds, PTL DEF Spec

\* A sync pass that ends before anything has moved leaves a complete version with
\* its confirmation latched just if its sweep is in a block, however other passes,
\* broadcasts and resweeps were interleaved with it (sync_lineage).
THEOREM PassesSettle == Spec => []PassSettles
<1>1. PassInv => PassSettles
  BY DEF PassInv, CalmSound, PassSettles, Settled, Free
<1> QED
  BY <1>1, PassesHold, PTL

-----------------------------------------------------------------------------
(* One request at a time                                                    *)

\* When handlers are served one at a time and to their end, the columns are a
\* record of sweeps.  That a sweep is given up only after the chain has lost it
\* needs what the pass knows before it reads: a confirmation that was latched, and
\* that the base wallet no longer finds since it was synced, has been lost.
OneAtATime ==
  /\ \A r, s \in Requests : r = s
  /\ ~MayStop

LostIfMissing == latched /\ graph["base"][sweepTxid] # "confirmed" => sweepTxid \in everLost
SlotSerial(r) ==
  LET q == request[r]
  IN  /\ q.step = "enact" => ~enacted
      /\ q.step = "complete" => enacted /\ migrationStatus # "complete"
      /\ q.step \in {"syncCurrent", "load", "readBase"} => LostIfMissing
      /\ q.step \in Reading => q.tx = sweepTxid /\ (q.wasLatched <=> latched)
      /\ q.step \in {"readCurrent", "write"} => (latched /\ ~q.seen => sweepTxid \in everLost)
SerialInv ==
  /\ migrationStatus # "not_applicable" => enacted
  /\ latched => sweepTxid \in everConfirmed
  /\ \A t \in everConfirmed : node[t] # "confirmed" => t \in everLost
  /\ \A r \in Requests : SlotSerial(r)

\* A slot at a statement of which nothing is promised.
LEMMA QuietSlot ==
  ASSUME NEW r,
         request'[r].step \in {"idle", "send", "mark", "lookup", "syncBase", "resync",
                               "build", "evict", "insert"}
  PROVE  SlotSerial(r)'
  BY DEF SlotSerial, Reading

\* A step that moves the one slot and not the columns, the wallets or the chain.
LEMMA SerialKept ==
  ASSUME OneAtATime, SerialInv, NEW r \in Requests, SlotSerial(r)',
         migrationStatus' # "not_applicable" => enacted',
         latched' => sweepTxid' \in everConfirmed', UNCHANGED <<node, everConfirmed, everLost>>
  PROVE  SerialInv'
<1>1. \A q \in Requests : SlotSerial(q)'
  BY DEF OneAtATime
<1> QED
  BY <1>1 DEF SerialInv

LEMMA BroadcastingSerial ==
  ASSUME OneAtATime, EvidenceInv, SerialInv, NEW r \in Requests, Broadcasting(r)
  PROVE  SerialInv'
<1>1. TypeOK /\ ColumnsAgree /\ SlotSerial(r)
  BY DEF EvidenceInv, SerialInv
<1>2. CASE AcceptTx(r)
  <2>1. /\ UNCHANGED <<columns, enacted, everConfirmed, everLost>>
        /\ OtherSlotsKept(r) /\ request'[r].step = "mark"
    BY <1>1, <1>2, GotoSlot DEF AcceptTx
  <2>2. \A t \in Txs : node[t] = "confirmed" => node'[t] = "confirmed"
    BY <1>2 DEF AcceptTx, Conflicts
  <2>3. \A t \in everConfirmed' : node'[t] # "confirmed" => t \in everLost'
    BY <1>1, <2>1, <2>2 DEF SerialInv, TypeOK
  <2>4. \A q \in Requests : SlotSerial(q)'
    BY <2>1, QuietSlot DEF OneAtATime
  <2> QED
    BY <2>1, <2>3, <2>4 DEF SerialInv, columns
<1>3. CASE RefuseTx(r) \/ MarkBroadcast(r)
  <2>1. /\ UNCHANGED <<columns, enacted, node, everConfirmed, everLost>>
        /\ request'[r].step \in {"idle", "lookup"}
    BY <1>1, <1>3, RestSlot, GotoSlot DEF RefuseTx, MarkBroadcast, nodeVars
  <2> QED
    BY <2>1, QuietSlot, SerialKept DEF SerialInv, columns
<1>4. CASE Lookup(r)
  <2>1. UNCHANGED <<columns, enacted, node, everConfirmed, everLost>>
    BY <1>4 DEF Lookup, nodeVars
  <2>2. CASE Finish(r)
    <3>1. SlotSerial(r)'
      BY <1>1, <2>2, RestSlot, QuietSlot
    <3> QED
      BY <2>1, <3>1, SerialKept DEF SerialInv, columns
  <2>3. CASE Goto(r, "enact") /\ ~enacted
    <3>1. SlotSerial(r)'
      BY <1>1, <2>1, <2>3, GotoSlot DEF SlotSerial, Reading
    <3> QED
      BY <2>1, <3>1, SerialKept DEF SerialInv, columns
  <2>4. CASE Goto(r, "complete") /\ migrationStatus = "pending"
    <3>1. request'[r].step = "complete" /\ enacted' /\ migrationStatus' # "complete"
      BY <1>1, <2>1, <2>4, GotoSlot DEF SerialInv, columns
    <3>2. SlotSerial(r)'
      BY <3>1 DEF SlotSerial, Reading
    <3> QED
      BY <2>1, <3>2, SerialKept DEF SerialInv, columns
  <2> QED
    BY <1>4, <2>2, <2>3, <2>4 DEF Lookup
<1>5. CASE Enact(r)
  <2>1. /\ UNCHANGED <<columns, node, everConfirmed, everLost>> /\ enacted'
        /\ ~enacted /\ request'[r].step = "complete"
    BY <1>1, <1>5, GotoSlot DEF Enact, nodeVars, SlotSerial
  <2>2. migrationStatus' # "complete"
    BY <2>1 DEF SerialInv, columns
  <2>3. SlotSerial(r)'
    BY <2>1, <2>2 DEF SlotSerial, Reading
  <2> QED
    BY <2>1, <2>3, SerialKept DEF SerialInv, columns
<1>6. CASE CompleteMigration(r)
  <2>1. /\ UNCHANGED <<latched, enacted, node, everConfirmed, everLost>>
        /\ request'[r].step = "idle" /\ enacted /\ migrationStatus # "complete"
    BY <1>1, <1>6, RestSlot DEF CompleteMigration, nodeVars, SlotSerial
  <2>2. ~latched
    BY <1>1, <2>1 DEF ColumnsAgree
  <2> QED
    BY <2>1, <2>2, QuietSlot, SerialKept
<1> QED
  BY <1>2, <1>3, <1>4, <1>5, <1>6 DEF Broadcasting

\* A sync of the base wallet that no longer finds what was latched.
LEMMA SyncTells ==
  ASSUME TypeOK, ColumnsAgree, SerialInv, graph' = Read("base"),
         UNCHANGED <<columns, node, everConfirmed, everLost>>
  PROVE  LostIfMissing'
<1>1. graph'["base"] = node
  BY DEF Read, TypeOK, Wallets
<1> QED
  BY <1>1 DEF LostIfMissing, SerialInv, columns

LEMMA ReadGraphSerial ==
  ASSUME OneAtATime, EvidenceInv, SerialInv, NEW r \in Requests,
         ReadBase(r) \/ ReadCurrent(r)
  PROVE  SerialInv'
<1> DEFINE read(found, next) == [request[r] EXCEPT !.step = next, !.seen = @ \/ found]
<1>1. TypeOK /\ SlotSerial(r)
  BY DEF EvidenceInv, SerialInv
<1>2. /\ UNCHANGED <<columns, enacted, node, graph, everConfirmed, everLost>>
      /\ request[r].step \in {"readBase", "readCurrent"}
  BY DEF ReadBase, ReadCurrent, ReadGraph, nodeVars, wallets
<1>3. \E found \in BOOLEAN, next \in {"readCurrent", "write"} :
        /\ request' = [request EXCEPT ![r] = read(found, next)]
        /\ request[r].step = "readBase" =>
             (found <=> graph["base"][request[r].tx] = "confirmed")
  BY DEF ReadBase, ReadCurrent, ReadGraph
<1>4. PICK found \in BOOLEAN, next \in {"readCurrent", "write"} :
        /\ request' = [request EXCEPT ![r] = read(found, next)]
        /\ request[r].step = "readBase" =>
             (found <=> graph["base"][request[r].tx] = "confirmed")
  BY <1>3
<1>5. LET s == read(found, next)
      IN  /\ s.step = next /\ s.tx = request[r].tx /\ s.wasLatched = request[r].wasLatched
          /\ s.seen <=> request[r].seen \/ found
  BY <1>1 DEF TypeOK, Request
<1>6. request'[r] = read(found, next)
  BY <1>1, <1>4 DEF TypeOK
<1> HIDE DEF read
<1>7. request[r].tx = sweepTxid /\ (request[r].wasLatched <=> latched)
  BY <1>1, <1>2 DEF SlotSerial, Reading
<1>8. latched /\ ~request'[r].seen => sweepTxid \in everLost
  BY <1>1, <1>2, <1>4, <1>5, <1>6, <1>7 DEF SlotSerial, LostIfMissing
<1>9. SlotSerial(r)'
  BY <1>2, <1>5, <1>6, <1>7, <1>8 DEF SlotSerial, Reading, columns
<1> QED
  BY <1>2, <1>9, SerialKept DEF SerialInv, columns

LEMMA ReconcilingSerial ==
  ASSUME OneAtATime, EvidenceInv, SerialInv, NEW r \in Requests, Reconciling(r)
  PROVE  SerialInv'
<1>1. TypeOK /\ ColumnsAgree /\ SlotSerial(r) /\ SlotSound(r)
  BY DEF EvidenceInv, SerialInv, SlotsSound
<1>2. CASE SyncBase(r)
  <2>1. /\ UNCHANGED <<columns, enacted, node, everConfirmed, everLost>>
        /\ graph' = Read("base") /\ request'[r].step = "syncCurrent"
    BY <1>1, <1>2, GotoSlot DEF SyncBase, nodeVars
  <2>2. LostIfMissing'
    BY <1>1, <2>1, SyncTells
  <2>3. SlotSerial(r)'
    BY <2>1, <2>2 DEF SlotSerial, Reading
  <2> QED
    BY <2>1, <2>3, SerialKept DEF SerialInv, columns
<1>3. CASE SyncCurrent(r)
  <2>1. /\ UNCHANGED <<columns, enacted, node, everConfirmed, everLost>>
        /\ graph' = Read("current") /\ request'[r].step = "load"
        /\ request[r].step = "syncCurrent"
    BY <1>1, <1>3, GotoSlot DEF SyncCurrent, nodeVars
  <2>2. graph'["base"] = graph["base"]
    BY <1>1, <2>1 DEF Read, TypeOK, Wallets
  <2>3. SlotSerial(r)'
    BY <1>1, <2>1, <2>2 DEF SlotSerial, LostIfMissing, Reading, columns
  <2> QED
    BY <2>1, <2>3, SerialKept DEF SerialInv, columns
<1>4. CASE LoadCandidate(r)
  <2> DEFINE loaded == [request[r] EXCEPT !.step = "readBase", !.tx = sweepTxid,
                                          !.wasLatched = latched]
  <2>1. /\ UNCHANGED <<columns, enacted, node, graph, everConfirmed, everLost>>
        /\ request[r].step = "load"
        /\ request' = [request EXCEPT ![r] = loaded] \/ Finish(r)
    BY <1>4 DEF LoadCandidate, nodeVars, wallets
  <2>2. CASE request' = [request EXCEPT ![r] = loaded]
    <3>1. loaded.step = "readBase" /\ loaded.tx = sweepTxid /\ loaded.wasLatched = latched
      BY <1>1 DEF TypeOK, Request
    <3> HIDE DEF loaded
    <3>2. request'[r] = loaded
      BY <1>1, <2>2 DEF TypeOK
    <3>3. SlotSerial(r)'
      BY <1>1, <2>1, <3>1, <3>2 DEF SlotSerial, LostIfMissing, Reading, columns
    <3> QED
      BY <2>1, <3>3, SerialKept DEF SerialInv, columns
  <2>3. CASE Finish(r)
    <3>1. SlotSerial(r)'
      BY <1>1, <2>3, RestSlot, QuietSlot
    <3> QED
      BY <2>1, <3>1, SerialKept DEF SerialInv, columns
  <2> QED
    BY <2>1, <2>2, <2>3
<1>5. CASE ReadBase(r) \/ ReadCurrent(r)
  BY <1>5, ReadGraphSerial
<1>6. ASSUME Latch(r) \/ Revert(r) \/ LeaveAlone(r)
      PROVE  SerialInv'
  <2>1. /\ UNCHANGED <<enacted, node, everConfirmed, everLost>> /\ request'[r].step = "idle"
        /\ request[r].step = "write"
    BY <1>1, <1>6, RestSlot DEF Latch, Revert, LeaveAlone, nodeVars
  <2>2. migrationStatus' # "not_applicable" => enacted'
    BY <1>6, <2>1 DEF Latch, Revert, LeaveAlone, Recorded, SerialInv, columns
  <2>3. latched' => sweepTxid' \in everConfirmed'
    BY <1>1, <1>6, <2>1
       DEF Latch, Revert, LeaveAlone, Recorded, SerialInv, SlotSound, columns
  <2> QED
    BY <2>1, <2>2, <2>3, QuietSlot, SerialKept
<1> QED
  BY <1>2, <1>3, <1>4, <1>5, <1>6 DEF Reconciling

\* Resweeps, and requests that arrive.
LEMMA ArrivingSerial ==
  ASSUME OneAtATime, EvidenceInv, SerialInv, NEW r \in Requests, Resweeping(r) \/ Receive(r)
  PROVE  SerialInv'
<1>1. TypeOK
  BY DEF EvidenceInv
<1>2. UNCHANGED <<columns, enacted, node, everConfirmed, everLost>>
  BY DEF Resweeping, ResyncBase, BuildResweep, EvictCache, InsertResweep, Receive,
         RequestPass, RequestResweep, RequestBroadcast, nodeVars
<1>3. request'[r].step \in {"idle", "send", "syncBase", "resync", "build", "evict", "insert"}
  <2>1. CASE Finish(r) \/ Goto(r, "build") \/ Goto(r, "insert")
    BY <1>1, <2>1, RestSlot, GotoSlot
  <2>2. ASSUME NEW inputs, request' = [request EXCEPT ![r] =
                             [@ EXCEPT !.step = "evict", !.inputs = inputs]]
        PROVE  request'[r].step = "evict"
    BY <1>1, <2>2 DEF TypeOK, Request
  <2>3. ASSUME NEW step, NEW tx, Start(r, step, tx)
        PROVE  request'[r].step = step
    BY <1>1, <2>3 DEF Start, Idle, TypeOK
  <2>4. CASE Resweeping(r)
    <3>1. \/ Finish(r) \/ Goto(r, "build") \/ Goto(r, "insert")
          \/ \E inputs : request' = [request EXCEPT ![r] =
                           [@ EXCEPT !.step = "evict", !.inputs = inputs]]
      BY <2>4 DEF Resweeping, ResyncBase, BuildResweep, EvictCache, InsertResweep
    <3> QED
      BY <2>1, <2>2, <3>1
  <2>5. CASE Receive(r)
    BY <2>3, <2>5 DEF Receive, RequestPass, RequestResweep, RequestBroadcast
  <2> QED
    BY <2>4, <2>5
<1> QED
  BY <1>2, <1>3, QuietSlot, SerialKept DEF SerialInv, columns

\* The chain, relays and pages, whatever the slot is doing.
LEMMA WorldSerial ==
  ASSUME OneAtATime, EvidenceInv, SerialInv,
         \/ \E t \in Txs : Mine(t) \/ Reorg(t) \/ ProposeRelay(t)
         \/ \E w \in Wallets : SyncWallet(w)
         \/ \E k \in Late : Deposit(k)
         \/ UNCHANGED vars
  PROVE  SerialInv'
<1>1. TypeOK /\ ColumnsAgree
  BY DEF EvidenceInv
<1>2. UNCHANGED <<columns, enacted, request>> /\ everConfirmed \subseteq everConfirmed'
      /\ everLost \subseteq everLost'
  BY DEF Mine, Reorg, ProposeRelay, SyncWallet, Deposit, vars, nodeVars
<1>3. \A t \in everConfirmed' : node'[t] # "confirmed" => t \in everLost'
  <2>1. ASSUME NEW t \in Txs, Mine(t)
        PROVE  \A u \in everConfirmed' : node'[u] # "confirmed" => u \in everLost'
    BY <1>1, <2>1 DEF Mine, SerialInv, TypeOK
  <2>2. ASSUME NEW t \in Txs, Reorg(t)
        PROVE  \A u \in everConfirmed' : node'[u] # "confirmed" => u \in everLost'
    BY <1>1, <2>2 DEF Reorg, SerialInv, TypeOK
  <2>3. CASE UNCHANGED <<node, everConfirmed, everLost>>
    BY <2>3 DEF SerialInv
  <2> QED
    BY <2>1, <2>2, <2>3 DEF ProposeRelay, SyncWallet, Deposit, vars, nodeVars
<1>4. LostIfMissing => LostIfMissing'
  <2>1. CASE graph' = Read("base") /\ UNCHANGED <<node, everConfirmed, everLost>>
    BY <1>1, <1>2, <2>1, SyncTells
  <2>2. CASE graph'["base"] = graph["base"]
    BY <1>2, <2>2 DEF LostIfMissing, columns
  <2>3. ASSUME NEW w \in Wallets, SyncWallet(w)
        PROVE  \/ graph' = Read("base") /\ UNCHANGED <<node, everConfirmed, everLost>>
               \/ graph'["base"] = graph["base"]
    BY <1>1, <2>3 DEF SyncWallet, Read, Wallets, TypeOK, nodeVars
  <2> QED
    BY <2>1, <2>2, <2>3 DEF Mine, Reorg, ProposeRelay, Deposit, vars, wallets
<1>5. ASSUME NEW r \in Requests
      PROVE  SlotSerial(r)'
  <2>1. SlotSerial(r)
    BY DEF SerialInv
  <2> QED
    BY <1>2, <1>4, <2>1 DEF SlotSerial, columns
<1> QED
  BY <1>2, <1>3, <1>5 DEF SerialInv, columns

LEMMA AlwaysSerial == ASSUME OneAtATime PROVE Spec => []SerialInv
<1>1. Init => SerialInv
  BY DEF Init, SerialInv, SlotSerial, Idle, Reading
<1>2. EvidenceInv /\ SerialInv /\ [Next]_vars => SerialInv'
  <2> SUFFICES ASSUME EvidenceInv, SerialInv, [Next]_vars
               PROVE  SerialInv'
    OBVIOUS
  <2>1. ~Restart /\ \A r : ~Stop(r)
    BY DEF OneAtATime, Restart, Stop
  <2> QED
    BY <2>1, BroadcastingSerial, ReconcilingSerial, ArrivingSerial, WorldSerial DEF Next
<1> QED
  BY <1>1, <1>2, EvidenceHolds, PTL DEF Spec

\* When handlers are served one at a time and to their end, the columns are a
\* record of sweeps, step by step: a sweep is sent, then seen in a block, and given
\* up for another only after the chain has lost it (db.rs:1060).
THEOREM SweepRecordImplemented == ASSUME OneAtATime PROVE Spec => ImplementsSweepRecord
<1>1. Init => Record!Init
  BY DEF Init, Record!Init
<1>2. EvidenceInv /\ SerialInv /\ [Next]_vars => [Record!Next]_(Record!vars)
  <2> SUFFICES ASSUME EvidenceInv, SerialInv, [Next]_vars
               PROVE  Record!Next \/ UNCHANGED Record!vars
    OBVIOUS
  <2>1. TypeOK /\ ColumnsAgree /\ SlotsSound /\ ChainSeen
    BY DEF EvidenceInv
  <2>2. ASSUME UNCHANGED <<columns, everConfirmed, everLost>>
        PROVE  UNCHANGED Record!vars
    BY <2>2 DEF Record!vars, columns
  <2>3. ASSUME NEW r \in Requests, CompleteMigration(r)
        PROVE  Record!Next
    <3>1. migrationStatus # "complete" /\ request[r].tx \in Txs
      BY <2>1, <2>3
         DEF CompleteMigration, SerialInv, SlotSerial, SlotsSound, SlotSound, SentSweeps
    <3>2. ~latched
      BY <2>1, <3>1 DEF ColumnsAgree
    <3>3. Record!Send(request[r].tx)
      BY <2>3, <3>1, <3>2 DEF CompleteMigration, Record!Send, nodeVars
    <3> QED
      BY <3>1, <3>3 DEF Record!Next
  <2>4. ASSUME NEW r \in Requests, Latch(r)
        PROVE  Record!Next \/ UNCHANGED Record!vars
    <3>1. CASE Recorded(r) /\ ~latched
      <4>1. sweepTxid \in everConfirmed
        BY <2>1, <2>4, <3>1 DEF Latch, Recorded, SlotsSound, SlotSound
      <4>2. Record!See
        BY <2>4, <3>1, <4>1 DEF Latch, Recorded, Record!See, nodeVars
      <4> QED
        BY <4>2 DEF Record!Next
    <3>2. CASE ~Recorded(r) \/ latched
      <4>1. latched' = latched
        BY <2>1, <2>4, <3>2 DEF Latch, TypeOK, Recorded
      <4> QED
        BY <2>2, <2>4, <4>1 DEF Latch, columns, nodeVars
    <3> QED
      BY <3>1, <3>2
  <2>5. ASSUME NEW r \in Requests, Revert(r)
        PROVE  Record!Next \/ UNCHANGED Record!vars
    <3>1. CASE Recorded(r) /\ latched
      <4>1. sweepTxid \in everLost
        BY <2>5, <3>1 DEF Revert, SerialInv, SlotSerial
      <4>2. Record!Reopen
        BY <2>5, <3>1, <4>1 DEF Revert, Recorded, Record!Reopen, nodeVars
      <4> QED
        BY <4>2 DEF Record!Next
    <3>2. CASE ~(Recorded(r) /\ latched)
      BY <2>2, <2>5, <3>2 DEF Revert, nodeVars
    <3> QED
      BY <3>1, <3>2
  <2>6. ASSUME NEW t \in Txs, Mine(t)
        PROVE  Record!Next
    <3>1. Record!Mine(t)
      BY <2>6 DEF Mine, Record!Mine, columns
    <3> QED
      BY <3>1 DEF Record!Next
  <2>7. ASSUME NEW t \in Txs, Reorg(t)
        PROVE  Record!Next
    <3>1. Record!Lose(t)
      BY <2>1, <2>7 DEF Reorg, Record!Lose, ChainSeen, columns
    <3> QED
      BY <3>1 DEF Record!Next
  <2>8. \/ UNCHANGED <<columns, everConfirmed, everLost>>
        \/ \E r \in Requests : CompleteMigration(r) \/ Latch(r) \/ Revert(r)
        \/ \E t \in Txs : Mine(t) \/ Reorg(t)
    <3>1. ASSUME NEW r \in Requests, Broadcasting(r), ~CompleteMigration(r)
          PROVE  UNCHANGED <<columns, everConfirmed, everLost>>
      BY <3>1 DEF Broadcasting, AcceptTx, RefuseTx, MarkBroadcast, Lookup, Enact, nodeVars
    <3>2. ASSUME NEW r \in Requests, Reconciling(r), ~Latch(r), ~Revert(r)
          PROVE  UNCHANGED <<columns, everConfirmed, everLost>>
      BY <3>2 DEF Reconciling, SyncBase, SyncCurrent, LoadCandidate, ReadBase, ReadCurrent,
                  ReadGraph, LeaveAlone, nodeVars
    <3>3. ASSUME NEW r \in Requests, Receive(r) \/ Resweeping(r) \/ Stop(r)
          PROVE  UNCHANGED <<columns, everConfirmed, everLost>>
      BY <3>3 DEF Receive, RequestPass, RequestResweep, RequestBroadcast, Resweeping,
                  ResyncBase, BuildResweep, EvictCache, InsertResweep, Stop, nodeVars
    <3>4. ASSUME \/ \E t \in Txs : ProposeRelay(t)
                 \/ \E w \in Wallets : SyncWallet(w)
                 \/ \E k \in Late : Deposit(k)
                 \/ Restart
                 \/ UNCHANGED vars
          PROVE  UNCHANGED <<columns, everConfirmed, everLost>>
      BY <3>4 DEF ProposeRelay, SyncWallet, Deposit, Restart, vars, nodeVars
    <3> QED
      BY <3>1, <3>2, <3>3, <3>4 DEF Next
  <2> QED
    BY <2>2, <2>3, <2>4, <2>5, <2>6, <2>7, <2>8
<1> QED
  BY <1>1, <1>2, EvidenceHolds, AlwaysSerial, PTL
  DEF Spec, ImplementsSweepRecord, Record!Spec

=============================================================================
