--------------------------- MODULE ProposalProofs ---------------------------
(***************************************************************************)
(* Theorems about Proposal, for every set of cosigners, every threshold    *)
(* and any number of requests served at once and abandoned anywhere; then, *)
(* when requests are served one at a time and none is abandoned, that the  *)
(* statements of a handler, though no transaction surrounds them, add up   *)
(* to the one step its documentation describes.                            *)
(***************************************************************************)
EXTENDS Proposal, FiniteSetTheorems, TLAPS

\* Every reachable state of the row, the slots and the node has its type.
THEOREM TypeCorrect == Spec => []TypeOK
<1> USE DEF TypeOK, SignRequest, OtherRequest, Idle, Finish, Goto, Start,
            dbVars, nodeVars, Statuses, ChainStates
<1>1. Init => TypeOK
  BY UsersAssumption DEF Init
<1>2. TypeOK /\ [Next]_vars => TypeOK'
  <2> SUFFICES ASSUME TypeOK, [Next]_vars
               PROVE  TypeOK'
    OBVIOUS
  <2>1. ASSUME NEW r \in Requests, NEW u \in Cosigners, SubmitSignature(r, u)
        PROVE  TypeOK'
    <3>1. PICK page \in served : Start(r, "insert", u, psbt \cup Partial(u, page))
      BY <2>1 DEF SubmitSignature
    <3>2. psbt \cup Partial(u, page) \subseteq Cosigners
      BY DEF Partial
    <3> QED
      BY <2>1, <3>1, <3>2 DEF SubmitSignature
  <2>2. ASSUME NEW r \in Requests, InsertSignature(r)
        PROVE  TypeOK'
    BY <2>2 DEF InsertSignature
  <2>3. ASSUME NEW r \in Requests, UpdatePsbt(r)
        PROVE  TypeOK'
    BY <2>3 DEF UpdatePsbt
  <2>4. ASSUME NEW r \in Requests, FinalizeProposal(r)
        PROVE  TypeOK'
    BY <2>4 DEF FinalizeProposal
  <2>5. ASSUME NEW r \in Requests, NEW u \in Cosigners, RequestCancel(r, u)
        PROVE  TypeOK'
    BY <2>5 DEF RequestCancel
  <2>6. ASSUME NEW r \in Requests, CancelProposal(r)
        PROVE  TypeOK'
    BY <2>6 DEF CancelProposal
  <2>7. ASSUME NEW r \in Requests, RequestBroadcast(r)
        PROVE  TypeOK'
    BY <2>7 DEF RequestBroadcast
  <2>8. ASSUME NEW r \in Requests, BroadcastRaw(r)
        PROVE  TypeOK'
    BY <2>8 DEF BroadcastRaw
  <2>9. ASSUME NEW r \in Requests, MarkBroadcast(r)
        PROVE  TypeOK'
    BY <2>9 DEF MarkBroadcast
  <2>10. ASSUME NEW r \in Requests, Stop(r)
         PROVE  TypeOK'
    BY <2>10 DEF Stop
  <2>11. ASSUME NEW u \in Rejecters, SubmitRejection(u)
         PROVE  TypeOK'
    BY <2>11 DEF SubmitRejection
  <2>12. CASE SignData
    BY <2>12 DEF SignData
  <2>13. CASE NodeStep
    BY <2>13 DEF NodeStep
  <2>14. CASE UNCHANGED vars
    BY <2>14 DEF vars
  <2> QED
    BY <2>1, <2>2, <2>3, <2>4, <2>5, <2>6, <2>7, <2>8, <2>9, <2>10, <2>11, <2>12,
       <2>13, <2>14 DEF Next, Receive, Advance
<1> QED
  BY <1>1, <1>2, PTL DEF Spec

-----------------------------------------------------------------------------

(***************************************************************************)
(* The safety invariants are proved together: a merge made from a stale    *)
(* read is harmless to them because rows of transaction_signatures are     *)
(* never deleted, so that everything read earlier is still recorded.       *)
(***************************************************************************)
SafetyInv ==
  /\ TypeOK
  /\ SignaturesRecorded
  /\ StoredTxMeetsThreshold
  /\ BroadcastWasAccepted
  /\ OneWriterPerCosigner
  /\ InFlightInv

\* A transaction that meets the threshold is not SQL NULL.
LEMMA ThresholdNonEmpty ==
  ASSUME NEW tx \in SUBSET Cosigners, Cardinality(tx) >= Threshold
  PROVE  tx # {}
<1>1. Threshold \in Nat /\ Threshold >= 1
  BY ThresholdAssumption, FS_CardinalityType
<1> QED
  BY <1>1, FS_EmptySet

LEMMA InitSafety == Init => SafetyInv
<1> SUFFICES ASSUME Init
             PROVE  SafetyInv
  OBVIOUS
<1>1. TypeOK
  BY UsersAssumption DEF Init, TypeOK, OtherRequest, Idle, Statuses, ChainStates
<1> QED
  BY <1>1 DEF Init, Idle, SafetyInv, SignaturesRecorded, StoredTxMeetsThreshold,
    BroadcastWasAccepted, OneWriterPerCosigner, InFlightInv

LEMMA NextSafety == SafetyInv /\ TypeOK' /\ [Next]_vars => SafetyInv'
<1> SUFFICES ASSUME SafetyInv, TypeOK', [Next]_vars
             PROVE  SafetyInv'
  OBVIOUS
<1> USE DEF SafetyInv, TypeOK, SignRequest, OtherRequest, Idle, Finish, Goto, Start,
            dbVars, nodeVars, SignaturesRecorded, StoredTxMeetsThreshold,
            BroadcastWasAccepted, OneWriterPerCosigner, InFlightInv
<1>1. ASSUME NEW r \in Requests, NEW u \in Cosigners, SubmitSignature(r, u)
      PROVE  SafetyInv'
  <2>1. PICK page \in served : Start(r, "insert", u, psbt \cup Partial(u, page))
    BY <1>1 DEF SubmitSignature
  <2>2. psbt \cup Partial(u, page) \subseteq sigRows \cup {u}
    BY DEF Partial
  <2> QED
    BY <1>1, <2>1, <2>2 DEF SubmitSignature
<1>2. ASSUME NEW r \in Requests, InsertSignature(r)
      PROVE  SafetyInv'
  BY <1>2 DEF InsertSignature
<1>3. ASSUME NEW r \in Requests, UpdatePsbt(r)
      PROVE  SafetyInv'
  BY <1>3 DEF UpdatePsbt, FullySigned
<1>4. ASSUME NEW r \in Requests, FinalizeProposal(r)
      PROVE  SafetyInv'
  BY <1>4 DEF FinalizeProposal
<1>5. ASSUME NEW r \in Requests, NEW u \in Cosigners, RequestCancel(r, u)
      PROVE  SafetyInv'
  BY <1>5 DEF RequestCancel
<1>6. ASSUME NEW r \in Requests, CancelProposal(r)
      PROVE  SafetyInv'
  BY <1>6 DEF CancelProposal
<1>7. ASSUME NEW r \in Requests, RequestBroadcast(r)
      PROVE  SafetyInv'
  BY <1>7 DEF RequestBroadcast
<1>8. ASSUME NEW r \in Requests, BroadcastRaw(r)
      PROVE  SafetyInv'
  <2>1. CASE Acceptable(request[r].held)
    <3>1. request[r].held \subseteq sigRows /\ Cardinality(request[r].held) >= Threshold
      BY <1>8, <2>1 DEF BroadcastRaw, Acceptable
    <3>2. request[r].held # {}
      BY <3>1, ThresholdNonEmpty
    <3>3. /\ acceptedTx' # {} /\ acceptedTx' \subseteq sigRows
          /\ Cardinality(acceptedTx') >= Threshold
      BY <1>8, <2>1, <3>1, <3>2 DEF BroadcastRaw, Acceptable
    <3> QED
      BY <1>8, <2>1, <3>3 DEF BroadcastRaw
  <2>2. CASE ~Acceptable(request[r].held)
    BY <1>8, <2>2 DEF BroadcastRaw
  <2> QED
    BY <2>1, <2>2
<1>9. ASSUME NEW r \in Requests, MarkBroadcast(r)
      PROVE  SafetyInv'
  BY <1>9 DEF MarkBroadcast
<1>10. ASSUME NEW r \in Requests, Stop(r)
       PROVE  SafetyInv'
  BY <1>10 DEF Stop
<1>11. ASSUME NEW u \in Rejecters, SubmitRejection(u)
       PROVE  SafetyInv'
  BY <1>11 DEF SubmitRejection
<1>12. CASE SignData
  BY <1>12 DEF SignData
<1>13. CASE NodeStep
  BY <1>13 DEF NodeStep
<1>14. CASE UNCHANGED vars
  BY <1>14 DEF vars
<1> QED
  BY <1>1, <1>2, <1>3, <1>4, <1>5, <1>6, <1>7, <1>8, <1>9, <1>10, <1>11, <1>12,
     <1>13, <1>14 DEF Next, Receive, Advance

\* The signing flow's safety invariants hold in every reachable state.
THEOREM SigningIsSafe ==
  Spec => [](SignaturesRecorded /\ StoredTxMeetsThreshold /\ BroadcastWasAccepted
             /\ OneWriterPerCosigner /\ InFlightInv)
<1>1. SafetyInv => SignaturesRecorded /\ StoredTxMeetsThreshold /\ BroadcastWasAccepted
                   /\ OneWriterPerCosigner /\ InFlightInv
  BY DEF SafetyInv
<1> QED
  BY <1>1, TypeCorrect, InitSafety, NextSafety, PTL DEF Spec

\* No signature gets into the stored PSBT, the extracted transaction or the
\* network from a cosigner without a row in transaction_signatures: the insert
\* precedes the merge, and no handler deletes a row.
THEOREM SignaturesAreRecorded == Spec => []SignaturesRecorded
BY SigningIsSafe, PTL

\* A transaction that can be broadcast carries enough signatures, and so does
\* the one a broadcast read before the row was written again.
THEOREM StoredTxIsSpendable == Spec => []StoredTxMeetsThreshold
BY SigningIsSafe, PTL

\* A row says `broadcast' only after a node took the transaction: the status
\* is written by a request whose sendrawtransaction succeeded.
THEOREM OnlyAcceptedIsBroadcast == Spec => []BroadcastWasAccepted
BY SigningIsSafe, PTL

\* Two submissions of one cosigner never both get past the insert.
THEOREM CosignerWritesOnce == Spec => []OneWriterPerCosigner
BY SigningIsSafe, PTL

-----------------------------------------------------------------------------

\* Whatever the interleaving and wherever requests are abandoned, the handlers
\* implement CosignerConsent: inserting a signature row approves, a node that
\* accepts a transaction it did not have settles, all other steps stutter.
THEOREM ConsentImplemented == Spec => ImplementsConsent
<1>1. Init => Consent!Init
  BY DEF Init, Consent!Init
<1>2. SafetyInv /\ TypeOK' /\ [Next]_vars => [Consent!Next]_<<sigRows, acceptedTx>>
  <2> SUFFICES ASSUME SafetyInv, TypeOK', [Next]_vars
               PROVE  [Consent!Next]_<<sigRows, acceptedTx>>
    OBVIOUS
  <2> USE DEF dbVars, nodeVars
  <2>1. ASSUME NEW r \in Requests, NEW u \in Cosigners, SubmitSignature(r, u)
        PROVE  UNCHANGED <<sigRows, acceptedTx>>
    BY <2>1 DEF SubmitSignature
  <2>2. ASSUME NEW r \in Requests, InsertSignature(r)
        PROVE  [Consent!Next]_<<sigRows, acceptedTx>>
    <3>1. CASE request[r].user \in sigRows
      BY <2>2, <3>1 DEF InsertSignature
    <3>2. CASE request[r].user \notin sigRows
      <4>1. request[r].user \in Cosigners
        BY <2>2 DEF InsertSignature, SafetyInv, TypeOK, SignRequest, OtherRequest
      <4>2. Consent!Approve(request[r].user)
        BY <2>2, <3>2 DEF InsertSignature, Consent!Approve
      <4> QED
        BY <4>1, <4>2 DEF Consent!Next
    <3> QED
      BY <3>1, <3>2
  <2>3. ASSUME NEW r \in Requests, BroadcastRaw(r)
        PROVE  [Consent!Next]_<<sigRows, acceptedTx>>
    <3>1. CASE Acceptable(request[r].held) /\ chain = "unseen"
      <4>1. request[r].held \subseteq sigRows /\ sigRows \subseteq Cosigners
        BY <2>3 DEF BroadcastRaw, SafetyInv, InFlightInv, TypeOK
      <4>2. Consent!Settle
        BY <2>3, <3>1, <4>1 DEF BroadcastRaw, Acceptable, Quorums, Consent!Settle
      <4> QED
        BY <4>2 DEF Consent!Next
    <3>2. CASE ~(Acceptable(request[r].held) /\ chain = "unseen")
      BY <2>3, <3>2 DEF BroadcastRaw
    <3> QED
      BY <3>1, <3>2
  <2>4. ASSUME NEW r \in Requests,
               \/ UpdatePsbt(r) \/ FinalizeProposal(r)
               \/ RequestBroadcast(r) \/ MarkBroadcast(r)
               \/ CancelProposal(r) \/ Stop(r)
               \/ \E u \in Cosigners : RequestCancel(r, u)
        PROVE  UNCHANGED <<sigRows, acceptedTx>>
    BY <2>4 DEF UpdatePsbt, FinalizeProposal, RequestBroadcast, MarkBroadcast,
         CancelProposal, Stop, RequestCancel
  <2>5. ASSUME SignData \/ NodeStep \/ UNCHANGED vars
               \/ \E u \in Rejecters : SubmitRejection(u)
        PROVE  UNCHANGED <<sigRows, acceptedTx>>
    BY <2>5 DEF SignData, NodeStep, vars, SubmitRejection
  <2> QED
    BY <2>1, <2>2, <2>3, <2>4, <2>5 DEF Next, Receive, Advance
<1> QED
  BY <1>1, <1>2, TypeCorrect, InitSafety, NextSafety, PTL
  DEF Spec, ImplementsConsent, Consent!Spec

-----------------------------------------------------------------------------
(* One request at a time *)

OneAtATime ==
  /\ \A r, s \in Requests : r = s
  /\ ~MayStop

(***************************************************************************)
(* Between two requests the PSBT is what the signature rows record, and    *)
(* the status follows from it.  Inside one, each step says how far the row *)
(* lags behind what its handler carries.                                   *)
(***************************************************************************)
NoneAt(step) == \A r \in Requests : request[r].step # step

RowInv ==
  /\ \A page \in served : page \subseteq psbt
  /\ Signable => Cardinality(psbt) < Threshold
  /\ status = "proposed" => psbt = {}
  /\ status = "signing" => psbt # {}
  /\ NoneAt("update") => psbt = sigRows
  /\ status = "finalized" /\ NoneAt("finalize") => finalizedTx # {}
  /\ acceptedTx # {} /\ status # "broadcast" => ~NoneAt("mark")

SlotInv(r) ==
  /\ request[r].step \in {"insert", "update"} =>
       Signable /\ request[r].held = psbt \cup {request[r].user}
  /\ request[r].step = "update" =>
       request[r].user \notin psbt /\ request[r].held = sigRows
  /\ request[r].step = "finalize" =>
       /\ status = "finalized"
       /\ request[r].held = psbt
       /\ Cardinality(psbt) >= Threshold
       /\ request[r].user \in psbt
       /\ Cardinality(psbt \ {request[r].user}) < Threshold
  /\ request[r].step = "cancel" => status \in {"proposed", "signing", "finalized"}
  /\ request[r].step \in {"send", "mark"} => status = "finalized"

SerialInv ==
  /\ TypeOK
  /\ RowInv
  /\ \A r \in Requests : SlotInv(r)

\* Adding a cosigner to those who signed.
LEMMA SignersAdd ==
  ASSUME NEW tx \in SUBSET Cosigners, NEW u \in Cosigners, u \notin tx
  PROVE  /\ Cardinality(tx \cup {u}) = Cardinality(tx) + 1
         /\ (Cardinality(tx \cup {u}) = 1 <=> tx = {})
         /\ Cardinality(tx) \in Nat
<1>1. IsFiniteSet(tx)
  BY ThresholdAssumption, FS_Subset
<1>2. Cardinality(tx) \in Nat /\ (Cardinality(tx) = 0 <=> tx = {})
  BY <1>1, FS_CardinalityType, FS_EmptySet
<1>3. Cardinality(tx \cup {u}) = Cardinality(tx) + 1
  BY <1>1, FS_AddElement
<1> QED
  BY <1>2, <1>3

LEMMA InitSerial == Init => SerialInv
<1> SUFFICES ASSUME Init
             PROVE  SerialInv
  OBVIOUS
<1>1. TypeOK
  BY InitSafety DEF SafetyInv
<1>2. Cardinality(psbt) < Threshold
  BY ThresholdAssumption, FS_EmptySet, FS_CardinalityType DEF Init
<1> QED
  BY <1>1, <1>2 DEF Init, Idle, SerialInv, RowInv, SlotInv, NoneAt, Signable

LEMMA NextSerial ==
  ASSUME OneAtATime, SerialInv, TypeOK', [Next]_vars
  PROVE  SerialInv'
<1> USE DEF SerialInv, RowInv, SlotInv, NoneAt, Signable, TypeOK, SignRequest, OtherRequest,
            Idle, Finish, Goto, Start, dbVars, nodeVars, OneAtATime
<1>1. ASSUME NEW r \in Requests, NEW u \in Cosigners, SubmitSignature(r, u)
      PROVE  SerialInv'
  <2>1. PICK page \in served : Start(r, "insert", u, psbt \cup Partial(u, page))
    BY <1>1 DEF SubmitSignature
  <2>2. psbt \cup Partial(u, page) = psbt \cup {u}
    BY DEF Partial
  <2> QED
    BY <1>1, <2>1, <2>2 DEF SubmitSignature
<1>2. ASSUME NEW r \in Requests, InsertSignature(r)
      PROVE  SerialInv'
  <2>1. CASE request[r].user \in sigRows
    BY <1>2, <2>1 DEF InsertSignature
  <2>2. CASE request[r].user \notin sigRows
    <3>1. /\ request[r].held = psbt \cup {request[r].user} /\ psbt = sigRows
          /\ request' = [request EXCEPT ![r].step = "update"]
          /\ sigRows' = sigRows \cup {request[r].user}
      BY <1>2, <2>2 DEF InsertSignature
    <3> QED
      BY <1>2, <2>2, <3>1 DEF InsertSignature
  <2> QED
    BY <2>1, <2>2
<1>3. ASSUME NEW r \in Requests, UpdatePsbt(r)
      PROVE  SerialInv'
  <2> DEFINE u == request[r].user
  <2> HIDE DEF u
  <2>1. /\ request[r].held = psbt \cup {u} /\ u \notin psbt /\ u \in Cosigners
        /\ request[r].held = sigRows /\ Cardinality(psbt) < Threshold
        /\ psbt' = psbt \cup {u} /\ acceptedTx = {}
    BY <1>3 DEF UpdatePsbt, u
  <2>5. psbt' \ {u} = psbt /\ psbt' # {}
    BY <2>1
  <2>2. Cardinality(psbt') \in Nat /\ Threshold \in Nat
    BY <2>1, ThresholdAssumption, SignersAdd, FS_CardinalityType
  <2>3. CASE FullySigned(request[r].held)
    <3>1. request' = [request EXCEPT ![r].step = "finalize"] /\ status' = "finalized"
      BY <1>3, <2>3 DEF UpdatePsbt
    <3>2. request'[r].user = u /\ request'[r].held = psbt'
      BY <2>1, <3>1 DEF u
    <3>3. Cardinality(psbt' \ {request'[r].user}) < Threshold
      BY <2>1, <2>5, <3>2
    <3>6. Cardinality(psbt') >= Threshold
      BY <2>1, <2>3 DEF FullySigned
    <3>4. SlotInv(r)'
      BY <2>1, <3>1, <3>2, <3>3, <3>6
    <3>5. RowInv'
      BY <1>3, <2>1, <2>5, <3>1, <3>2 DEF UpdatePsbt
    <3> QED
      BY <3>4, <3>5
  <2>4. CASE ~FullySigned(request[r].held)
    <3>1. Cardinality(psbt') < Threshold
      BY <2>1, <2>2, <2>4 DEF FullySigned
    <3>2. request' = [request EXCEPT ![r] = Idle] /\ status' = "signing"
      BY <1>3, <2>4 DEF UpdatePsbt
    <3> QED
      BY <1>3, <2>1, <2>5, <3>1, <3>2 DEF UpdatePsbt
  <2> QED
    BY <2>3, <2>4
<1>4. ASSUME NEW r \in Requests, FinalizeProposal(r)
      PROVE  SerialInv'
  <2>1. /\ request[r].held = psbt /\ psbt = sigRows /\ psbt # {}
        /\ status = "finalized" /\ acceptedTx = {}
    BY <1>4 DEF FinalizeProposal
  <2>2. request' = [request EXCEPT ![r] = Idle] /\ finalizedTx' = psbt
    BY <1>4, <2>1 DEF FinalizeProposal
  <2> QED
    BY <1>4, <2>1, <2>2 DEF FinalizeProposal
<1>5. ASSUME NEW r \in Requests, NEW u \in Cosigners, RequestCancel(r, u)
      PROVE  SerialInv'
  BY <1>5 DEF RequestCancel
<1>6. ASSUME NEW r \in Requests, CancelProposal(r)
      PROVE  SerialInv'
  BY <1>6 DEF CancelProposal
<1>7. ASSUME NEW r \in Requests, RequestBroadcast(r)
      PROVE  SerialInv'
  BY <1>7 DEF RequestBroadcast
<1>8. ASSUME NEW r \in Requests, BroadcastRaw(r)
      PROVE  SerialInv'
  <2>1. CASE Acceptable(request[r].held)
    <3>1. /\ status = "finalized" /\ psbt = sigRows /\ finalizedTx # {}
          /\ request' = [request EXCEPT ![r].step = "mark"]
      BY <1>8, <2>1 DEF BroadcastRaw
    <3>2. request'[r].step = "mark"
      BY <3>1
    <3> QED
      BY <1>8, <3>1, <3>2 DEF BroadcastRaw
  <2>2. CASE ~Acceptable(request[r].held)
    BY <1>8, <2>2 DEF BroadcastRaw
  <2> QED
    BY <2>1, <2>2
<1>9. ASSUME NEW r \in Requests, MarkBroadcast(r)
      PROVE  SerialInv'
  BY <1>9 DEF MarkBroadcast
<1>10. ASSUME NEW r \in Requests, Stop(r)
       PROVE  SerialInv'
  BY <1>10 DEF Stop
<1>11. ASSUME NEW u \in Rejecters, SubmitRejection(u)
       PROVE  SerialInv'
  BY <1>11 DEF SubmitRejection
<1>12. CASE SignData
  BY <1>12 DEF SignData
<1>13. CASE NodeStep
  BY <1>13 DEF NodeStep
<1>14. CASE UNCHANGED vars
  BY <1>14 DEF vars
<1> QED
  BY <1>1, <1>2, <1>3, <1>4, <1>5, <1>6, <1>7, <1>8, <1>9, <1>10, <1>11, <1>12,
     <1>13, <1>14 DEF Next, Receive, Advance

LEMMA AlwaysSerial == ASSUME OneAtATime PROVE Spec => []SerialInv
<1>1. SerialInv /\ TypeOK' /\ [Next]_vars => SerialInv'
  BY NextSerial
<1> QED
  BY <1>1, TypeCorrect, InitSerial, PTL DEF Spec

-----------------------------------------------------------------------------

\* No signature the cosigners were told was recorded is missing from the PSBT
\* once the requests are over: the insert and the overwrite of the PSBT are
\* two statements, but nothing comes between them.
THEOREM AcceptedWorkIsKept == ASSUME OneAtATime PROVE Spec => []AcceptedWorkKept
<1>1. SerialInv => AcceptedWorkKept
  BY DEF SerialInv, RowInv, NoneAt, AcceptedWorkKept, AtRest
<1> QED
  BY <1>1, AlwaysSerial, PTL

\* A proposal shown as finalized has a raw transaction to broadcast: its
\* status and finalized_tx_hex are written by two statements, but by one
\* request, and every request reaches its end.
THEOREM FinalizedIsReady == ASSUME OneAtATime PROVE Spec => []FinalizedHasTx
<1>1. SerialInv => FinalizedHasTx
  BY DEF SerialInv, RowInv, NoneAt, FinalizedHasTx, AtRest
<1> QED
  BY <1>1, AlwaysSerial, PTL

\* No transaction of a proposal shown as cancelled was handed to the network:
\* the check that precedes the cancellation still holds when it is written.
THEOREM CancellationPrecedesBroadcast ==
  ASSUME OneAtATime PROVE Spec => []CancelledBeforeBroadcast
<1>1. SerialInv => CancelledBeforeBroadcast
  BY DEF SerialInv, RowInv, SlotInv, NoneAt, CancelledBeforeBroadcast
<1> QED
  BY <1>1, AlwaysSerial, PTL

\* Once cancelled a proposal stays cancelled: a signature or a broadcast that
\* was let in before the cancellation has run to its end by then.
THEOREM CancellationIsFinal ==
  ASSUME OneAtATime PROVE Spec => CancelledStaysCancelled
<1>1. SerialInv /\ [Next]_vars => [status = "cancelled" => status' = "cancelled"]_vars
  <2> SUFFICES ASSUME SerialInv, Next, status = "cancelled"
               PROVE  status' = "cancelled"
    OBVIOUS
  <2> USE DEF SerialInv, SlotInv, Signable, dbVars
  <2>1. \A r \in Requests : request[r].step \notin {"insert", "update", "finalize", "send", "mark"}
    OBVIOUS
  <2>2. ASSUME NEW r \in Requests, Receive(r) \/ Advance(r) \/ Stop(r)
        PROVE  status' = "cancelled"
    BY <2>1, <2>2 DEF Receive, Advance, Stop, SubmitSignature, RequestCancel, RequestBroadcast,
         InsertSignature, UpdatePsbt, FinalizeProposal, CancelProposal, BroadcastRaw,
         MarkBroadcast
  <2>3. ASSUME SignData \/ NodeStep \/ \E u \in Rejecters : SubmitRejection(u)
        PROVE  status' = "cancelled"
    BY <2>3 DEF SignData, NodeStep, SubmitRejection
  <2> QED
    BY <2>2, <2>3 DEF Next
<1> QED
  BY <1>1, AlwaysSerial, PTL DEF Spec, CancelledStaysCancelled

-----------------------------------------------------------------------------
(***************************************************************************)
(* The refinement of ProposalLifecycle.  Between the overwrite of the PSBT *)
(* and the extraction of the transaction the submission has not happened   *)
(* yet, as far as the life cycle is concerned.                             *)
(***************************************************************************)
\* With no submission half done, the row says how far the proposal is.
LEMMA NoneFinalizing ==
  /\ NoneAt("finalize") => SignedSoFar = psbt /\ StatusSoFar = status
  /\ NoneAt("finalize")' => SignedSoFar' = psbt' /\ StatusSoFar' = status'
BY DEF NoneAt, SignedSoFar, StatusSoFar, Finalizing

\* Half way, the last signer does not count yet.
LEMMA OneFinalizing ==
  ASSUME OneAtATime, NEW r \in Requests
  PROVE  /\ request[r].step = "finalize" =>
              /\ SignedSoFar = psbt \ {request[r].user}
              /\ StatusSoFar = IF Cardinality(psbt) = 1 THEN "proposed" ELSE "signing"
         /\ request'[r].step = "finalize" =>
              /\ SignedSoFar' = psbt' \ {request'[r].user}
              /\ StatusSoFar' = IF Cardinality(psbt') = 1 THEN "proposed" ELSE "signing"
<1>1. request[r].step = "finalize" => Finalizing = {r}
  BY DEF OneAtATime, Finalizing
<1>2. request'[r].step = "finalize" => Finalizing' = {r}
  BY DEF OneAtATime, Finalizing
<1> QED
  BY <1>1, <1>2 DEF SignedSoFar, StatusSoFar

\* The submission that does not meet the threshold signs at its overwrite of
\* the PSBT; the one that meets it leaves the life cycle where it was.
LEMMA UpdateImplements ==
  ASSUME OneAtATime, SerialInv, TypeOK', NEW r \in Requests, UpdatePsbt(r)
  PROVE  [Lifecycle!Next]_<<StatusSoFar, SignedSoFar>>
<1> DEFINE u == request[r].user
<1> HIDE DEF u
<1>1. /\ Signable /\ request[r].held = psbt \cup {u} /\ u \notin psbt /\ u \in Cosigners
      /\ psbt \in SUBSET Cosigners /\ NoneAt("finalize") /\ psbt' = psbt \cup {u}
      /\ status = "proposed" => psbt = {}
      /\ status = "signing" => psbt # {}
  BY DEF UpdatePsbt, u, SerialInv, RowInv, SlotInv, NoneAt, TypeOK, SignRequest,
     OtherRequest, OneAtATime
<1>2. SignedSoFar = psbt /\ StatusSoFar = status
  BY <1>1, NoneFinalizing
<1>3. Cardinality(psbt') = 1 <=> psbt = {}
  BY <1>1, SignersAdd
<1>4. CASE FullySigned(request[r].held)
  <2>1. request' = [request EXCEPT ![r].step = "finalize"]
    BY <1>4 DEF UpdatePsbt, Goto
  <2>2. request'[r].step = "finalize" /\ request'[r].user = u
    BY <2>1 DEF u, SerialInv, TypeOK, SignRequest, OtherRequest
  <2>3. /\ SignedSoFar' = psbt' \ {u}
        /\ StatusSoFar' = IF Cardinality(psbt') = 1 THEN "proposed" ELSE "signing"
    BY <2>2, OneFinalizing
  <2> QED
    BY <1>1, <1>2, <1>3, <2>3 DEF Signable
<1>5. CASE ~FullySigned(request[r].held)
  <2>1. NoneAt("finalize")' /\ status' = "signing"
    BY <1>1, <1>5 DEF UpdatePsbt, NoneAt, Finish, Idle, OneAtATime, SerialInv, TypeOK
  <2>2. SignedSoFar' = psbt' /\ StatusSoFar' = "signing"
    BY <2>1, NoneFinalizing
  <2>3. SignedSoFar' \notin Quorums
    BY <1>1, <1>5, <2>2 DEF FullySigned, Quorums
  <2>4. Lifecycle!Sign(u)
    BY <1>1, <1>2, <2>2, <2>3 DEF Lifecycle!Sign, Signable
  <2> QED
    BY <1>1, <2>4 DEF Lifecycle!Next
<1> QED
  BY <1>4, <1>5

\* Storing the extracted transaction is the signature that finalizes.
LEMMA FinalizeImplements ==
  ASSUME OneAtATime, SerialInv, TypeOK', NEW r \in Requests, FinalizeProposal(r)
  PROVE  Lifecycle!Next
<1> DEFINE u == request[r].user
<1> HIDE DEF u
<1>1. /\ u \in psbt /\ psbt \in SUBSET Cosigners /\ request[r].step = "finalize"
      /\ psbt' = psbt /\ status' = "finalized"
      /\ NoneAt("finalize")'
      /\ Cardinality(psbt) >= Threshold
  BY DEF FinalizeProposal, u, SerialInv, RowInv, SlotInv, NoneAt, TypeOK, Finish, Idle,
     OneAtATime, InFlightInv
<1>2. /\ SignedSoFar = psbt \ {u}
      /\ StatusSoFar = IF Cardinality(psbt) = 1 THEN "proposed" ELSE "signing"
  BY <1>1, OneFinalizing DEF u
<1>3. SignedSoFar' = psbt /\ StatusSoFar' = "finalized"
  BY <1>1, NoneFinalizing
<1>4. SignedSoFar' = SignedSoFar \cup {u}
  BY <1>1, <1>2, <1>3
<1>5. Lifecycle!Sign(u)
  BY <1>1, <1>2, <1>3, <1>4 DEF Lifecycle!Sign, Quorums
<1>6. u \in Cosigners
  BY <1>1
<1> QED
  BY <1>5, <1>6 DEF Lifecycle!Next

\* One request at a time, the handlers implement the life cycle documented for
\* the status column: cancellations and broadcasts take effect at their last
\* statement, signatures at the last one their outcome needs, and everything
\* else, stale pages and refused duplicates included, leaves it alone.
THEOREM LifecycleImplemented == ASSUME OneAtATime PROVE Spec => ImplementsLifecycle
<1>1. Init => Lifecycle!Init
  <2> SUFFICES ASSUME Init
               PROVE  Lifecycle!Init
    OBVIOUS
  <2>1. NoneAt("finalize")
    BY DEF Init, Idle, NoneAt
  <2> QED
    BY <2>1, NoneFinalizing DEF Init, Lifecycle!Init
<1>2. SerialInv /\ TypeOK' /\ [Next]_vars => [Lifecycle!Next]_<<StatusSoFar, SignedSoFar>>
  <2> SUFFICES ASSUME SerialInv, TypeOK', [Next]_vars
               PROVE  [Lifecycle!Next]_<<StatusSoFar, SignedSoFar>>
    OBVIOUS
  <2> USE DEF dbVars, nodeVars
  <2>1. ASSUME NEW r \in Requests, CancelProposal(r) \/ MarkBroadcast(r)
        PROVE  Lifecycle!Next
    <3>0. request[r].step # "finalize" /\ request'[r].step # "finalize" /\ psbt' = psbt
      BY <2>1 DEF CancelProposal, MarkBroadcast, Finish, Idle, SerialInv, TypeOK
    <3>1. /\ NoneAt("finalize") /\ NoneAt("finalize")' /\ psbt' = psbt
          /\ CancelProposal(r) => status \in {"proposed", "signing", "finalized"}
          /\ MarkBroadcast(r) => status = "finalized"
      BY <3>0 DEF CancelProposal, MarkBroadcast, SerialInv, SlotInv, NoneAt, OneAtATime
    <3>2. SignedSoFar = psbt /\ StatusSoFar = status /\ SignedSoFar' = psbt /\ StatusSoFar' = status'
      BY <3>1, NoneFinalizing
    <3>3. CancelProposal(r) => Lifecycle!Cancel
      BY <3>1, <3>2 DEF CancelProposal, Lifecycle!Cancel
    <3>4. MarkBroadcast(r) => Lifecycle!Broadcast
      BY <3>1, <3>2 DEF MarkBroadcast, Lifecycle!Broadcast
    <3> QED
      BY <2>1, <3>3, <3>4 DEF Lifecycle!Next
  <2>2. ASSUME NEW r \in Requests,
               \/ InsertSignature(r) \/ BroadcastRaw(r) \/ RequestBroadcast(r)
               \/ \E u \in Cosigners : SubmitSignature(r, u) \/ RequestCancel(r, u)
        PROVE  UNCHANGED <<StatusSoFar, SignedSoFar>>
    <3>1. request[r].step # "finalize" /\ request'[r].step # "finalize"
      <4> USE DEF Start, Goto, Finish, Idle, SerialInv, TypeOK, SignRequest, OtherRequest
      <4>1. CASE InsertSignature(r)
        BY <4>1 DEF InsertSignature
      <4>2. CASE BroadcastRaw(r)
        BY <4>2 DEF BroadcastRaw
      <4>3. CASE RequestBroadcast(r)
        BY <4>3 DEF RequestBroadcast
      <4>4. CASE \E u \in Cosigners : SubmitSignature(r, u)
        BY <4>4 DEF SubmitSignature
      <4>5. CASE \E u \in Cosigners : RequestCancel(r, u)
        BY <4>5 DEF RequestCancel
      <4> QED
        BY <2>2, <4>1, <4>2, <4>3, <4>4, <4>5
    <3>2. NoneAt("finalize") /\ NoneAt("finalize")'
      BY <3>1 DEF NoneAt, OneAtATime
    <3>3. UNCHANGED <<status, psbt>>
      BY <2>2 DEF InsertSignature, BroadcastRaw, RequestBroadcast, SubmitSignature, RequestCancel
    <3> QED
      BY <3>2, <3>3, NoneFinalizing
  <2>3. ASSUME SignData \/ NodeStep \/ UNCHANGED vars
               \/ \E u \in Rejecters : SubmitRejection(u)
        PROVE  UNCHANGED <<StatusSoFar, SignedSoFar>>
    <3>1. UNCHANGED <<status, psbt, request>>
      BY <2>3 DEF SignData, NodeStep, vars, SubmitRejection
    <3> QED
      BY <3>1 DEF StatusSoFar, SignedSoFar, Finalizing
  <2>4. ASSUME NEW r \in Requests
        PROVE  ~Stop(r)
    BY DEF Stop, OneAtATime
  <2> QED
    BY <2>1, <2>2, <2>3, <2>4, UpdateImplements, FinalizeImplements
    DEF Next, Receive, Advance
<1> QED
  BY <1>1, <1>2, TypeCorrect, AlwaysSerial, PTL
  DEF Spec, ImplementsLifecycle, Lifecycle!Spec

=============================================================================
