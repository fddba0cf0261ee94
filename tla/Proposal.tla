------------------------------ MODULE Proposal ------------------------------
(***************************************************************************)
(* One row of transaction_proposals from the moment it is inserted: the    *)
(* signature, cancel, broadcast and rejection handlers of                  *)
(* src/handlers/proposals.rs, each a sequence of SQL statements that run   *)
(* with no transaction around them, as any number of requests execute them *)
(* at once.                                                                *)
(*                                                                         *)
(* A PSBT is the set of cosigners whose signatures it carries: combining   *)
(* two PSBTs is union, and the finalize probe succeeds when at least       *)
(* Threshold signatures are present.  A raw transaction is the set of      *)
(* signatures it was extracted from; {} stands for SQL NULL.  Its txid     *)
(* does not depend on the signatures (segwit) and is left out.             *)
(***************************************************************************)
EXTENDS Naturals, FiniteSets

CONSTANTS
  Cosigners,    \* members of the federation version, each with a signer
  Threshold,    \* federations.threshold
  Proposer,     \* transaction_proposals.proposed_by
  Trezors,      \* cosigners whose signer has device_type = Trezor
  Rejecters,    \* cosigners who may post a rejection (bounds `rejections')
  Requests,     \* slots for requests being served at the same time
  MayStop,      \* can a request be abandoned between two of its awaits?
  NoUser        \* the `user' of a slot that serves no signature request

ASSUME ThresholdAssumption ==
  /\ IsFiniteSet(Cosigners)
  /\ Threshold \in 1..Cardinality(Cosigners)

ASSUME UsersAssumption ==
  /\ Proposer \in Cosigners
  /\ Trezors \subseteq Cosigners
  /\ Rejecters \subseteq Cosigners
  /\ NoUser \notin Cosigners

ASSUME StopAssumption == MayStop \in BOOLEAN

VARIABLES
  status,       \* transaction_proposals.status
  psbt,         \* transaction_proposals.psbt_b64
  finalizedTx,  \* transaction_proposals.finalized_tx_hex
  sigRows,      \* signers with a row in transaction_signatures
  rejections,   \* users with a row in transaction_rejections
  served,       \* every psbt_b64 that /sign-data has handed to a browser
  request,      \* the handler instances being executed
  chain,        \* where the node has the proposal's transaction
  acceptedTx    \* the transaction the node last accepted, {} before any

dbVars   == <<status, psbt, finalizedTx, sigRows, rejections>>
nodeVars == <<chain, acceptedTx>>
vars     == <<dbVars, nodeVars, served, request>>

Statuses    == {"proposed", "signing", "finalized", "broadcast", "cancelled"}
ChainStates == {"unseen", "mempool", "confirmed", "conflicted"}

(***************************************************************************)
(* A request slot: the next statement of the handler, the signing user,    *)
(* and what the handler carries from its earlier awaits (the merged PSBT   *)
(* of a signature request, the raw transaction of a broadcast).            *)
(***************************************************************************)
SignRequest  == [step : {"insert", "update", "finalize"},
                 user : Cosigners, held : SUBSET Cosigners]
OtherRequest == [step : {"idle", "cancel", "send", "mark"},
                 user : {NoUser}, held : SUBSET Cosigners]

TypeOK ==
  /\ status \in Statuses
  /\ psbt \subseteq Cosigners
  /\ finalizedTx \subseteq Cosigners
  /\ sigRows \subseteq Cosigners
  /\ rejections \subseteq Rejecters
  /\ served \subseteq SUBSET Cosigners
  /\ request \in [Requests -> SignRequest \cup OtherRequest]
  /\ chain \in ChainStates
  /\ acceptedTx \subseteq Cosigners

Idle == [step |-> "idle", user |-> NoUser, held |-> {}]

Goto(r, step) == request' = [request EXCEPT ![r].step = step]
Finish(r)     == request' = [request EXCEPT ![r] = Idle]
Start(r, step, user, held) ==
  /\ request[r].step = "idle"
  /\ request' = [request EXCEPT ![r] = [step |-> step, user |-> user, held |-> held]]

\* Mutants: the finalize probe is off by one either way.
FullySignedEarly(tx) == Cardinality(tx) + 1 >= Threshold
FullySignedLate(tx)  == Cardinality(tx) > Threshold

FullySigned(tx) == Cardinality(tx) >= Threshold

Init ==
  /\ status = "proposed"
  /\ psbt = {}
  /\ finalizedTx = {}
  /\ sigRows = {}
  /\ rejections = {}
  /\ served = {}
  /\ request = [r \in Requests |-> Idle]
  /\ chain = "unseen"
  /\ acceptedTx = {}

-----------------------------------------------------------------------------
(* Signing: /sign-data, then /signatures or /partial-psbt *)

\* Mutant: only a transaction on its way stops the signing.
SignableCancelled == status \in {"proposed", "signing", "cancelled"}

Signable == status \in {"proposed", "signing"}

\* sign_data: the browser receives the canonical PSBT to put on the device.
SignData ==
  /\ Signable
  /\ served' = served \cup {psbt}
  /\ UNCHANGED <<dbVars, nodeVars, request>>

\* What the cosigner contributes.  A Trezor's signatures are injected into
\* the PSBT the handler has just read; a Jade or a Ledger returns the PSBT
\* its browser was served, with its signature added.
Partial(u, page) == (IF u \in Trezors THEN psbt ELSE page) \cup {u}

\* Mutants: the contribution is not recorded first; it replaces the PSBT read.
SubmitUnrecorded(r, u) ==
  /\ Signable
  /\ \E page \in served : Start(r, "update", u, psbt \cup Partial(u, page))
  /\ UNCHANGED <<dbVars, nodeVars, served>>
SubmitUncombined(r, u) ==
  /\ Signable
  /\ \E page \in served : Start(r, "insert", u, Partial(u, page))
  /\ UNCHANGED <<dbVars, nodeVars, served>>

\* submit_signature and submit_partial_psbt, up to the merge: the proposal is
\* read, its status checked, and the partial combined with the PSBT read.
SubmitSignature(r, u) ==
  /\ Signable
  /\ \E page \in served : Start(r, "insert", u, psbt \cup Partial(u, page))
  /\ UNCHANGED <<dbVars, nodeVars, served>>

\* Mutant: ON CONFLICT DO UPDATE.
InsertUpsert(r) ==
  /\ request[r].step = "insert"
  /\ sigRows' = sigRows \cup {request[r].user}
  /\ Goto(r, "update")
  /\ UNCHANGED <<status, psbt, finalizedTx, rejections, nodeVars, served>>

\* db::insert_signature; a conflict ends the request without touching the row.
InsertSignature(r) ==
  /\ request[r].step = "insert"
  /\ IF request[r].user \in sigRows
     THEN /\ Finish(r)
          /\ UNCHANGED sigRows
     ELSE /\ sigRows' = sigRows \cup {request[r].user}
          /\ Goto(r, "update")
  /\ UNCHANGED <<status, psbt, finalizedTx, rejections, nodeVars, served>>

\* Mutant: the transaction is never extracted.
UpdateOnly(r) ==
  /\ request[r].step = "update"
  /\ psbt' = request[r].held
  /\ status' = IF FullySigned(request[r].held) THEN "finalized" ELSE "signing"
  /\ Finish(r)
  /\ UNCHANGED <<finalizedTx, sigRows, rejections, nodeVars, served>>

\* db::update_proposal_psbt: overwrites PSBT and status, whatever they are now.
UpdatePsbt(r) ==
  /\ request[r].step = "update"
  /\ psbt' = request[r].held
  /\ IF FullySigned(request[r].held)
     THEN /\ status' = "finalized"
          /\ Goto(r, "finalize")
     ELSE /\ status' = "signing"
          /\ Finish(r)
  /\ UNCHANGED <<finalizedTx, sigRows, rejections, nodeVars, served>>

\* finalize_and_extract, then db::finalize_proposal.
FinalizeProposal(r) ==
  /\ request[r].step = "finalize"
  /\ finalizedTx' = request[r].held
  /\ status' = "finalized"
  /\ Finish(r)
  /\ UNCHANGED <<psbt, sigRows, rejections, nodeVars, served>>

-----------------------------------------------------------------------------
(* Cancel, reject, broadcast *)

\* Mutant: require_status_in is forgotten.
CancelAnytime(r, u) ==
  /\ u = Proposer
  /\ Start(r, "cancel", NoUser, {})
  /\ UNCHANGED <<dbVars, nodeVars, served>>

\* cancel, up to its guards: only the proposer, and not after broadcast.
RequestCancel(r, u) ==
  /\ u = Proposer
  /\ status \in {"proposed", "signing", "finalized"}
  /\ Start(r, "cancel", NoUser, {})
  /\ UNCHANGED <<dbVars, nodeVars, served>>

\* db::cancel_proposal: unconditional.
CancelProposal(r) ==
  /\ request[r].step = "cancel"
  /\ status' = "cancelled"
  /\ Finish(r)
  /\ UNCHANGED <<psbt, finalizedTx, sigRows, rejections, nodeVars, served>>

\* submit_rejection: recorded in any status, never changes the proposal.
SubmitRejection(u) ==
  /\ rejections' = rejections \cup {u}
  /\ UNCHANGED <<status, psbt, finalizedTx, sigRows, nodeVars, served, request>>

\* Mutant: the row is marked without sending.
BroadcastUnsent(r) ==
  /\ status = "finalized"
  /\ finalizedTx # {}
  /\ Start(r, "mark", NoUser, finalizedTx)
  /\ UNCHANGED <<dbVars, nodeVars, served>>

\* broadcast, up to its guards: the proposal is read as finalized, with a tx.
RequestBroadcast(r) ==
  /\ status = "finalized"
  /\ finalizedTx # {}
  /\ Start(r, "send", NoUser, finalizedTx)
  /\ UNCHANGED <<dbVars, nodeVars, served>>

\* sendrawtransaction takes a transaction it does not have, or has unmined,
\* if its inputs are unspent and its scripts satisfied.
Acceptable(tx) ==
  /\ chain \in {"unseen", "mempool"}
  /\ Cardinality(tx) >= Threshold

\* broadcast_raw: a rejection by the node ends the request.
BroadcastRaw(r) ==
  /\ request[r].step = "send"
  /\ IF Acceptable(request[r].held)
     THEN /\ chain' = "mempool"
          /\ acceptedTx' = IF chain = "unseen" THEN request[r].held ELSE acceptedTx
          /\ Goto(r, "mark")
     ELSE /\ Finish(r)
          /\ UNCHANGED nodeVars
  /\ UNCHANGED <<dbVars, served>>

\* Mutant: a status that the column's CHECK does not list.
MarkConfirmed(r) ==
  /\ request[r].step = "mark"
  /\ status' = "confirmed"
  /\ Finish(r)
  /\ UNCHANGED <<psbt, finalizedTx, sigRows, rejections, nodeVars, served>>

\* db::mark_proposal_broadcast: unconditional.
MarkBroadcast(r) ==
  /\ request[r].step = "mark"
  /\ status' = "broadcast"
  /\ Finish(r)
  /\ UNCHANGED <<psbt, finalizedTx, sigRows, rejections, nodeVars, served>>

-----------------------------------------------------------------------------
(* What the handlers do not control *)

\* The browser disconnects, the process dies, or a statement fails: the
\* handler runs no further and what it has written stays.
Stop(r) ==
  /\ MayStop
  /\ request[r].step # "idle"
  /\ Finish(r)
  /\ UNCHANGED <<dbVars, nodeVars, served>>

\* The node mines the transaction, drops it from its mempool, or learns of
\* another transaction that spends one of its inputs.
NodeStep ==
  /\ \/ chain = "mempool" /\ chain' = "confirmed"
     \/ chain = "mempool" /\ chain' = "unseen"
     \/ chain \in {"unseen", "mempool"} /\ chain' = "conflicted"
  /\ UNCHANGED <<acceptedTx, dbVars, served, request>>

-----------------------------------------------------------------------------

\* The next statement of a request already being served.
Advance(r) ==
  \/ InsertSignature(r)
  \/ UpdatePsbt(r)
  \/ FinalizeProposal(r)
  \/ CancelProposal(r)
  \/ BroadcastRaw(r)
  \/ MarkBroadcast(r)

Receive(r) ==
  \/ \E u \in Cosigners : SubmitSignature(r, u) \/ RequestCancel(r, u)
  \/ RequestBroadcast(r)

Next ==
  \/ \E r \in Requests : Receive(r) \/ Advance(r) \/ Stop(r)
  \/ \E u \in Rejecters : SubmitRejection(u)
  \/ SignData
  \/ NodeStep

Spec == Init /\ [][Next]_vars

\* The runtime keeps polling a handler that nobody abandons.
FairSpec == Spec /\ \A r \in Requests : WF_vars(Advance(r))

-----------------------------------------------------------------------------
(* What holds with any number of requests at once, abandoned anywhere *)

\* Every signature the server has put in the stored PSBT, in the extracted
\* transaction or on the network belongs to a cosigner whose contribution is
\* recorded: the insert precedes each use, however stale the PSBT merged.
SignaturesRecorded == psbt \cup finalizedTx \cup acceptedTx \subseteq sigRows

\* A stored raw transaction satisfies the federation's script, and so does one
\* that a broadcast read earlier and is about to send: neither a stale merge
\* nor a later overwrite of the PSBT leaves a transaction the node refuses.
StoredTxMeetsThreshold ==
  /\ finalizedTx # {} => Cardinality(finalizedTx) >= Threshold
  /\ \A r \in Requests :
       request[r].step = "send" => Cardinality(request[r].held) >= Threshold

\* The proposal is only ever shown as broadcast after a node accepted it.
BroadcastWasAccepted == status = "broadcast" => acceptedTx # {}

\* The primary key of transaction_signatures is the lock that decides which
\* of a cosigner's racing submissions may rewrite the PSBT: only one does.
OneWriterPerCosigner ==
  \A r, s \in Requests :
    /\ request[r].step \in {"update", "finalize"} => request[r].user \in sigRows
    /\ /\ r # s
       /\ request[r].step \in {"update", "finalize"}
       /\ request[s].step \in {"update", "finalize"}
       => request[r].user # request[s].user

\* Why the four properties above survive every step: what a handler carries
\* across its awaits, and what browsers were served, is as well-founded as
\* what the row holds.  The theorems are proved from this invariant.
InFlightInv ==
  /\ \A page \in served : page \subseteq sigRows
  /\ \A r \in Requests :
       /\ request[r].step = "insert" =>
            request[r].held \subseteq sigRows \cup {request[r].user}
       /\ request[r].step # "insert" => request[r].held \subseteq sigRows
       /\ request[r].step = "finalize" => Cardinality(request[r].held) >= Threshold
       /\ request[r].step = "mark" => acceptedTx # {}
  /\ chain = "mempool" => acceptedTx # {}
  /\ acceptedTx # {} => Cardinality(acceptedTx) >= Threshold

\* What the signing flow promises whatever its scheduling: a transaction gets
\* to the network only with the recorded consent of Threshold cosigners.
Quorums == {q \in SUBSET Cosigners : Cardinality(q) >= Threshold}
Consent == INSTANCE CosignerConsent WITH approvals <- sigRows, settled <- acceptedTx

\* The handlers, interleaved and abandoned at will, implement that promise.
ImplementsConsent == Consent!Spec

-----------------------------------------------------------------------------
(* What holds when requests are served one at a time and none is abandoned *)

AtRest == \A r \in Requests : request[r].step = "idle"

\* The PSBT carries the signature of every cosigner whose submission was
\* accepted; a duplicate is dropped because "we already accepted their work".
AcceptedWorkKept == AtRest => psbt = sigRows

\* `finalized' means that the raw transaction has been extracted too.
FinalizedHasTx == AtRest /\ status = "finalized" => finalizedTx # {}

\* `cancelled' means that the proposer cancelled before broadcast.
CancelledBeforeBroadcast == status = "cancelled" => acceptedTx = {}

\* A proposal takes signatures until it is cancelled; then it stays cancelled.
CancelledStaysCancelled == [][status = "cancelled" => status' = "cancelled"]_vars

\* The status life cycle with each request one step.  A submission that has
\* met the threshold takes effect when the extracted transaction is stored.
Finalizing  == {r \in Requests : request[r].step = "finalize"}
SignedSoFar == psbt \ {request[r].user : r \in Finalizing}
StatusSoFar ==
  IF Finalizing = {} THEN status
  ELSE IF Cardinality(psbt) = 1 THEN "proposed" ELSE "signing"
Lifecycle == INSTANCE ProposalLifecycle WITH status <- StatusSoFar, signed <- SignedSoFar

\* One request at a time, the handlers implement the documented life cycle.
ImplementsLifecycle == Lifecycle!Spec

\* Once enough cosigners' contributions are recorded, the transaction to
\* broadcast gets extracted: no further request is needed.
ThresholdFinalizes == Cardinality(sigRows) >= Threshold ~> finalizedTx # {}

=============================================================================
