--------------------------- MODULE PipelineProofs ---------------------------
(***************************************************************************)
(* Proofs about CctpPipeline for any number of deposits, logs, blocks,     *)
(* runs, crashes and any set of faults.                                    *)
(*                                                                         *)
(* The pipeline's steps are steps of the listener's module, so what        *)
(* DepositIndexerProofs proves of the listener holds here.  On top of that *)
(* comes one inductive invariant, PipeInv: where a call or a workflow is   *)
(* in its code says which of its transactions were accepted or mined, and  *)
(* no row claims more than that.                                           *)
(*                                                                         *)
(* The second part assumes one log per transaction and is about the USDC:  *)
(* custody, the shared wallet, the principal, the statuses that are final. *)
(***************************************************************************)
EXTENDS PipelineProperties, DepositIndexerProofs, SetSums

Bridging == pc \in {"bridge", "rebridge"}

OwnTypes ==
    /\ rows \in Rows(Txs)
    /\ vault \in Nat /\ withdrawn \subseteq Txs
    /\ bridgeWallet \in Nat /\ allowance \in Nat /\ arbWallet \in Nat
    /\ vaultTx \in [Runs -> TxStates]
    /\ approveTx \in [Runs -> TxStates]
    /\ burnTx \in [Runs -> TxStates]
    /\ mintTx \in [Runs -> TxStates]
    /\ call \in [stage : CallStages, pre : Nat]
    /\ wf \in [Runs -> [stage : WfStages, pre : Nat, minted : Nat]]
    /\ principal \in [Txs -> Nat]

PipeTypes == TypeInv /\ OwnTypes

\* The runs and calls of a deposit are numbered from 1 as they start.
Numbering ==
    /\ \A x \in Txs : bridgings[x] <= MaxRuns /\ spawned[x] <= MaxRuns
    /\ \A x \in Txs : x \notin stored => bridgings[x] = 0 /\ spawned[x] = 0
    /\ pc = "stored" => bridgings[cur[1]] = 0
    /\ pc \in {"stored", "bridge"} => spawned[cur[1]] = 0
    /\ Bridging => 1 <= bridgings[cur[1]] /\ spawned[cur[1]] < MaxRuns

\* A transfer has its row, and whatever works on a transfer has one.
RowsMatch ==
    /\ \A x \in Txs : Exists(rows, x) <=> x \in transfers
    /\ \A w \in Runs : wf[w].stage # "none" => w[1] \in transfers
    /\ Bridging => cur[1] \in transfers

\* Until a workflow is launched a row has only what the listener and its call wrote;
\* from then on it is never DETECTED again.
StatusesFollow ==
    /\ \A x \in Txs :
          IF spawned[x] = 0 THEN rows[x].status \in BeforeWorkflow \union {NoRow}
                            ELSE rows[x].status \notin {"DEPOSIT_DETECTED", NoRow}
    /\ \A w \in Runs : wf[w].stage # "none" => spawned[w[1]] # 0

-----------------------------------------------------------------------------
LEMMA MaxRunsPositive == MaxRuns \in Nat /\ 1 <= MaxRuns
  BY SizesAssumption, PipelineAssumption

LEMMA NumberingInit == IndexerInit => Numbering
  BY MaxRunsPositive DEF IndexerInit, Numbering, Bridging

LEMMA NumberingStep ==
    TypeInv /\ Numbering /\ [IndexerNext]_indexerVars => Numbering'
<1> SUFFICES ASSUME TypeInv, Numbering, [IndexerNext]_indexerVars PROVE Numbering'
  OBVIOUS
<1>0. /\ bridgings \in [Txs -> Nat] /\ spawned \in [Txs -> Nat]
      /\ pc \in Handling => cur[1] \in Txs /\ cur[1] \in stored
      /\ \A l \in todo : l[1] \in Txs
  <2>1. todo \subseteq Logs
    BY DEF TypeInv, IndexerTypeOK
  <2>2. QED
    BY <2>1, LogShape DEF TypeInv, IndexerTypeOK, CurIsStored
<1> USE MaxRunsPositive DEF Numbering, Bridging, Handling, chainVars, tableVars,
        loopVars, historyVars
<1>1. ASSUME NEW last \in 0 .. NumTx, NewBlock(last) PROVE Numbering'
  BY <1>1 DEF NewBlock
<1>2. CASE start
  BY <1>2 DEF start
<1>3. CASE queryWindow
  BY <1>3 DEF queryWindow
<1>4. ASSUME NEW l \in todo, createDeposit(l) PROVE Numbering'
  BY <1>0, <1>4 DEF createDeposit, TakeLog
<1>5. ASSUME NEW l \in todo, duplicateDeposit(l) PROVE Numbering'
  BY <1>0, <1>5 DEF duplicateDeposit, TakeLog
<1>6. ASSUME NEW l \in todo, createDepositFails(l) PROVE Numbering'
  BY <1>6 DEF createDepositFails
<1>7. CASE createTransfer
  BY <1>0, <1>7 DEF createTransfer, CallBridge
<1>8. CASE createTransferFails
  BY <1>8 DEF createTransferFails, NextLog
<1>9. ASSUME NEW st \in StatusFound, recoverDuplicate(st) PROVE Numbering'
  <2>1. CASE st = "VAULT_TO_BRIDGE_TRANSFER_CONFIRMED"
    BY <1>0, <1>9, <2>1 DEF recoverDuplicate, NextLog, Spawn
  <2>2. CASE st # "VAULT_TO_BRIDGE_TRANSFER_CONFIRMED"
    BY <1>0, <1>9, <2>2 DEF recoverDuplicate, CallBridge
  <2>3. QED
    BY <2>1, <2>2
<1>10. CASE recoverDuplicateFails
  BY <1>10 DEF recoverDuplicateFails, AbandonWindow
<1>11. CASE bridgeDone
  BY <1>0, <1>11 DEF bridgeDone, NextLog, Spawn
<1>12. CASE bridgeThrows
  BY <1>12 DEF bridgeThrows, NextLog, AbandonWindow
<1>13. CASE endWindow
  BY <1>13 DEF endWindow
<1>14. CASE crash
  BY <1>14 DEF crash
<1>15. CASE UNCHANGED indexerVars
  BY <1>15 DEF indexerVars
<1>16. QED
  BY <1>1, <1>2, <1>3, <1>4, <1>5, <1>6, <1>7, <1>8, <1>9, <1>10, <1>11, <1>12,
     <1>13, <1>14, <1>15 DEF IndexerNext, ListenerNext, handleLog

-----------------------------------------------------------------------------
\* A row that is found has a status.
LEMMA RecoverStatus ==
    ASSUME PipeTypes, RowsMatch, StatusesFollow, recover
    PROVE  \E st \in StatusFound : recoverDuplicate(st)
<1> DEFINE st == IF cur[1] \in transfers THEN rows[cur[1]].status
                                         ELSE "DEPOSIT_DETECTED"
<1>1. recoverDuplicate(st)
  BY DEF recover
<1>2. pc = "duplicate"
  BY <1>1 DEF recoverDuplicate
<1>3. cur[1] \in Txs
  BY <1>2, LogShape DEF PipeTypes, TypeInv, CurIsStored, Handling
<1>4. st \in StatusFound
  BY <1>3 DEF PipeTypes, OwnTypes, RowsMatch, StatusesFollow, Rows, Exists, StatusFound
<1> HIDE DEF st
<1>5. QED
  BY <1>1, <1>4

\* So a step of the pipeline is a step of the
\* listener's module, or leaves its variables alone.
LEMMA StepRefines ==
    ASSUME PipeTypes, RowsMatch, StatusesFollow, [Next]_allVars
    PROVE  [IndexerNext]_indexerVars
<1>1. ASSUME NEW last \in 0 .. NumTx, blockWithDeposits(last) PROVE IndexerNext
  BY <1>1 DEF blockWithDeposits, IndexerNext
<1>2. ASSUME NEW x \in Txs, userWithdraws(x) PROVE UNCHANGED indexerVars
  BY <1>2 DEF userWithdraws
<1>3. ASSUME NEW r \in Runs, mineTx(r) PROVE UNCHANGED indexerVars
  BY <1>3 DEF mineTx, mineVaultTx, mineApproveTx, mineBurnTx, mineMintTx
<1>4. CASE listen
  BY <1>4 DEF listen, IndexerNext
<1>5. CASE recover
  BY <1>5, RecoverStatus DEF IndexerNext
<1>6. CASE bridgeStep
  BY <1>6 DEF bridgeStep, readStatusAndBalance, submitVaultTx, markInitiated,
              verifyBridgeBalance, confirmBridge, failBridge, CallTo, IndexerNext
<1>7. CASE bridgeCallFails
  BY <1>7 DEF bridgeCallFails, CallTo
<1>8. ASSUME NEW w \in Runs, workflowStep(w) PROVE UNCHANGED indexerVars
  BY <1>8 DEF workflowStep, checkBalance, readAllowance, approvalConfirmed, submitBurn,
              verifyBurn, saveBurn, failBurn, attested, attestedLegacy,
              attestationTimesOut, saveAttestation, failAttestation,
              readInitialBalance, gasTooLow, submitMint, readFinalBalance, complete,
              initializeGizaPosition, failMint, OnlyWorkflow, OnlyRow
<1>9. ASSUME NEW w \in Runs, chainCallFails(w) \/ rowUpdateFails(w)
      PROVE  UNCHANGED indexerVars
  BY <1>9 DEF chainCallFails, rowUpdateFails, OnlyWorkflow, OnlyRow
<1>10. CASE processCrash
  BY <1>10 DEF processCrash, IndexerNext
<1>11. CASE UNCHANGED allVars
  BY <1>11 DEF allVars
<1>12. QED
  BY <1>1, <1>2, <1>3, <1>4, <1>5, <1>6, <1>7, <1>8, <1>9, <1>10, <1>11 DEF Next

-----------------------------------------------------------------------------
(* Types.                                                                  *)

RowShape == [ status : Statuses \union {NoRow}, bridgeTx : Nat, burnTx : Nat,
              hash : Nat, bridgeError : BOOLEAN, attested : BOOLEAN, mintTx : Nat ]

\* What a row update of the pipeline does to a table: it writes row x, which it
\* neither creates nor drops.
Writes(t, u, x) ==
    /\ u \in Rows(Txs)
    /\ \A y \in Txs \ {x} : u[y] = t[y]
    /\ Exists(u, x)

LEMMA OneRow ==
    ASSUME NEW t \in Rows(Txs), NEW x \in Txs, NEW r \in RowShape,
           r.status # NoRow, NEW u, u = [t EXCEPT ![x] = r]
    PROVE  Writes(t, u, x) /\ u[x] = r
  BY DEF Rows, RowShape, Writes, Exists

LEMMA WritesInitiated ==
    ASSUME NEW t \in Rows(Txs), NEW x \in Txs, NEW k \in Nat,
           NEW u, u = markVaultToBridgeInitiated(t, x, k)
    PROVE  /\ Writes(t, u, x)
           /\ u[x].status = "VAULT_TO_BRIDGE_TRANSFER_INITIATED"
           /\ u[x].burnTx = t[x].burnTx /\ u[x].hash = t[x].hash
           /\ u[x].attested = t[x].attested /\ u[x].mintTx = t[x].mintTx
<1> DEFINE r == [t[x] EXCEPT !.status = "VAULT_TO_BRIDGE_TRANSFER_INITIATED",
                             !.bridgeTx = k, !.bridgeError = FALSE]
<1>1. r \in RowShape /\ r.status # NoRow
  BY DEF Rows, RowShape, Statuses, NoRow
<1>2. u = [t EXCEPT ![x] = r]
  BY DEF Rows, markVaultToBridgeInitiated
<1> HIDE DEF r
<1>3. Writes(t, u, x) /\ u[x] = r
  BY <1>1, <1>2, OneRow DEF Rows
<1>4. QED
  BY <1>3 DEF r, Rows

LEMMA WritesConfirmed ==
    ASSUME NEW t \in Rows(Txs), NEW x \in Txs, NEW k \in Nat,
           NEW u, u = markVaultToBridgeConfirmed(t, x, k)
    PROVE  /\ Writes(t, u, x)
           /\ u[x].status = "VAULT_TO_BRIDGE_TRANSFER_CONFIRMED"
           /\ u[x].bridgeTx = k /\ u[x].burnTx = t[x].burnTx
           /\ u[x].hash = t[x].hash /\ u[x].attested = t[x].attested
           /\ u[x].mintTx = t[x].mintTx
<1> DEFINE r == [t[x] EXCEPT !.status = "VAULT_TO_BRIDGE_TRANSFER_CONFIRMED",
                             !.bridgeTx = k, !.bridgeError = FALSE]
<1>1. r \in RowShape /\ r.status # NoRow
  BY DEF Rows, RowShape, Statuses, NoRow
<1>2. u = [t EXCEPT ![x] = r]
  BY DEF Rows, markVaultToBridgeConfirmed
<1> HIDE DEF r
<1>3. Writes(t, u, x) /\ u[x] = r
  BY <1>1, <1>2, OneRow DEF Rows
<1>4. QED
  BY <1>3 DEF r, Rows

LEMMA WritesBridgeFailed ==
    ASSUME NEW t \in Rows(Txs), NEW x \in Txs, Exists(t, x),
           NEW u, u = markVaultToBridgeFailed(t, x)
    PROVE  Writes(t, u, x) /\ u[x] = [t[x] EXCEPT !.bridgeError = TRUE]
<1> DEFINE r == [t[x] EXCEPT !.bridgeError = TRUE]
<1>1. r \in RowShape /\ r.status # NoRow
  BY DEF Rows, RowShape, Statuses, NoRow, Exists
<1>2. u = [t EXCEPT ![x] = r]
  BY DEF Rows, markVaultToBridgeFailed
<1> HIDE DEF r
<1>3. Writes(t, u, x) /\ u[x] = r
  BY <1>1, <1>2, OneRow DEF Rows
<1>4. QED
  BY <1>3 DEF r

LEMMA WritesAttested ==
    ASSUME NEW t \in Rows(Txs), NEW x \in Txs,
           NEW u, u = updateAttestationReceived(t, x)
    PROVE  /\ Writes(t, u, x)
           /\ u[x] = [t[x] EXCEPT !.status = "ATTESTATION_RECEIVED", !.attested = TRUE]
<1> DEFINE r == [t[x] EXCEPT !.status = "ATTESTATION_RECEIVED", !.attested = TRUE]
<1>1. r \in RowShape /\ r.status # NoRow
  BY DEF Rows, RowShape, Statuses, NoRow
<1>2. u = [t EXCEPT ![x] = r]
  BY DEF Rows, updateAttestationReceived
<1> HIDE DEF r
<1>3. Writes(t, u, x) /\ u[x] = r
  BY <1>1, <1>2, OneRow DEF Rows
<1>4. QED
  BY <1>3 DEF r

LEMMA WritesAttestationPending ==
    ASSUME NEW t \in Rows(Txs), NEW x \in Txs,
           NEW u, u = markAttestationPending(t, x)
    PROVE  Writes(t, u, x) /\ u[x] = [t[x] EXCEPT !.status = "ATTESTATION_PENDING"]
<1> DEFINE r == [t[x] EXCEPT !.status = "ATTESTATION_PENDING"]
<1>1. r \in RowShape /\ r.status # NoRow
  BY DEF Rows, RowShape, Statuses, NoRow
<1>2. u = [t EXCEPT ![x] = r]
  BY DEF Rows, markAttestationPending
<1> HIDE DEF r
<1>3. Writes(t, u, x) /\ u[x] = r
  BY <1>1, <1>2, OneRow DEF Rows
<1>4. QED
  BY <1>3 DEF r

LEMMA WritesMintPending ==
    ASSUME NEW t \in Rows(Txs), NEW x \in Txs,
           NEW u, u = markMintPending(t, x)
    PROVE  Writes(t, u, x) /\ u[x] = [t[x] EXCEPT !.status = "MINT_PENDING"]
<1> DEFINE r == [t[x] EXCEPT !.status = "MINT_PENDING"]
<1>1. r \in RowShape /\ r.status # NoRow
  BY DEF Rows, RowShape, Statuses, NoRow
<1>2. u = [t EXCEPT ![x] = r]
  BY DEF Rows, markMintPending
<1> HIDE DEF r
<1>3. Writes(t, u, x) /\ u[x] = r
  BY <1>1, <1>2, OneRow DEF Rows
<1>4. QED
  BY <1>3 DEF r

LEMMA WritesCompleted ==
    ASSUME NEW t \in Rows(Txs), NEW x \in Txs, NEW k \in Nat,
           NEW u, u = markTransferCompleted(t, x, k)
    PROVE  /\ Writes(t, u, x)
           /\ u[x].status = "TRANSFER_COMPLETED"
           /\ u[x].mintTx = k /\ u[x].burnTx = t[x].burnTx
           /\ u[x].hash = t[x].hash /\ u[x].attested = t[x].attested
<1> DEFINE r == [t[x] EXCEPT !.status = "TRANSFER_COMPLETED", !.mintTx = k]
<1>1. r \in RowShape /\ r.status # NoRow
  BY DEF Rows, RowShape, Statuses, NoRow
<1>2. u = [t EXCEPT ![x] = r]
  BY DEF Rows, markTransferCompleted
<1> HIDE DEF r
<1>3. Writes(t, u, x) /\ u[x] = r
  BY <1>1, <1>2, OneRow DEF Rows
<1>4. QED
  BY <1>3 DEF r, Rows

LEMMA WritesTransferFailed ==
    ASSUME NEW t \in Rows(Txs), NEW x \in Txs,
           NEW u, u = markTransferFailed(t, x)
    PROVE  Writes(t, u, x) /\ u[x] = [t[x] EXCEPT !.status = "TRANSFER_FAILED"]
<1> DEFINE r == [t[x] EXCEPT !.status = "TRANSFER_FAILED"]
<1>1. r \in RowShape /\ r.status # NoRow
  BY DEF Rows, RowShape, Statuses, NoRow
<1>2. u = [t EXCEPT ![x] = r]
  BY DEF Rows, markTransferFailed
<1> HIDE DEF r
<1>3. Writes(t, u, x) /\ u[x] = r
  BY <1>1, <1>2, OneRow DEF Rows
<1>4. QED
  BY <1>3 DEF r

\* The burn's evidence is written only when no row has its message hash yet.
LEMMA WritesBurn ==
    ASSUME NEW t \in Rows(Txs), NEW x \in Txs, NEW k \in Nat, NEW h \in Nat,
           Exists(t, x), NEW u, u = updateBurnConfirmed(t, x, k, h)
    PROVE  /\ Writes(t, u, x)
           /\ \/ u = t /\ \E y \in Txs : t[y].hash = h
              \/ /\ \A y \in Txs : t[y].hash # h
                 /\ u[x].status = "BURN_CONFIRMED"
                 /\ u[x].burnTx = k /\ u[x].hash = h
                 /\ u[x].attested = t[x].attested /\ u[x].mintTx = t[x].mintTx
<1> DEFINE r == [t[x] EXCEPT !.status = "BURN_CONFIRMED", !.burnTx = k, !.hash = h]
<1>0. HashTaken(t, h) <=> \E y \in Txs : t[y].hash = h
  BY DEF HashTaken, Rows
<1>1. CASE HashTaken(t, h)
  BY <1>0, <1>1 DEF updateBurnConfirmed, Writes
<1>2. CASE ~HashTaken(t, h)
  <2>1. r \in RowShape /\ r.status # NoRow
    BY DEF Rows, RowShape, Statuses, NoRow
  <2>2. u = [t EXCEPT ![x] = r]
    BY <1>2 DEF Rows, updateBurnConfirmed
  <2> HIDE DEF r
  <2>3. Writes(t, u, x) /\ u[x] = r
    BY <2>1, <2>2, OneRow DEF Rows
  <2>4. /\ u[x].status = "BURN_CONFIRMED" /\ u[x].burnTx = k /\ u[x].hash = h
        /\ u[x].attested = t[x].attested /\ u[x].mintTx = t[x].mintTx
    BY <2>3 DEF r, Rows
  <2>5. QED
    BY <1>0, <1>2, <2>3, <2>4
<1>3. QED
  BY <1>1, <1>2

\* What the listener's steps do to the rows: a transfer that is new gets its row.
LEMMA ListenerRows ==
    ASSUME rows \in Rows(Txs), rows' = [x \in Txs |-> RowFor(x)[x]]
    PROVE  /\ rows' \in Rows(Txs)
           /\ \A x \in Txs : rows'[x] =
                 IF x \in transfers' /\ ~Exists(rows, x)
                   THEN [rows[x] EXCEPT !.status = "DEPOSIT_DETECTED"] ELSE rows[x]
<1> DEFINE new(x) == IF x \in transfers' /\ ~Exists(rows, x)
                       THEN [rows[x] EXCEPT !.status = "DEPOSIT_DETECTED"]
                       ELSE rows[x]
<1>1. ASSUME NEW x \in Txs PROVE RowFor(x)[x] = new(x)
  <2>1. [rows EXCEPT ![x].status = "DEPOSIT_DETECTED"][x]
          = [rows[x] EXCEPT !.status = "DEPOSIT_DETECTED"]
    BY DEF Rows
  <2>2. QED
    BY <2>1 DEF RowFor, createTransferFromDeposit
<1>2. ASSUME NEW x \in Txs PROVE new(x) \in RowShape
  <2>1. rows[x] \in RowShape
    BY DEF Rows, RowShape
  <2>2. [rows[x] EXCEPT !.status = "DEPOSIT_DETECTED"] \in RowShape
    BY <2>1 DEF RowShape, Statuses
  <2>3. QED
    BY <2>1, <2>2
<1> HIDE DEF new
<1>3. \A x \in Txs : rows'[x] = new(x)
  BY <1>1
<1>4. rows' = [x \in Txs |-> new(x)]
  BY <1>1
<1>5. rows' \in [Txs -> RowShape]
  BY <1>2, <1>4
<1>6. rows' \in Rows(Txs)
  BY <1>5 DEF Rows, RowShape
<1>7. QED
  BY <1>3, <1>6 DEF new

LEMMA CurCallIsRun ==
    ASSUME TypeInv, Numbering, Bridging
    PROVE  /\ cur[1] \in Txs /\ CurCall \in Runs /\ CurCall[1] = cur[1]
           /\ CurCall[2] = bridgings[cur[1]] /\ CurCall[2] \in 1 .. MaxRuns
<1>1. cur[1] \in Txs
  BY LogShape DEF TypeInv, CurIsStored, Handling, Bridging
<1>2. bridgings[cur[1]] \in 1 .. MaxRuns
  BY <1>1, MaxRunsPositive DEF TypeInv, IndexerTypeOK, Numbering
<1>3. QED
  BY <1>1, <1>2 DEF CurCall, Runs

LEMMA RunShape ==
    ASSUME NEW w \in Runs
    PROVE  w[1] \in Txs /\ w[2] \in 1 .. MaxRuns /\ w[2] \in Nat /\ w = <<w[1], w[2]>>
  BY MaxRunsPositive DEF Runs

LEMMA FiniteTxs == IsFiniteSet(Txs) /\ \A D \in SUBSET Txs : IsFiniteSet(D)
<1>1. IsFiniteSet(Txs)
  BY FS_Interval, SizesAssumption DEF Txs
<1>2. QED
  BY <1>1, FS_Subset

LEMMA AmountsAreNat ==
    /\ \A x \in Txs : Amount[x] \in Nat /\ Amount[x] > 0 /\ PaidIn[x] \in Nat
    /\ \A x \in Txs : ApprovalFactor * Amount[x] \in Nat /\ HashOf[x] \in Nat
<1>1. \A m, n \in Nat : m * n \in Nat
  OBVIOUS
<1>2. QED
  BY <1>1, PipelineAssumption, LogsAssumption DEF PaidIn

-----------------------------------------------------------------------------
(* Every step of a workflow in one form: which stage it leaves and enters, *)
(* which transaction it sends, which row it writes.                        *)

WfRecords == [stage : WfStages, pre : Nat, minted : Nat]

\* Only workflow w moves.
Moves(w) ==
    /\ wf' = [wf EXCEPT ![w] = wf'[w]]
    /\ wf'[w].stage \in WfStages
    /\ wf'[w] = [stage |-> wf'[w].stage, pre |-> wf'[w].pre, minted |-> wf'[w].minted]

\* The stage a workflow may enter from each stage.
Follows(s, t) ==
    /\ s = "balance" => t \in {"approve", "burnFailed"}
    /\ s = "approve" => t \in {"approving", "burn", "burnFailed"}
    /\ s = "approving" => t \in {"burn", "burnFailed"}
    /\ s = "burn" => t \in {"burning", "burnFailed"}
    /\ s = "burning" => t \in {"saveBurn", "burnFailed"}
    /\ s = "saveBurn" => t \in {"attest", "burnFailed"}
    /\ s = "burnFailed" => t = "done"
    /\ s = "attest" => t \in {"saveAttestation", "saveLegacy", "attestationFailed"}
    /\ s = "saveAttestation" => t \in {"mint", "attestationFailed"}
    /\ s = "saveLegacy" => t = "attestationFailed"
    /\ s = "attestationFailed" => t = "done"
    /\ s = "mint" => t \in {"receive", "mintFailed"}
    /\ s = "receive" => t \in {"minting", "mintFailed"}
    /\ s = "minting" => t \in {"complete", "mintFailed"}
    /\ s = "complete" => t \in {"giza", "mintFailed"}
    /\ s = "giza" => t = "done"
    /\ s = "mintFailed" => t = "done"
    /\ s \notin {"none", "done", "lost"}

\* The balances a workflow keeps: one read when it begins, one before its mint.
Remembers(w) ==
    /\ wf'[w].pre \in {wf[w].pre, bridgeWallet, arbWallet, 0}
    /\ wf'[w].minted \in {wf[w].minted, arbWallet - wf[w].pre, 0}
    /\ wf'[w].minted \notin {wf[w].minted, 0} => wf[w].stage = "minting"
    /\ wf'[w].stage = "approve" =>
          wf'[w].pre = bridgeWallet /\ bridgeWallet >= Amount[w[1]]
    /\ wf'[w].stage \in {"approving", "burn", "burning"} => wf'[w].pre = wf[w].pre
    /\ wf'[w].stage = "receive" => wf'[w].pre = arbWallet
    /\ wf'[w].stage = "minting" => wf'[w].pre = wf[w].pre
    /\ wf'[w].stage = "complete" => wf'[w].minted = arbWallet - wf[w].pre
    /\ wf'[w].stage = "giza" => wf'[w].minted = wf[w].minted

Sends(w) ==
    /\ \/ approveTx' = approveTx
       \/ approveTx' = [approveTx EXCEPT ![w] = "pending"]
    /\ IF wf'[w].stage = "burning"
         THEN burnTx' = [burnTx EXCEPT ![w] = "pending"] /\ bridgeWallet >= Amount[w[1]]
         ELSE burnTx' = burnTx
    /\ IF wf'[w].stage = "minting"
         THEN mintTx' = [mintTx EXCEPT ![w] = "pending"]
         ELSE mintTx' = mintTx
    /\ wf'[w].stage = "saveBurn" => burnTx[w] = "mined"
    /\ wf'[w].stage = "complete" => mintTx[w] = "mined"

WritesRow(w) ==
    \/ rows' = rows /\ wf'[w].stage \notin {"attest", "giza"}
    \/ /\ wf[w].stage = "saveBurn"
       /\ rows' = updateBurnConfirmed(rows, w[1], w[2], HashOf[w[1]])
    \/ wf[w].stage = "burnFailed" /\ rows' = markTransferFailed(rows, w[1])
    \/ /\ wf[w].stage \in {"saveAttestation", "saveLegacy"}
       /\ rows' = updateAttestationReceived(rows, w[1])
    \/ wf[w].stage = "attestationFailed" /\ rows' = markAttestationPending(rows, w[1])
    \/ wf[w].stage = "complete" /\ rows' = markTransferCompleted(rows, w[1], w[2])
    \/ wf[w].stage = "mintFailed" /\ rows' = markMintPending(rows, w[1])

Invests(w) ==
    \/ principal' = principal
    \/ /\ wf[w].stage = "giza"
       /\ principal' = [principal EXCEPT ![w[1]] = wf[w].minted]

WorkflowForm(w) ==
    /\ UNCHANGED <<indexerVars, vault, withdrawn, bridgeWallet, allowance, arbWallet,
                   vaultTx, call>>
    /\ Moves(w) /\ Follows(wf[w].stage, wf'[w].stage)
    /\ Remembers(w) /\ Sends(w) /\ WritesRow(w) /\ Invests(w)

WfShaped == \E S : wf \in [Runs -> [stage : S, pre : Nat, minted : Nat]]

LEMMA ToMoves ==
    ASSUME WfShaped, NEW w \in Runs, NEW s \in WfStages, To(w, s)
    PROVE  Moves(w) /\ wf'[w].stage = s
           /\ wf'[w].pre = wf[w].pre /\ wf'[w].minted = wf[w].minted
  BY DEF WfShaped, To, Moves

LEMMA DoneMoves ==
    ASSUME WfShaped, NEW w \in Runs, Done(w)
    PROVE  Moves(w) /\ wf'[w].stage = "done" /\ wf'[w].pre = 0 /\ wf'[w].minted = 0
  BY DEF WfShaped, Done, Moves, NotStarted, WfStages

LEMMA ReadMoves ==
    ASSUME WfShaped, NEW w \in Runs
    PROVE  /\ checkBalance(w) /\ bridgeWallet >= Amount[w[1]] =>
                 /\ Moves(w) /\ wf'[w].stage = "approve"
                 /\ wf'[w].pre = bridgeWallet /\ wf'[w].minted = wf[w].minted
           /\ readInitialBalance(w) =>
                 /\ Moves(w) /\ wf'[w].stage = "receive"
                 /\ wf'[w].pre = arbWallet /\ wf'[w].minted = wf[w].minted
           /\ readFinalBalance(w) =>
                 /\ Moves(w) /\ wf'[w].stage = "complete" /\ wf'[w].pre = 0
                 /\ wf'[w].minted = arbWallet - wf[w].pre
<1> USE DEF WfShaped, Moves, WfStages, BeforeBurn, AfterSave
<1>1. ASSUME checkBalance(w), bridgeWallet >= Amount[w[1]]
      PROVE  /\ Moves(w) /\ wf'[w].stage = "approve"
             /\ wf'[w].pre = bridgeWallet /\ wf'[w].minted = wf[w].minted
  BY <1>1 DEF checkBalance
<1>2. ASSUME readInitialBalance(w)
      PROVE  /\ Moves(w) /\ wf'[w].stage = "receive"
             /\ wf'[w].pre = arbWallet /\ wf'[w].minted = wf[w].minted
  BY <1>2 DEF readInitialBalance
<1>3. ASSUME readFinalBalance(w)
      PROVE  /\ Moves(w) /\ wf'[w].stage = "complete" /\ wf'[w].pre = 0
             /\ wf'[w].minted = arbWallet - wf[w].pre
  BY <1>3 DEF readFinalBalance
<1>4. QED
  BY <1>1, <1>2, <1>3

LEMMA StagesAre ==
    /\ BeforeBurn \subseteq WfStages /\ AfterSave \subseteq WfStages
    /\ {"none", "burning", "burnFailed", "saveBurn", "done", "lost"} \subseteq WfStages
  BY DEF WfStages

LEMMA WorkflowShapes ==
    ASSUME WfShaped, NEW w \in Runs,
           workflowStep(w) \/ chainCallFails(w) \/ rowUpdateFails(w)
    PROVE  WorkflowForm(w)
<1> DEFINE s == wf[w].stage
           t == wf'[w].stage
<1> USE ToMoves, DoneMoves, StagesAre DEF OnlyWorkflow, OnlyRow, chainState, At,
        BeforeBurn, AfterSave, WorkflowForm, Follows, Remembers, Sends, WritesRow, Invests
<1>1. CASE checkBalance(w)
  <2>1. CASE bridgeWallet >= Amount[w[1]]
    <3>1. Moves(w) /\ t = "approve" /\ wf'[w].pre = bridgeWallet
          /\ wf'[w].minted = wf[w].minted
      BY <1>1, <2>1, ReadMoves
    <3>2. QED
      BY <1>1, <2>1, <3>1 DEF checkBalance
  <2>2. CASE ~(bridgeWallet >= Amount[w[1]])
    BY <1>1, <2>2 DEF checkBalance
  <2>3. QED
    BY <2>1, <2>2
<1>2. CASE readAllowance(w)
  BY <1>2 DEF readAllowance
<1>3. CASE approvalConfirmed(w)
  BY <1>3 DEF approvalConfirmed
<1>4. CASE submitBurn(w)
  BY <1>4 DEF submitBurn
<1>5. CASE verifyBurn(w)
  BY <1>5 DEF verifyBurn
<1>6. CASE saveBurn(w)
  BY <1>6 DEF saveBurn
<1>7. CASE failBurn(w)
  BY <1>7 DEF failBurn
<1>8. CASE attested(w) \/ attestedLegacy(w) \/ attestationTimesOut(w)
  BY <1>8 DEF attested, attestedLegacy, attestationTimesOut
<1>9. CASE saveAttestation(w)
  BY <1>9 DEF saveAttestation
<1>10. CASE failAttestation(w)
  BY <1>10 DEF failAttestation
<1>11. CASE readInitialBalance(w)
  BY <1>11, ReadMoves DEF readInitialBalance
<1>12. CASE gasTooLow(w)
  BY <1>12 DEF gasTooLow
<1>13. CASE submitMint(w)
  BY <1>13 DEF submitMint
<1>14. CASE readFinalBalance(w)
  BY <1>14, ReadMoves DEF readFinalBalance
<1>15. CASE complete(w)
  BY <1>15 DEF complete
<1>16. CASE initializeGizaPosition(w)
  BY <1>16 DEF initializeGizaPosition
<1>17. CASE failMint(w)
  BY <1>17 DEF failMint
<1>18. CASE chainCallFails(w)
  BY <1>18 DEF chainCallFails
<1>19. CASE rowUpdateFails(w)
  BY <1>19 DEF rowUpdateFails
<1>20. QED
  BY <1>1, <1>2, <1>3, <1>4, <1>5, <1>6, <1>7, <1>8, <1>9, <1>10, <1>11, <1>12, <1>13,
     <1>14, <1>15, <1>16, <1>17, <1>18, <1>19 DEF workflowStep

LEMMA WorkflowForms ==
    ASSUME OwnTypes, NEW w \in Runs,
           workflowStep(w) \/ chainCallFails(w) \/ rowUpdateFails(w)
    PROVE  WorkflowForm(w)
<1>1. WfShaped
  BY DEF OwnTypes, WfShaped
<1>2. QED
  BY <1>1, WorkflowShapes

-----------------------------------------------------------------------------
(* The same for the vault-to-bridge call, as long as it has not ended.     *)

CallForm ==
    /\ Bridging
    /\ UNCHANGED <<indexerVars, vault, withdrawn, bridgeWallet, allowance, arbWallet,
                   approveTx, burnTx, mintTx, wf, principal>>
    /\ call' \in [stage : CallStages, pre : Nat]
    /\ \/ /\ call.stage = "none" /\ call'.stage = "submit"
          /\ UNCHANGED <<rows, vaultTx>>
       \/ /\ call.stage = "submit" /\ call'.stage = "mark"
          /\ vaultTx' = [vaultTx EXCEPT ![CurCall] = "pending"]
          /\ UNCHANGED rows
       \/ /\ call.stage = "mark" /\ call'.stage \in {"wait", "fail"}
          /\ rows' \in {rows, markVaultToBridgeInitiated(rows, cur[1], CurCall[2])}
          /\ UNCHANGED vaultTx
       \/ /\ call.stage = "wait" /\ call'.stage = "confirm"
          /\ vaultTx[CurCall] = "mined"
          /\ UNCHANGED <<rows, vaultTx>>
       \/ /\ call.stage = "confirm" /\ call'.stage = "fail"
          /\ rows' \in {rows, markVaultToBridgeConfirmed(rows, cur[1], CurCall[2])}
          /\ UNCHANGED vaultTx
       \/ /\ call.stage \in {"none", "submit", "wait"} /\ call'.stage = "fail"
          /\ UNCHANGED <<rows, vaultTx>>

LEMMA CallForms ==
    ASSUME OwnTypes,
           \/ readStatusAndBalance \/ submitVaultTx \/ markInitiated
           \/ verifyBridgeBalance \/ bridgeCallFails
    PROVE  CallForm
<1> USE DEF OwnTypes, CallStage, CallTo, CallStages, chainState, CallForm, Bridging
<1>1. CASE readStatusAndBalance
  BY <1>1 DEF readStatusAndBalance
<1>2. CASE submitVaultTx
  BY <1>2 DEF submitVaultTx
<1>3. CASE markInitiated
  BY <1>3 DEF markInitiated
<1>4. CASE verifyBridgeBalance
  BY <1>4 DEF verifyBridgeBalance
<1>5. CASE bridgeCallFails
  BY <1>5 DEF bridgeCallFails
<1>6. QED
  BY <1>1, <1>2, <1>3, <1>4, <1>5

-----------------------------------------------------------------------------
\* The wallet's balance on Arbitrum only grows, so no difference is negative.
PreBelow ==
    \A w \in Runs : wf[w].stage \in {"receive", "minting"} => wf[w].pre <= arbWallet

TypesHold == PipeTypes /\ PreBelow /\ StatusesFollow

LEMMA TypesInit ==
    ASSUME Init
    PROVE  TypesHold /\ Numbering /\ RowsMatch
<1>1. TypeInv /\ Numbering
  BY TypeInit, NumberingInit DEF Init
<1>2. rows \in Rows(Txs)
  BY DEF Init, EmptyTable, Rows, NoHash
<1>3. \A x \in Txs : ~Exists(rows, x)
  BY DEF Init, EmptyTable, Exists
<1>4. \A w \in Runs : wf[w].stage = "none"
  BY DEF Init, NotStarted
<1>5. RowsMatch
  BY <1>3, <1>4 DEF Init, IndexerInit, RowsMatch, Bridging
<1>6. OwnTypes
  BY <1>2 DEF Init, OwnTypes, TxStates, CallStages, WfStages, NoCall, NotStarted
<1>7. PreBelow
  BY <1>4 DEF PreBelow
<1>8. StatusesFollow
  BY <1>4 DEF Init, IndexerInit, EmptyTable, StatusesFollow
<1>9. QED
  BY <1>1, <1>5, <1>6, <1>7, <1>8 DEF TypesHold, PipeTypes

\* Launching leaves a workflow alone or starts it.
LEMMA LaunchTypes ==
    ASSUME OwnTypes, PreBelow, Launch, arbWallet' = arbWallet
    PROVE  wf' \in [Runs -> WfRecords] /\ PreBelow'
<1>1. Started \in WfRecords /\ Started.stage = "balance"
  BY DEF Started, NotStarted, WfStages, BeforeBurn, WfRecords
<1>2. QED
  BY <1>1 DEF OwnTypes, PreBelow, Launch, WfRecords

\* Only the next workflow of the deposit in hand is started.
LEMMA LaunchMoves ==
    ASSUME TypesHold, Launch, NEW x \in Txs, spawned' = spawned \/ Spawn(x),
           NEW w \in Runs
    PROVE  /\ w[1] # x => spawned'[w[1]] = spawned[w[1]]
           /\ spawned'[x] \in {spawned[x], spawned[x] + 1}
           /\ IF w[1] = x /\ w[2] = spawned[x] + 1 /\ spawned'[x] = spawned[x] + 1
                THEN wf'[w] = Started ELSE wf'[w] = wf[w]
<1>1. spawned \in [Txs -> Nat] /\ w[1] \in Txs
  BY RunShape DEF TypesHold, PipeTypes, TypeInv, IndexerTypeOK
<1>2. wf'[w] = IF w[2] = spawned'[w[1]] /\ w[2] # spawned[w[1]] THEN Started ELSE wf[w]
  BY DEF Launch
<1>3. spawned' = spawned \/ spawned' = [spawned EXCEPT ![x] = spawned[x] + 1]
  BY DEF Spawn
<1>4. QED
  BY <1>1, <1>2, <1>3

LEMMA WorkflowRow ==
    ASSUME OwnTypes, NEW w \in Runs, Exists(rows, w[1]), WritesRow(w)
    PROVE  Writes(rows, rows', w[1])
<1> USE RunShape, AmountsAreNat DEF OwnTypes, WritesRow
<1>1. CASE rows' = rows
  BY <1>1 DEF Writes
<1>2. CASE rows' = updateBurnConfirmed(rows, w[1], w[2], HashOf[w[1]])
  BY <1>2, WritesBurn
<1>3. CASE rows' = markTransferFailed(rows, w[1])
  BY <1>3, WritesTransferFailed
<1>4. CASE rows' = updateAttestationReceived(rows, w[1])
  BY <1>4, WritesAttested
<1>5. CASE rows' = markAttestationPending(rows, w[1])
  BY <1>5, WritesAttestationPending
<1>6. CASE rows' = markTransferCompleted(rows, w[1], w[2])
  BY <1>6, WritesCompleted
<1>7. CASE rows' = markMintPending(rows, w[1])
  BY <1>7, WritesMintPending
<1>8. QED
  BY <1>1, <1>2, <1>3, <1>4, <1>5, <1>6, <1>7

LEMMA WorkflowTypes ==
    ASSUME TypesHold, RowsMatch, NEW w \in Runs, WorkflowForm(w)
    PROVE  OwnTypes' /\ PreBelow' /\ RowsMatch'
<1> USE DEF TypesHold, PipeTypes, WorkflowForm
<1>1. w[1] \in transfers /\ w[1] \in Txs /\ Exists(rows, w[1])
  BY RunShape DEF Follows, RowsMatch
<1>2. Writes(rows, rows', w[1])
  BY <1>1, WorkflowRow
<1>3. rows' \in Rows(Txs) /\ \A x \in Txs : Exists(rows', x) <=> Exists(rows, x)
  BY <1>1, <1>2 DEF Writes, Exists
<1>4. \A r \in Runs \ {w} : wf'[r] = wf[r]
  BY DEF Moves, OwnTypes
<1>5. RowsMatch'
  BY <1>1, <1>3, <1>4 DEF RowsMatch, indexerVars, tableVars, loopVars, Bridging, Exists
<1>6. wf'[w] \in WfRecords
  <2>1. wf[w] \in WfRecords
    BY DEF OwnTypes, WfRecords
  <2>2. wf'[w].pre \in Nat
    BY <2>1 DEF WfRecords, Remembers, OwnTypes
  <2>3. CASE wf'[w].minted \in {wf[w].minted, 0}
    BY <2>1, <2>2, <2>3 DEF WfRecords, Moves
  <2>4. CASE wf'[w].minted \notin {wf[w].minted, 0}
    <3>1. wf'[w].minted = arbWallet - wf[w].pre /\ wf[w].pre <= arbWallet
      BY <2>4 DEF Remembers, PreBelow
    <3>2. wf'[w].minted \in Nat
      BY <2>1, <3>1 DEF WfRecords, OwnTypes
    <3>3. QED
      BY <2>2, <3>2 DEF WfRecords, Moves
  <2>5. QED
    BY <2>3, <2>4
<1>7. wf' \in [Runs -> WfRecords]
  BY <1>6 DEF Moves, OwnTypes, WfRecords
<1>8. PreBelow'
  <2>1. wf'[w].stage \in {"receive", "minting"} => wf'[w].pre <= arbWallet
    BY DEF Remembers, PreBelow, Follows, OwnTypes, Moves, WfStages, BeforeBurn, AfterSave
  <2>2. QED
    BY <1>4, <2>1 DEF PreBelow
<1>9. OwnTypes'
  <2>1. /\ approveTx' \in [Runs -> TxStates] /\ burnTx' \in [Runs -> TxStates]
        /\ mintTx' \in [Runs -> TxStates]
    BY DEF OwnTypes, Sends, TxStates
  <2>2. principal' \in [Txs -> Nat]
    BY <1>1 DEF OwnTypes, Invests
  <2>3. QED
    BY <1>3, <1>7, <2>1, <2>2 DEF OwnTypes, WfRecords
<1>10. QED
  BY <1>5, <1>8, <1>9

-----------------------------------------------------------------------------
\* What the listener's own steps keep.
LEMMA ListenerSteps ==
    ASSUME TypeInv, ListenerNext \/ \E st \in StatusFound : recoverDuplicate(st)
    PROVE  /\ transfers \subseteq transfers'
           /\ Bridging' => cur'[1] \in transfers' /\ ~Bridging
           /\ UNCHANGED blockOf
<1> USE DEF Bridging, chainVars, tableVars, loopVars, historyVars
<1>1. CASE start
  BY <1>1 DEF start
<1>2. CASE queryWindow
  BY <1>2 DEF queryWindow
<1>3. CASE handleLog
  BY <1>3 DEF handleLog, createDeposit, duplicateDeposit, createDepositFails, TakeLog
<1>4. CASE createTransfer
  BY <1>4 DEF createTransfer, CallBridge
<1>5. CASE createTransferFails
  BY <1>5 DEF createTransferFails, NextLog
<1>6. CASE recoverDuplicateFails
  BY <1>6 DEF recoverDuplicateFails, AbandonWindow
<1>7. CASE endWindow
  BY <1>7 DEF endWindow
<1>8. ASSUME NEW st \in StatusFound, recoverDuplicate(st)
      PROVE  /\ transfers \subseteq transfers'
             /\ Bridging' => cur'[1] \in transfers' /\ ~Bridging
             /\ UNCHANGED blockOf
  BY <1>8 DEF recoverDuplicate, CallBridge, NextLog
<1>9. QED
  BY <1>1, <1>2, <1>3, <1>4, <1>5, <1>6, <1>7, <1>8 DEF ListenerNext

\* The rows after a step of the listener.
LEMMA ListenerRowsMatch ==
    ASSUME TypesHold, RowsMatch, transfers \subseteq transfers',
           rows' = [x \in Txs |-> RowFor(x)[x]]
    PROVE  rows' \in Rows(Txs) /\ \A x \in Txs : Exists(rows, x)' <=> x \in transfers'
<1> USE ListenerRows DEF TypesHold, PipeTypes, OwnTypes
<1>1. rows' \in Rows(Txs)
  OBVIOUS
<1>2. ASSUME NEW x \in Txs PROVE Exists(rows, x)' <=> x \in transfers'
  <2>1. rows[x] \in RowShape
    BY DEF Rows, RowShape
  <2>2. [rows[x] EXCEPT !.status = "DEPOSIT_DETECTED"].status # NoRow
    BY <2>1 DEF RowShape, NoRow
  <2>3. QED
    BY <2>2 DEF RowsMatch, Exists
<1>3. QED
  BY <1>1, <1>2

LEMMA CallRow ==
    ASSUME TypesHold, Numbering, RowsMatch, CallForm
    PROVE  rows' = rows \/ Writes(rows, rows', cur[1])
<1>1. cur[1] \in Txs /\ CurCall[2] \in Nat
  BY CurCallIsRun, MaxRunsPositive DEF CallForm, TypesHold, PipeTypes
<1>2. QED
  BY <1>1, WritesInitiated, WritesConfirmed
     DEF CallForm, TypesHold, PipeTypes, OwnTypes

-----------------------------------------------------------------------------
\* Statuses.  Only the listener creates rows, only its call writes a row before a
\* workflow runs, and nothing but a creation writes DETECTED.
LEMMA WorkflowRowStatus ==
    ASSUME TypesHold, NEW w \in Runs, WritesRow(w),
           rows[w[1]].status \notin {"DEPOSIT_DETECTED", NoRow}
    PROVE  /\ \A x \in Txs \ {w[1]} : rows'[x] = rows[x]
           /\ rows'[w[1]].status \notin {"DEPOSIT_DETECTED", NoRow}
<1>0. /\ rows \in Rows(Txs) /\ rows[w[1]] \in RowShape /\ Exists(rows, w[1])
      /\ w[1] \in Txs /\ w[2] \in Nat /\ HashOf[w[1]] \in Nat /\ OwnTypes
  BY RunShape, AmountsAreNat DEF TypesHold, PipeTypes, OwnTypes, Rows, RowShape, Exists
<1>a. Writes(rows, rows', w[1])
  BY <1>0, WorkflowRow
<1>b. \A x \in Txs \ {w[1]} : rows'[x] = rows[x]
  BY <1>a DEF Writes
<1> DEFINE old == rows[w[1]]
           new == rows'[w[1]]
<1> SUFFICES new.status \notin {"DEPOSIT_DETECTED", NoRow}
  BY <1>b
<1>1. CASE rows' = rows
  BY <1>1
<1>2. CASE rows' = updateBurnConfirmed(rows, w[1], w[2], HashOf[w[1]])
  <2>1. rows' = rows \/ new.status = "BURN_CONFIRMED"
    BY <1>0, <1>2, WritesBurn
  <2>2. QED
    BY <2>1 DEF NoRow
<1>3. CASE rows' = markTransferFailed(rows, w[1])
  <2>1. new = [old EXCEPT !.status = "TRANSFER_FAILED"]
    BY <1>0, <1>3, WritesTransferFailed
  <2>2. QED
    BY <1>0, <2>1 DEF RowShape, NoRow
<1>4. CASE rows' = updateAttestationReceived(rows, w[1])
  <2>1. new = [old EXCEPT !.status = "ATTESTATION_RECEIVED", !.attested = TRUE]
    BY <1>0, <1>4, WritesAttested
  <2>2. QED
    BY <1>0, <2>1 DEF RowShape, NoRow
<1>5. CASE rows' = markAttestationPending(rows, w[1])
  <2>1. new = [old EXCEPT !.status = "ATTESTATION_PENDING"]
    BY <1>0, <1>5, WritesAttestationPending
  <2>2. QED
    BY <1>0, <2>1 DEF RowShape, NoRow
<1>6. CASE rows' = markTransferCompleted(rows, w[1], w[2])
  <2>1. new.status = "TRANSFER_COMPLETED"
    BY <1>0, <1>6, WritesCompleted
  <2>2. QED
    BY <2>1 DEF NoRow
<1>7. CASE rows' = markMintPending(rows, w[1])
  <2>1. new = [old EXCEPT !.status = "MINT_PENDING"]
    BY <1>0, <1>7, WritesMintPending
  <2>2. QED
    BY <1>0, <2>1 DEF RowShape, NoRow
<1>8. QED
  BY <1>1, <1>2, <1>3, <1>4, <1>5, <1>6, <1>7 DEF WritesRow

LEMMA StatusesKept ==
    ASSUME StatusesFollow, UNCHANGED <<rows, spawned>>,
           \A w \in Runs : wf'[w].stage # "none" => wf[w].stage # "none"
    PROVE  StatusesFollow'
  BY DEF StatusesFollow

LEMMA StatusesStep ==
    ASSUME TypesHold, Numbering, RowsMatch, [Next]_allVars
    PROVE  StatusesFollow'
<1>a. TypeInv /\ OwnTypes /\ StatusesFollow /\ spawned \in [Txs -> Nat]
  BY DEF TypesHold, PipeTypes, TypeInv, IndexerTypeOK
<1> USE DEF chainState, historyVars
<1>1. ASSUME NEW last \in 0 .. NumTx, blockWithDeposits(last) PROVE StatusesFollow'
  BY <1>1, <1>a, StatusesKept DEF blockWithDeposits, NewBlock
<1>2. ASSUME NEW x \in Txs, userWithdraws(x) PROVE StatusesFollow'
  BY <1>2, <1>a, StatusesKept DEF userWithdraws, indexerVars
<1>3. ASSUME NEW r \in Runs, mineTx(r) PROVE StatusesFollow'
  BY <1>3, <1>a, StatusesKept
     DEF mineTx, mineVaultTx, mineApproveTx, mineBurnTx, mineMintTx, indexerVars
<1>4. ASSUME NEW x \in Txs, rows' = [y \in Txs |-> RowFor(y)[y]],
             \A y \in Txs : Exists(rows, y) <=> y \in transfers
      PROVE  rows'[x] = rows[x] \/ (rows[x].status = NoRow
                                    /\ rows'[x].status = "DEPOSIT_DETECTED")
  <2>1. rows[x] \in RowShape
    BY <1>a DEF OwnTypes, Rows, RowShape
  <2>2. QED
    BY <1>a, <1>4, <2>1, ListenerRows DEF OwnTypes, RowShape, Exists
<1>5. CASE listen
  <2>1. UNCHANGED spawned
    BY <1>5, <1>a DEF listen, ListenerNext, start, queryWindow, handleLog, createDeposit,
       duplicateDeposit, createDepositFails, TakeLog, createTransfer, CallBridge,
       createTransferFails, recoverDuplicateFails, endWindow
  <2>2. QED
    BY <1>4, <1>5, <1>a, <2>1 DEF listen, StatusesFollow, RowsMatch, BeforeWorkflow
<1>6. CASE recover
  <2> DEFINE x == cur[1]
  <2>0. x \in Txs
    BY <1>6, <1>a, LogShape
       DEF recover, recoverDuplicate, TypeInv, CurIsStored, Handling
  <2>1. \A y \in Txs : rows'[y] = rows[y] \/ (rows[y].status = NoRow
                                    /\ rows'[y].status = "DEPOSIT_DETECTED")
    BY <1>4, <1>6 DEF recover, RowsMatch
  <2>2. \/ spawned' = spawned
        \/ /\ Spawn(x)
           /\ rows[x].status = "VAULT_TO_BRIDGE_TRANSFER_CONFIRMED"
    BY <1>6 DEF recover, recoverDuplicate, CallBridge
  <2>3. ASSUME NEW w \in Runs, wf'[w].stage # "none" PROVE spawned'[w[1]] # 0
    BY <1>6, <1>a, <2>0, <2>2, <2>3, LaunchMoves, RunShape DEF recover, StatusesFollow
  <2>4. \A y \in Txs : IF spawned'[y] = 0
                          THEN rows'[y].status \in BeforeWorkflow \union {NoRow}
                          ELSE rows'[y].status \notin {"DEPOSIT_DETECTED", NoRow}
    <3>1. CASE spawned' = spawned
      BY <1>a, <2>1, <3>1 DEF StatusesFollow, BeforeWorkflow
    <3>2. CASE Spawn(x) /\ rows[x].status = "VAULT_TO_BRIDGE_TRANSFER_CONFIRMED"
      <4>1. \A y \in Txs \ {x} : spawned'[y] = spawned[y]
        BY <1>a, <2>0, <3>2 DEF Spawn
      <4>2. spawned'[x] # 0
        BY <1>a, <2>0, <3>2 DEF Spawn
      <4>3. rows'[x] = rows[x]
        BY <2>0, <2>1, <3>2 DEF NoRow
      <4>4. QED
        BY <1>a, <2>0, <2>1, <3>2, <4>1, <4>2, <4>3
           DEF StatusesFollow, BeforeWorkflow, NoRow
    <3>3. QED
      BY <2>2, <3>1, <3>2
  <2>5. QED
    BY <2>3, <2>4 DEF StatusesFollow
<1>7. CASE confirmBridge \/ failBridge
  <2> DEFINE x == cur[1]
  <2>1. Bridging /\ x \in Txs /\ CurCall[2] \in Nat /\ x \in transfers
    BY <1>7, <1>a, CurCallIsRun, MaxRunsPositive
       DEF confirmBridge, failBridge, CallStage, Bridging, RowsMatch
  <2>2. CASE confirmBridge
    <3>1. Writes(rows, rows', x)
          /\ rows'[x].status = "VAULT_TO_BRIDGE_TRANSFER_CONFIRMED"
      BY <2>1, <2>2, <1>a, WritesConfirmed DEF confirmBridge, OwnTypes
    <3>2. spawned' = spawned \/ Spawn(x)
      BY <2>2 DEF confirmBridge, bridgeDone
    <3>3. \A y \in Txs \ {x} : spawned'[y] = spawned[y] /\ rows'[y] = rows[y]
      BY <1>a, <2>1, <3>1, <3>2 DEF Spawn, Writes
    <3>4. ASSUME NEW w \in Runs, wf'[w].stage # "none" PROVE spawned'[w[1]] # 0
      BY <2>2, <1>a, <2>1, <3>2, <3>4, LaunchMoves, RunShape
         DEF confirmBridge, StatusesFollow
    <3>5. QED
      BY <1>a, <2>1, <3>1, <3>3, <3>4 DEF StatusesFollow, BeforeWorkflow, NoRow
  <2>3. CASE failBridge
    <3>1. rows' = rows \/ (Writes(rows, rows', x) /\ rows'[x].status = rows[x].status)
      <4>1. rows[x] \in RowShape
        BY <1>a, <2>1 DEF OwnTypes, Rows, RowShape
      <4>2. rows \in Rows(Txs) /\ Exists(rows, x)
        BY <1>a, <2>1 DEF OwnTypes, RowsMatch
      <4>3. rows' \in {rows, markVaultToBridgeFailed(rows, x)}
        BY <2>3 DEF failBridge
      <4>4. rows' # rows => /\ Writes(rows, rows', x)
                            /\ rows'[x] = [rows[x] EXCEPT !.bridgeError = TRUE]
        BY <2>1, <4>2, <4>3, WritesBridgeFailed
      <4>5. QED
        BY <4>1, <4>4 DEF RowShape
    <3>2. UNCHANGED <<spawned, wf>>
      BY <2>3 DEF failBridge, bridgeThrows
    <3>3. \A y \in Txs : rows'[y].status = rows[y].status
      BY <2>1, <3>1 DEF Writes
    <3>4. QED
      BY <1>a, <3>2, <3>3 DEF StatusesFollow
  <2>4. QED
    BY <1>7, <2>2, <2>3
<1>8. CASE CallForm
  <2> DEFINE x == cur[1]
  <2>1. x \in Txs /\ CurCall[2] \in Nat
    BY <1>8, <1>a, CurCallIsRun, MaxRunsPositive DEF CallForm
  <2>2. \/ rows' = rows
        \/ /\ \A y \in Txs \ {x} : rows'[y] = rows[y]
           /\ rows'[x].status \in {"VAULT_TO_BRIDGE_TRANSFER_INITIATED",
                                   "VAULT_TO_BRIDGE_TRANSFER_CONFIRMED"}
    <3>1. rows' \in {rows, markVaultToBridgeInitiated(rows, x, CurCall[2]),
                      markVaultToBridgeConfirmed(rows, x, CurCall[2])}
      BY <1>8 DEF CallForm
    <3>2. rows' = markVaultToBridgeInitiated(rows, x, CurCall[2]) =>
             Writes(rows, rows', x)
             /\ rows'[x].status = "VAULT_TO_BRIDGE_TRANSFER_INITIATED"
      BY <1>a, <2>1, WritesInitiated DEF OwnTypes
    <3>3. rows' = markVaultToBridgeConfirmed(rows, x, CurCall[2]) =>
             Writes(rows, rows', x)
             /\ rows'[x].status = "VAULT_TO_BRIDGE_TRANSFER_CONFIRMED"
      BY <1>a, <2>1, WritesConfirmed DEF OwnTypes
    <3>4. QED
      BY <3>1, <3>2, <3>3 DEF Writes
  <2>3. UNCHANGED <<spawned, wf>>
    BY <1>8 DEF CallForm, indexerVars
  <2>4. QED
    BY <1>a, <2>1, <2>2, <2>3 DEF StatusesFollow, BeforeWorkflow, NoRow
<1>9. ASSUME NEW w \in Runs, workflowStep(w) \/ chainCallFails(w) \/ rowUpdateFails(w)
      PROVE  StatusesFollow'
  <2>1. WorkflowForm(w)
    BY <1>9, <1>a, WorkflowForms
  <2>2. wf[w].stage # "none" /\ \A y \in Runs \ {w} : wf'[y] = wf[y]
    BY <1>a, <2>1 DEF WorkflowForm, Follows, Moves, OwnTypes
  <2>3. spawned[w[1]] # 0 /\ spawned' = spawned
    BY <1>a, <2>1, <2>2 DEF WorkflowForm, indexerVars, StatusesFollow
  <2>4. rows[w[1]].status \notin {"DEPOSIT_DETECTED", NoRow}
    BY <1>a, <2>3, RunShape DEF StatusesFollow
  <2>5. /\ \A x \in Txs \ {w[1]} : rows'[x] = rows[x]
        /\ rows'[w[1]].status \notin {"DEPOSIT_DETECTED", NoRow}
    BY <2>1, <2>4, WorkflowRowStatus DEF WorkflowForm
  <2>6. QED
    BY <1>a, <2>2, <2>3, <2>5, RunShape DEF StatusesFollow
<1>10. CASE processCrash
  <2>1. \A w \in Runs : wf'[w].stage # "none" => wf[w].stage # "none"
    BY <1>10, <1>a DEF processCrash, OwnTypes
  <2>2. QED
    BY <1>10, <1>a, <2>1, StatusesKept DEF processCrash, crash
<1>11. CASE UNCHANGED allVars
  BY <1>11, <1>a, StatusesKept DEF allVars, pipelineVars, indexerVars
<1>12. QED
  BY <1>1, <1>2, <1>3, <1>5, <1>6, <1>7, <1>8, <1>9, <1>10, <1>11, <1>a, CallForms
     DEF Next, bridgeStep

LEMMA TypesStep ==
    ASSUME TypesHold, Numbering, RowsMatch, [Next]_allVars
    PROVE  TypesHold' /\ Numbering' /\ RowsMatch'
<1>0. TypeInv' /\ Numbering' /\ StatusesFollow'
  BY StepRefines, TypeStep, NumberingStep, StatusesStep DEF TypesHold, PipeTypes
<1> DEFINE Rest == OwnTypes /\ PreBelow /\ RowsMatch
<1> SUFFICES Rest'
  BY <1>0 DEF TypesHold, PipeTypes
<1>a. TypeInv /\ OwnTypes /\ PreBelow
  BY DEF TypesHold, PipeTypes
<1> USE DEF chainState
<1>1. ASSUME NEW last \in 0 .. NumTx, blockWithDeposits(last) PROVE Rest'
  <2> DEFINE fresh == { x \in Txs : ~Mined(x) /\ x <= last }
  <2>1. Sum(PaidIn, fresh) \in Nat
    BY FiniteTxs, AmountsAreNat, SumInNat
  <2>2. vault' \in Nat
    BY <1>1, <1>a, <2>1 DEF blockWithDeposits, OwnTypes, Sum
  <2> HIDE DEF fresh
  <2>3. QED
    BY <1>1, <1>a, <2>2 DEF blockWithDeposits, NewBlock, OwnTypes, PreBelow, RowsMatch,
       tableVars, loopVars, Bridging
<1>2. ASSUME NEW x \in Txs, userWithdraws(x) PROVE Rest'
  BY <1>2, <1>a, AmountsAreNat DEF userWithdraws, OwnTypes, PreBelow, RowsMatch,
     indexerVars, tableVars, loopVars, Bridging
<1>3. ASSUME NEW r \in Runs, mineTx(r) PROVE Rest'
  <2>0. Amount[r[1]] \in Nat /\ ApprovalFactor * Amount[r[1]] \in Nat
    BY RunShape, AmountsAreNat
  <2> USE <1>a DEF TxStates
  <2>1. CASE mineVaultTx(r)
    BY <2>0, <2>1 DEF mineVaultTx, OwnTypes, PreBelow, RowsMatch, indexerVars, tableVars,
       loopVars, Bridging
  <2>2. CASE mineApproveTx(r)
    BY <2>0, <2>2 DEF mineApproveTx, OwnTypes, PreBelow, RowsMatch, indexerVars,
       tableVars, loopVars, Bridging
  <2>3. CASE mineBurnTx(r)
    BY <2>0, <2>3 DEF mineBurnTx, OwnTypes, PreBelow, RowsMatch, indexerVars, tableVars,
       loopVars, Bridging
  <2>4. CASE mineMintTx(r)
    BY <2>0, <2>4 DEF mineMintTx, OwnTypes, PreBelow, RowsMatch, indexerVars, tableVars,
       loopVars, Bridging
  <2>5. QED
    BY <1>3, <2>1, <2>2, <2>3, <2>4 DEF mineTx
<1>4. CASE listen
  <2>1. transfers \subseteq transfers' /\ (Bridging' => cur'[1] \in transfers')
    BY <1>4, <1>a, ListenerSteps DEF listen
  <2>2. rows' \in Rows(Txs) /\ \A x \in Txs : Exists(rows, x)' <=> x \in transfers'
    BY <1>4, <2>1, ListenerRowsMatch DEF listen
  <2>3. QED
    BY <1>4, <1>a, <2>1, <2>2 DEF listen, OwnTypes, PreBelow, RowsMatch
<1>5. CASE recover
  <2>0. \E st \in StatusFound : recoverDuplicate(st)
    BY <1>5, RecoverStatus DEF recover, TypesHold
  <2>1. transfers \subseteq transfers' /\ (Bridging' => cur'[1] \in transfers')
    BY <2>0, <1>a, ListenerSteps
  <2>2. rows' \in Rows(Txs) /\ \A x \in Txs : Exists(rows, x)' <=> x \in transfers'
    BY <1>5, <2>1, ListenerRowsMatch DEF recover
  <2>3. wf' \in [Runs -> WfRecords] /\ PreBelow'
    BY <1>5, <1>a, LaunchTypes DEF recover
  <2>4. OwnTypes'
    BY <1>5, <1>a, <2>2, <2>3 DEF recover, OwnTypes, WfRecords
  <2>5. \A w \in Runs : wf'[w].stage # "none" => w[1] \in transfers'
    <3>0. cur[1] \in Txs /\ (spawned' = spawned \/ Spawn(cur[1]))
      BY <1>5, <1>a, LogShape
         DEF recover, recoverDuplicate, CallBridge, NextLog, TypeInv, CurIsStored, Handling
    <3>1. ASSUME NEW w \in Runs, wf'[w] # wf[w] PROVE w[1] = cur[1]
      BY <1>5, <3>0, <3>1, LaunchMoves DEF recover
    <3>2. cur[1] \in transfers'
      BY <1>5 DEF recover, recoverDuplicate
    <3>3. QED
      BY <2>1, <3>1, <3>2 DEF RowsMatch
  <2>6. QED
    BY <2>1, <2>2, <2>3, <2>4, <2>5 DEF RowsMatch
<1>6. CASE confirmBridge \/ failBridge
  <2>1. Bridging /\ cur[1] \in Txs /\ CurCall[2] \in Nat /\ cur[1] \in transfers
    BY <1>6, <1>a, CurCallIsRun, MaxRunsPositive
       DEF confirmBridge, failBridge, CallStage, Bridging, RowsMatch
  <2>2. rows' = rows \/ Writes(rows, rows', cur[1])
    <3>1. CASE confirmBridge
      BY <3>1, <1>a, <2>1, WritesConfirmed DEF confirmBridge, OwnTypes
    <3>2. CASE failBridge
      BY <3>2, <1>a, <2>1, WritesBridgeFailed DEF failBridge, OwnTypes, RowsMatch
    <3>3. QED
      BY <1>6, <3>1, <3>2
  <2>3. rows' \in Rows(Txs) /\ \A x \in Txs : Exists(rows, x)' <=> Exists(rows, x)
    BY <1>a, <2>1, <2>2 DEF OwnTypes, Writes, RowsMatch, Exists
  <2>4. wf' \in [Runs -> WfRecords] /\ PreBelow'
    BY <1>6, <1>a, LaunchTypes DEF confirmBridge, failBridge, OwnTypes, PreBelow, WfRecords
  <2>5. transfers' = transfers /\ ~Bridging'
    BY <1>6 DEF confirmBridge, failBridge, bridgeDone, bridgeThrows, NextLog, AbandonWindow,
       tableVars, Bridging
  <2>6. \A w \in Runs : wf'[w].stage # "none" => w[1] \in transfers'
    <3>1. ASSUME NEW w \in Runs, wf'[w] # wf[w] PROVE w[1] = cur[1]
      BY <1>6, <2>1, <3>1, LaunchMoves DEF confirmBridge, failBridge, bridgeDone
    <3>2. QED
      BY <2>1, <2>5, <3>1 DEF RowsMatch
  <2>7. OwnTypes'
    BY <1>6, <1>a, <2>3, <2>4
       DEF confirmBridge, failBridge, OwnTypes, WfRecords, NoCall, CallStages
  <2>8. QED
    BY <2>3, <2>4, <2>5, <2>6, <2>7 DEF RowsMatch
<1>7. CASE CallForm
  <2>1. cur[1] \in Txs /\ cur[1] \in transfers /\ CurCall \in Runs
    BY <1>7, <1>a, CurCallIsRun DEF CallForm, RowsMatch
  <2>2. rows' = rows \/ Writes(rows, rows', cur[1])
    BY <1>7, CallRow
  <2>3. rows' \in Rows(Txs) /\ \A x \in Txs : Exists(rows, x)' <=> Exists(rows, x)
    BY <1>a, <2>1, <2>2 DEF OwnTypes, Writes, RowsMatch, Exists
  <2>4. RowsMatch'
    BY <1>7, <2>3 DEF CallForm, RowsMatch, indexerVars, tableVars, loopVars, Bridging
  <2>5. vaultTx' \in [Runs -> TxStates]
    BY <1>7, <1>a, <2>1 DEF CallForm, OwnTypes, TxStates
  <2>6. QED
    BY <1>7, <1>a, <2>3, <2>4, <2>5 DEF CallForm, OwnTypes, PreBelow
<1>8. ASSUME NEW w \in Runs, workflowStep(w) \/ chainCallFails(w) \/ rowUpdateFails(w)
      PROVE  Rest'
  BY <1>8, <1>a, WorkflowForms, WorkflowTypes
<1>9. CASE processCrash
  <2>1. wf' \in [Runs -> WfRecords] /\ PreBelow'
    BY <1>9, <1>a DEF processCrash, OwnTypes, PreBelow, WfRecords, NotStarted, WfStages
  <2>2. QED
    BY <1>9, <1>a, <2>1
       DEF processCrash, crash, OwnTypes, WfRecords, RowsMatch, NoCall, CallStages,
           tableVars, Bridging, Exists
<1>10. CASE UNCHANGED allVars
  BY <1>10, <1>a DEF allVars, pipelineVars, OwnTypes, PreBelow, RowsMatch, indexerVars,
     tableVars, loopVars, Bridging
<1>11. QED
  BY <1>a, <1>1, <1>2, <1>3, <1>4, <1>5, <1>6, <1>7, <1>8, <1>9, <1>10, CallForms
     DEF Next, bridgeStep
\* Type correctness of the pipeline: among others, no balance and no difference of
\* two balances is ever negative, and a row exists exactly for each transfer.
THEOREM PipelineTypes == Spec => []TypeOK
<1>1. TypesHold /\ Numbering /\ RowsMatch => TypeOK
  BY DEF TypesHold, PipeTypes, OwnTypes, TypeInv, RowsMatch, TypeOK
<1>2. QED
  BY TypesInit, TypesStep, <1>1, PTL DEF Spec

\* The pipeline implements the listener's module: whatever the rows, the wallet and the
\* chains do, its steps are that module's steps or leave its variables alone.
THEOREM PipelineIsIndexer == Spec => IndexerSpec
<1>1. Init => IndexerInit
  BY DEF Init
<1>2. TypesHold /\ RowsMatch /\ [Next]_allVars => [IndexerNext]_indexerVars
  BY StepRefines DEF TypesHold
<1>3. QED
  BY TypesInit, TypesStep, <1>1, <1>2, PTL DEF Spec, IndexerSpec

\* Hence no deposit is bridged twice and no second workflow runs for it.
THEOREM PipelineAtMostOnce ==
    ASSUME SingleLog
    PROVE  Spec => []HandledAtMostOnce
  BY PipelineIsIndexer, AtMostOnce, PTL

-----------------------------------------------------------------------------
(* Where a call or a workflow is says what its transactions are.           *)

CallFits ==
    /\ ~Bridging => call = NoCall
    /\ \A w \in Runs : bridgings[w[1]] < w[2] => vaultTx[w] = "none"
    /\ Bridging /\ call.stage \in {"none", "submit"} => vaultTx[CurCall] = "none"
    /\ Bridging /\ call.stage \in {"mark", "wait"} => vaultTx[CurCall] # "none"
    /\ Bridging /\ call.stage = "confirm" => vaultTx[CurCall] = "mined"

\* b and m: the burn and the mint transaction of a workflow at stage s.
StageFits(s, b, m) ==
    /\ s \in {"none"} \union BeforeBurn => b = "none"
    /\ s = "burning" => b # "none"
    /\ s \in {"saveBurn"} \union AfterSave => b = "mined"
    /\ m # "none" => /\ b = "mined"
                     /\ s \in {"minting", "complete", "giza", "mintFailed", "done", "lost"}
    /\ s = "minting" => m # "none"
    /\ s \in {"complete", "giza"} => m = "mined"

WfFits ==
    \A w \in Runs :
        /\ spawned[w[1]] < w[2] <=> wf[w].stage = "none"
        /\ StageFits(wf[w].stage, burnTx[w], mintTx[w])
        /\ wf[w].stage # "none" => MinedFor(vaultTx, w[1])

Basics == TypesHold /\ Numbering /\ RowsMatch

\* What was mined stays mined.
MinedStays ==
    \A r \in Runs : /\ vaultTx[r] = "mined" => vaultTx'[r] = "mined"
                    /\ burnTx[r] = "mined" => burnTx'[r] = "mined"
                    /\ mintTx[r] = "mined" => mintTx'[r] = "mined"

LEMMA MinedForStays ==
    ASSUME MinedStays, NEW x \in Txs
    PROVE  /\ MinedFor(vaultTx, x) => MinedFor(vaultTx, x)'
           /\ MinedFor(burnTx, x) => MinedFor(burnTx, x)'
           /\ MinedFor(mintTx, x) => MinedFor(mintTx, x)'
<1>1. \A k \in 1 .. MaxRuns : <<x, k>> \in Runs
  BY DEF Runs
<1>2. QED
  BY <1>1 DEF MinedStays, MinedFor

\* A transaction is sent at most once: never over one that is under way or mined.
LEMMA WorkflowSends ==
    ASSUME Basics, WfFits, NEW w \in Runs, WorkflowForm(w)
    PROVE  /\ \A r \in Runs \ {w} : burnTx'[r] = burnTx[r] /\ mintTx'[r] = mintTx[r]
           /\ \/ burnTx'[w] = burnTx[w]
              \/ burnTx[w] = "none" /\ burnTx'[w] = "pending" /\ wf'[w].stage = "burning"
           /\ \/ mintTx'[w] = mintTx[w]
              \/ mintTx[w] = "none" /\ mintTx'[w] = "pending" /\ wf'[w].stage = "minting"
           /\ StageFits(wf'[w].stage, burnTx'[w], mintTx'[w])
<1>1. wf[w].stage \in WfStages /\ StageFits(wf[w].stage, burnTx[w], mintTx[w])
  BY DEF Basics, TypesHold, PipeTypes, OwnTypes, WfFits
<1>2. /\ burnTx \in [Runs -> TxStates] /\ mintTx \in [Runs -> TxStates]
      /\ Follows(wf[w].stage, wf'[w].stage) /\ Sends(w)
  BY DEF Basics, TypesHold, PipeTypes, OwnTypes, WorkflowForm
<1>3. CASE wf'[w].stage = "burning"
  BY <1>1, <1>2, <1>3 DEF Sends, Follows, StageFits, BeforeBurn, AfterSave, WfStages
<1>4. CASE wf'[w].stage = "minting"
  BY <1>1, <1>2, <1>4 DEF Sends, Follows, StageFits, BeforeBurn, AfterSave, WfStages
<1>5. CASE wf'[w].stage \notin {"burning", "minting"}
  <2>1. burnTx' = burnTx /\ mintTx' = mintTx
    BY <1>2, <1>5 DEF Sends
  <2>2. StageFits(wf'[w].stage, burnTx[w], mintTx[w])
    BY <1>1, <1>2, <1>5
       DEF Sends, Follows, StageFits, BeforeBurn, AfterSave, WfStages
  <2>3. QED
    BY <2>1, <2>2
<1>6. QED
  BY <1>3, <1>4, <1>5

LEMMA StepMinedStays ==
    ASSUME Basics, CallFits, WfFits, [Next]_allVars
    PROVE  MinedStays
<1> USE DEF Basics, TypesHold, PipeTypes
<1>1. ASSUME NEW r \in Runs, mineTx(r) PROVE MinedStays
  BY <1>1 DEF mineTx, mineVaultTx, mineApproveTx, mineBurnTx, mineMintTx, OwnTypes,
              MinedStays
<1>2. ASSUME NEW w \in Runs, workflowStep(w) \/ chainCallFails(w) \/ rowUpdateFails(w)
      PROVE  MinedStays
  <2>1. WorkflowForm(w)
    BY <1>2, WorkflowForms
  <2>2. QED
    BY <2>1, WorkflowSends DEF WorkflowForm, MinedStays
<1>3. ASSUME CallForm PROVE MinedStays
  <2>1. CurCall \in Runs
    BY <1>3, CurCallIsRun DEF CallForm
  <2>2. QED
    BY <1>3, <2>1 DEF CallForm, CallFits, MinedStays, OwnTypes
<1>4. ASSUME UNCHANGED <<vaultTx, burnTx, mintTx>> PROVE MinedStays
  BY <1>4 DEF MinedStays
<1>5. QED
  BY <1>1, <1>2, <1>3, <1>4, CallForms
     DEF Next, bridgeStep, confirmBridge, failBridge, blockWithDeposits, userWithdraws,
         listen, recover, processCrash, allVars, pipelineVars, chainState
-----------------------------------------------------------------------------
\* When the listener's loop enters the bridge call it makes the next one.
LEMMA ListenerCalls ==
    ASSUME TypeInv, ListenerNext \/ \E st \in StatusFound : recoverDuplicate(st)
    PROVE  /\ ~Bridging
           /\ \/ ~Bridging' /\ bridgings' = bridgings
              \/ /\ Bridging' /\ cur' = cur /\ cur[1] \in Txs
                 /\ bridgings' = [bridgings EXCEPT ![cur[1]] = bridgings[cur[1]] + 1]
<1> USE DEF Bridging, historyVars
<1>0. pc \in Handling => cur[1] \in Txs
  BY LogShape DEF TypeInv, CurIsStored
<1>1. CASE start
  BY <1>1 DEF start
<1>2. CASE queryWindow
  BY <1>2 DEF queryWindow
<1>3. CASE handleLog
  BY <1>3 DEF handleLog, createDeposit, duplicateDeposit, createDepositFails, TakeLog
<1>4. CASE createTransfer
  BY <1>0, <1>4 DEF createTransfer, CallBridge, Handling
<1>5. CASE createTransferFails
  BY <1>5 DEF createTransferFails, NextLog
<1>6. CASE recoverDuplicateFails
  BY <1>6 DEF recoverDuplicateFails, AbandonWindow
<1>7. CASE endWindow
  BY <1>7 DEF endWindow
<1>8. ASSUME NEW st \in StatusFound, recoverDuplicate(st)
      PROVE  /\ ~Bridging
             /\ \/ ~Bridging' /\ bridgings' = bridgings
                \/ /\ Bridging' /\ cur' = cur /\ cur[1] \in Txs
                   /\ bridgings' = [bridgings EXCEPT ![cur[1]] = bridgings[cur[1]] + 1]
  BY <1>0, <1>8 DEF recoverDuplicate, CallBridge, NextLog, Handling
<1>9. QED
  BY <1>1, <1>2, <1>3, <1>4, <1>5, <1>6, <1>7, <1>8 DEF ListenerNext

LEMMA ListenerSpawnsNothing ==
    ASSUME ListenerNext
    PROVE  spawned' = spawned
  BY DEF ListenerNext, start, queryWindow, handleLog, createDeposit, duplicateDeposit,
         createDepositFails, TakeLog, createTransfer, CallBridge, createTransferFails,
         recoverDuplicateFails, endWindow, historyVars

\* A call not made yet has no transaction.
LEMMA NewCall ==
    ASSUME Basics, Basics', CallFits, UNCHANGED <<vaultTx, call>>, ~Bridging,
           \/ ~Bridging' /\ bridgings' = bridgings
           \/ /\ Bridging' /\ cur' = cur /\ cur[1] \in Txs
              /\ bridgings' = [bridgings EXCEPT ![cur[1]] = bridgings[cur[1]] + 1]
    PROVE  CallFits'
<1>0. bridgings \in [Txs -> Nat] /\ \A w \in Runs : w[1] \in Txs /\ w[2] \in Nat
  BY RunShape DEF Basics, TypesHold, PipeTypes, TypeInv, IndexerTypeOK
<1>1. call.stage = "none"
  BY DEF CallFits, NoCall
<1>2. CASE ~Bridging' /\ bridgings' = bridgings
  BY <1>2 DEF CallFits
<1>3. CASE /\ Bridging' /\ cur' = cur /\ cur[1] \in Txs
           /\ bridgings' = [bridgings EXCEPT ![cur[1]] = bridgings[cur[1]] + 1]
  <2>1. \A w \in Runs : bridgings'[w[1]] < w[2] => bridgings[w[1]] < w[2]
    BY <1>0, <1>3
  <2>2. CurCall' \in Runs /\ CurCall'[1] = cur[1]
        /\ CurCall'[2] = bridgings[cur[1]] + 1
    <3>1. bridgings'[cur[1]] <= MaxRuns /\ bridgings'[cur[1]] = bridgings[cur[1]] + 1
      BY <1>0, <1>3 DEF Basics, Numbering
    <3>2. QED
      BY <1>0, <1>3, <3>1, MaxRunsPositive DEF CurCall, Runs
  <2>3. vaultTx[CurCall'] = "none"
    BY <1>0, <1>3, <2>2 DEF CallFits
  <2>4. QED
    BY <1>1, <1>3, <2>1, <2>3 DEF CallFits
<1>4. QED
  BY <1>2, <1>3

LEMMA CallFitsStep ==
    ASSUME Basics, Basics', CallFits, [Next]_allVars
    PROVE  CallFits'
<1>a. TypeInv /\ OwnTypes /\ Numbering
  BY DEF Basics, TypesHold, PipeTypes
<1>1. ASSUME UNCHANGED <<pc, cur, bridgings, vaultTx, call>> PROVE CallFits'
  BY <1>1 DEF CallFits, CurCall, Bridging
<1>2. ASSUME NEW r \in Runs, mineVaultTx(r) PROVE CallFits'
  <2>1. /\ vaultTx[r] = "pending" /\ vaultTx'[r] \in {"mined", "reverted"}
        /\ \A c \in Runs \ {r} : vaultTx'[c] = vaultTx[c]
        /\ UNCHANGED <<pc, cur, bridgings, call>>
    BY <1>2, <1>a DEF mineVaultTx, OwnTypes, indexerVars, loopVars, historyVars
  <2>2. Bridging => CurCall \in Runs
    BY <1>a, CurCallIsRun
  <2>3. QED
    BY <2>1, <2>2 DEF CallFits, CurCall, Bridging
<1>3. CASE listen
  BY <1>3, <1>a, ListenerCalls, NewCall DEF listen, chainState
<1>4. CASE recover
  <2>1. \E st \in StatusFound : recoverDuplicate(st)
    BY <1>4, RecoverStatus DEF Basics, TypesHold
  <2>2. QED
    BY <1>4, <1>a, <2>1, ListenerCalls, NewCall DEF recover, chainState
<1>5. CASE confirmBridge \/ failBridge \/ processCrash
  <2>1. ~Bridging' /\ call' = NoCall /\ UNCHANGED <<bridgings, vaultTx>>
    BY <1>5 DEF confirmBridge, failBridge, bridgeDone, bridgeThrows, NextLog,
       AbandonWindow, processCrash, crash, historyVars, chainState, Bridging
  <2>2. QED
    BY <2>1 DEF CallFits
<1>6. CASE CallForm
  <2>1. CurCall \in Runs /\ CurCall' = CurCall /\ Bridging /\ Bridging'
        /\ cur[1] \in Txs /\ CurCall[1] = cur[1] /\ CurCall[2] = bridgings[cur[1]]
        /\ bridgings[cur[1]] \in Nat /\ bridgings' = bridgings
    BY <1>6, <1>a, CurCallIsRun, MaxRunsPositive
       DEF CallForm, indexerVars, loopVars, historyVars, CurCall, Bridging
  <2>2. CASE vaultTx' = vaultTx /\ call'.stage # "mark"
    BY <1>6, <2>1, <2>2 DEF CallFits, CallForm
  <2>3. CASE vaultTx' = [vaultTx EXCEPT ![CurCall] = "pending"] /\ call'.stage = "mark"
    <3>1. vaultTx'[CurCall] = "pending" /\ \A c \in Runs \ {CurCall} : vaultTx'[c] = vaultTx[c]
      BY <1>a, <2>1, <2>3 DEF OwnTypes
    <3>2. QED
      BY <2>1, <2>3, <3>1 DEF CallFits
  <2>4. QED
    BY <1>6, <2>2, <2>3 DEF CallForm
<1>7. ASSUME NEW w \in Runs, WorkflowForm(w) PROVE CallFits'
  BY <1>1, <1>7 DEF WorkflowForm, indexerVars, loopVars, historyVars
<1>8. QED
  <2>1. ASSUME NEW r \in Runs, mineTx(r) PROVE CallFits'
    BY <1>1, <1>2, <2>1
       DEF mineTx, mineApproveTx, mineBurnTx, mineMintTx, indexerVars, loopVars, historyVars
  <2>2. ASSUME NEW last \in 0 .. NumTx, blockWithDeposits(last) PROVE CallFits'
    BY <1>1, <2>2 DEF blockWithDeposits, NewBlock, loopVars, historyVars
  <2>3. ASSUME NEW x \in Txs, userWithdraws(x) PROVE CallFits'
    BY <1>1, <2>3 DEF userWithdraws, indexerVars, loopVars, historyVars
  <2>4. CASE UNCHANGED allVars
    BY <1>1, <2>4
       DEF allVars, pipelineVars, chainState, indexerVars, loopVars, historyVars
  <2>5. QED
    BY <1>a, <1>3, <1>4, <1>5, <1>6, <1>7, <2>1, <2>2, <2>3, <2>4, CallForms, WorkflowForms
       DEF Next, bridgeStep
-----------------------------------------------------------------------------
(* Rows against chains.                                                    *)

\* The row of x names a mined burn, or another row has the hash of its message.
HasEvidence(x) ==
    rows[x].burnTx # 0 \/ \E y \in Txs \ {x} : rows[y].hash = HashOf[x]

\* What the columns of a row claim, whatever its status.
ColumnsTrue(x) ==
    /\ rows[x].burnTx # 0 => /\ rows[x].burnTx \in 1 .. MaxRuns
                             /\ burnTx[<<x, rows[x].burnTx>>] = "mined"
    /\ rows[x].hash \in {NoHash, HashOf[x]}
    /\ rows[x].burnTx # 0 <=> rows[x].hash # NoHash
    /\ rows[x].attested => MinedFor(burnTx, x)
    /\ rows[x].mintTx # 0 => /\ rows[x].mintTx \in 1 .. MaxRuns
                             /\ mintTx[<<x, rows[x].mintTx>>] = "mined"

\* What its status claims.
StatusTrue(x) ==
    /\ rows[x].status = "VAULT_TO_BRIDGE_TRANSFER_CONFIRMED" =>
          /\ rows[x].bridgeTx \in 1 .. MaxRuns
          /\ vaultTx[<<x, rows[x].bridgeTx>>] = "mined"
    /\ rows[x].status = "TRANSFER_COMPLETED" => rows[x].mintTx # 0
    /\ rows[x].status \in PastBurn => HasEvidence(x)

\* A workflow that goes on after its burn was recorded has that evidence too.
RowsTrue ==
    /\ \A x \in Txs : ColumnsTrue(x) /\ StatusTrue(x)
    /\ \A w \in Runs : wf[w].stage \in AfterSave => HasEvidence(w[1])

LEMMA HashesReal == \A x \in Txs : HashOf[x] \in Nat /\ HashOf[x] # NoHash
  BY PipelineAssumption

\* Evidence is never taken back.
EvidenceStays ==
    \A x \in Txs : /\ rows[x].burnTx # 0 => rows'[x].burnTx # 0
                   /\ rows[x].hash # NoHash => rows'[x].hash = rows[x].hash

\* A step that takes no evidence back has to answer only for the rows it writes
\* and the workflows it moves.
LEMMA TruthFrame ==
    ASSUME RowsTrue, MinedStays, EvidenceStays,
           \A x \in Txs : rows'[x] = rows[x] \/ (ColumnsTrue(x)' /\ StatusTrue(x)'),
           \A w \in Runs : wf'[w].stage \in AfterSave =>
              wf[w].stage \in AfterSave \/ HasEvidence(w[1])'
    PROVE  RowsTrue'
<1>1. ASSUME NEW x \in Txs, HasEvidence(x) PROVE HasEvidence(x)'
  BY <1>1, HashesReal DEF HasEvidence, EvidenceStays
<1>2. ASSUME NEW x \in Txs, rows'[x] = rows[x]
      PROVE  ColumnsTrue(x)' /\ StatusTrue(x)'
  <2>1. \A k \in 1 .. MaxRuns : <<x, k>> \in Runs
    BY DEF Runs
  <2>2. ColumnsTrue(x) /\ StatusTrue(x)
    BY DEF RowsTrue
  <2>3. ColumnsTrue(x)'
    BY <1>2, <2>1, <2>2, MinedForStays DEF ColumnsTrue, MinedStays
  <2>4. StatusTrue(x)'
    BY <1>1, <1>2, <2>1, <2>2 DEF StatusTrue, MinedStays
  <2>5. QED
    BY <2>3, <2>4
<1>3. QED
  BY <1>1, <1>2, RunShape DEF RowsTrue

\* A write of the status alone.
LEMMA StatusWritten ==
    ASSUME RowsTrue, MinedStays, NEW x \in Txs, ColumnsTrue(x),
           rows'[x].burnTx = rows[x].burnTx, rows'[x].hash = rows[x].hash,
           rows'[x].attested = rows[x].attested, rows'[x].mintTx = rows[x].mintTx
    PROVE  ColumnsTrue(x)'
<1>1. \A k \in 1 .. MaxRuns : <<x, k>> \in Runs
  BY DEF Runs
<1>2. QED
  BY <1>1, MinedForStays DEF ColumnsTrue, MinedStays

\* A step that writes no row and moves no workflow past its burn.
LEMMA RowsUntouched ==
    ASSUME Basics, RowsTrue, MinedStays, rows' = rows,
           \A w \in Runs : wf'[w].stage \in AfterSave => wf[w].stage \in AfterSave
    PROVE  RowsTrue'
  BY TruthFrame DEF EvidenceStays

\* The listener's steps: a new row claims nothing.
LEMMA RowsCreated ==
    ASSUME Basics, RowsTrue, MinedStays, rows' = [x \in Txs |-> RowFor(x)[x]],
           \A w \in Runs : wf'[w].stage \in AfterSave => wf[w].stage \in AfterSave
    PROVE  RowsTrue'
<1>1. \A x \in Txs : rows[x] \in RowShape
  BY DEF Basics, TypesHold, PipeTypes, OwnTypes, Rows, RowShape
<1>2. ASSUME NEW x \in Txs, rows'[x] # rows[x]
      PROVE  /\ rows'[x].status = "DEPOSIT_DETECTED"
             /\ rows'[x].burnTx = rows[x].burnTx /\ rows'[x].hash = rows[x].hash
             /\ rows'[x].attested = rows[x].attested /\ rows'[x].mintTx = rows[x].mintTx
  <2>1. rows'[x] = [rows[x] EXCEPT !.status = "DEPOSIT_DETECTED"]
    BY <1>2, ListenerRows DEF Basics, TypesHold, PipeTypes, OwnTypes
  <2>2. QED
    BY <1>1, <2>1 DEF RowShape
<1>3. EvidenceStays
  BY <1>2 DEF EvidenceStays
<1>4. ASSUME NEW x \in Txs, rows'[x] # rows[x] PROVE ColumnsTrue(x)' /\ StatusTrue(x)'
  BY <1>2, <1>4, StatusWritten DEF RowsTrue, StatusTrue, PastBurn
<1>5. QED
  BY <1>3, <1>4, TruthFrame
\* One row is written, its burn columns left alone, and no workflow gets past the
\* burn by it.
LEMMA OneRowTrue ==
    ASSUME Basics, RowsTrue, MinedStays, NEW x \in Txs, Writes(rows, rows', x),
           rows'[x].burnTx = rows[x].burnTx, rows'[x].hash = rows[x].hash,
           rows'[x].attested => rows[x].attested \/ MinedFor(burnTx, x),
           \/ rows'[x].mintTx = rows[x].mintTx
           \/ rows'[x].mintTx \in 1 .. MaxRuns /\ mintTx[<<x, rows'[x].mintTx>>] = "mined",
           rows'[x].status = "VAULT_TO_BRIDGE_TRANSFER_CONFIRMED" =>
              \/ /\ rows[x].status = rows'[x].status /\ rows[x].bridgeTx = rows'[x].bridgeTx
              \/ /\ rows'[x].bridgeTx \in 1 .. MaxRuns
                 /\ vaultTx[<<x, rows'[x].bridgeTx>>] = "mined",
           rows'[x].status = "TRANSFER_COMPLETED" =>
              \/ rows[x].status = rows'[x].status /\ rows[x].mintTx = rows'[x].mintTx
              \/ rows'[x].mintTx # 0,
           rows'[x].status \in PastBurn => rows[x].status \in PastBurn \/ HasEvidence(x),
           \A w \in Runs : wf'[w].stage \in AfterSave => wf[w].stage \in AfterSave
    PROVE  RowsTrue'
<1>1. EvidenceStays
  BY DEF Writes, EvidenceStays
<1>2. \A k \in 1 .. MaxRuns : <<x, k>> \in Runs
  BY DEF Runs
<1>3. ColumnsTrue(x) /\ StatusTrue(x)
  BY DEF RowsTrue
<1>4. ColumnsTrue(x)'
  <2>1. rows'[x].mintTx # 0 => /\ rows'[x].mintTx \in 1 .. MaxRuns
                               /\ mintTx[<<x, rows'[x].mintTx>>] = "mined"
    BY <1>3 DEF ColumnsTrue
  <2>2. MinedFor(burnTx, x) => MinedFor(burnTx, x)'
    BY MinedForStays
  <2>3. QED
    BY <1>2, <1>3, <2>1, <2>2 DEF ColumnsTrue, MinedStays
<1>5. HasEvidence(x) => HasEvidence(x)'
  BY <1>1, HashesReal DEF HasEvidence, EvidenceStays
<1>6. StatusTrue(x)'
  BY <1>2, <1>3, <1>5 DEF StatusTrue, MinedStays
<1>7. QED
  BY <1>1, <1>4, <1>6, TruthFrame DEF Writes

LEMMA WorkflowRowsTrue ==
    ASSUME Basics, WfFits, RowsTrue, MinedStays, NEW w \in Runs, WorkflowForm(w)
    PROVE  RowsTrue'
<1> DEFINE x == w[1]
<1>1. /\ x \in Txs /\ w[2] \in 1 .. MaxRuns /\ w[2] \in Nat /\ w[2] # 0
      /\ w = <<x, w[2]>> /\ Exists(rows, x) /\ HashOf[x] \in Nat
  BY RunShape, HashesReal DEF WorkflowForm, Follows, Basics, RowsMatch
<1>2. StageFits(wf[w].stage, burnTx[w], mintTx[w])
      /\ (wf[w].stage \in AfterSave => HasEvidence(x))
  BY DEF WfFits, RowsTrue
<1>3. rows \in Rows(Txs) /\ rows[x] \in RowShape
  BY <1>1 DEF Basics, TypesHold, PipeTypes, OwnTypes, Rows, RowShape
<1>4. \A r \in Runs \ {w} : wf'[r] = wf[r]
  BY DEF WorkflowForm, Moves, Basics, TypesHold, PipeTypes, OwnTypes
<1>5. /\ Follows(wf[w].stage, wf'[w].stage) /\ wf'[w].stage \in WfStages
      /\ wf[w].stage \in WfStages
  BY DEF WorkflowForm, Moves, Basics, TypesHold, PipeTypes, OwnTypes
<1>6. wf'[w].stage \in AfterSave => wf[w].stage \in AfterSave \/ wf'[w].stage = "attest"
  BY <1>5 DEF Follows, AfterSave, BeforeBurn, WfStages
<1>7. MinedFor(burnTx, x) <=> \E k \in 1 .. MaxRuns : burnTx[<<x, k>>] = "mined"
  BY DEF MinedFor
<1> HIDE DEF x
<1>10. CASE rows' = rows /\ wf'[w].stage \notin {"attest", "giza"}
  BY <1>4, <1>6, <1>10, RowsUntouched
<1>11. CASE /\ wf[w].stage = "saveBurn"
            /\ rows' = updateBurnConfirmed(rows, x, w[2], HashOf[x])
  <2>1. burnTx[<<x, w[2]>>] = "mined"
    BY <1>1, <1>2, <1>11 DEF StageFits
  <2>2. /\ Writes(rows, rows', x)
        /\ \/ rows' = rows /\ \E y \in Txs : rows[y].hash = HashOf[x]
           \/ /\ \A y \in Txs : rows[y].hash # HashOf[x]
              /\ rows'[x].status = "BURN_CONFIRMED"
              /\ rows'[x].burnTx = w[2] /\ rows'[x].hash = HashOf[x]
              /\ rows'[x].attested = rows[x].attested /\ rows'[x].mintTx = rows[x].mintTx
    BY <1>1, <1>3, <1>11, WritesBurn
  <2>3. CASE rows' = rows /\ \E y \in Txs : rows[y].hash = HashOf[x]
    <3>1. HasEvidence(x)
      BY <1>1, <2>3, HashesReal DEF HasEvidence, RowsTrue, ColumnsTrue
    <3>2. HasEvidence(x)'
      BY <2>3, <3>1 DEF HasEvidence
    <3>3. QED
      BY <1>4, <1>6, <2>3, <3>2, TruthFrame DEF EvidenceStays, x
  <2>4. CASE /\ \A y \in Txs : rows[y].hash # HashOf[x]
             /\ rows'[x].status = "BURN_CONFIRMED"
             /\ rows'[x].burnTx = w[2] /\ rows'[x].hash = HashOf[x]
             /\ rows'[x].attested = rows[x].attested /\ rows'[x].mintTx = rows[x].mintTx
    <3>1. /\ rows'[x].status = "BURN_CONFIRMED" /\ rows'[x].burnTx = w[2]
          /\ rows'[x].hash = HashOf[x] /\ rows'[x].attested = rows[x].attested
          /\ rows'[x].mintTx = rows[x].mintTx
      BY <2>4
    <3>2. ColumnsTrue(x)
      BY <1>1 DEF RowsTrue
    <3>3. rows[x].hash = NoHash /\ rows[x].burnTx = 0
      BY <1>1, <2>4, <3>2 DEF ColumnsTrue
    <3>4. EvidenceStays
      BY <2>2, <3>3 DEF Writes, EvidenceStays
    <3>5. HasEvidence(x)'
      BY <1>1, <3>1 DEF HasEvidence
    <3>6. \A k \in 1 .. MaxRuns : <<x, k>> \in Runs
      BY <1>1 DEF Runs
    <3>7. ColumnsTrue(x)'
      BY <1>1, <2>1, <3>1, <3>2, <3>6, HashesReal, MinedForStays
         DEF ColumnsTrue, MinedStays
    <3>8. StatusTrue(x)'
      BY <3>1, <3>5 DEF StatusTrue
    <3>9. QED
      BY <1>4, <1>6, <2>2, <3>4, <3>5, <3>7, <3>8, TruthFrame DEF Writes, x
  <2>5. QED
    BY <2>2, <2>3, <2>4
<1>12. CASE wf[w].stage = "burnFailed" /\ rows' = markTransferFailed(rows, x)
  <2>1. Writes(rows, rows', x) /\ rows'[x] = [rows[x] EXCEPT !.status = "TRANSFER_FAILED"]
    BY <1>1, <1>3, <1>12, WritesTransferFailed
  <2>2. wf'[w].stage \notin AfterSave
    BY <1>5, <1>12 DEF Follows, AfterSave
  <2>3. QED
    BY <1>1, <1>3, <1>4, <2>1, <2>2, OneRowTrue DEF RowShape, PastBurn
<1>13. CASE /\ wf[w].stage \in {"saveAttestation", "saveLegacy"}
            /\ rows' = updateAttestationReceived(rows, x)
  <2>1. /\ Writes(rows, rows', x)
        /\ rows'[x] = [rows[x] EXCEPT !.status = "ATTESTATION_RECEIVED", !.attested = TRUE]
    BY <1>1, <1>3, <1>13, WritesAttested
  <2>2. wf[w].stage \in AfterSave /\ HasEvidence(x) /\ MinedFor(burnTx, x)
    BY <1>1, <1>2, <1>7, <1>13 DEF AfterSave, StageFits
  <2>3. QED
    BY <1>1, <1>3, <1>4, <2>1, <2>2, OneRowTrue DEF RowShape, PastBurn
<1>14. CASE wf[w].stage = "attestationFailed" /\ rows' = markAttestationPending(rows, x)
  <2>1. Writes(rows, rows', x)
        /\ rows'[x] = [rows[x] EXCEPT !.status = "ATTESTATION_PENDING"]
    BY <1>1, <1>3, <1>14, WritesAttestationPending
  <2>2. wf[w].stage \in AfterSave /\ HasEvidence(x)
    BY <1>2, <1>14 DEF AfterSave
  <2>3. /\ rows'[x].status = "ATTESTATION_PENDING" /\ rows'[x].mintTx = rows[x].mintTx
        /\ rows'[x].burnTx = rows[x].burnTx /\ rows'[x].hash = rows[x].hash
        /\ rows'[x].attested = rows[x].attested
    BY <1>3, <2>1 DEF RowShape
  <2>4. QED
    BY <1>1, <1>4, <2>1, <2>2, <2>3, OneRowTrue
<1>15. CASE wf[w].stage = "complete" /\ rows' = markTransferCompleted(rows, x, w[2])
  <2>1. /\ Writes(rows, rows', x)
        /\ rows'[x].status = "TRANSFER_COMPLETED" /\ rows'[x].mintTx = w[2]
        /\ rows'[x].burnTx = rows[x].burnTx /\ rows'[x].hash = rows[x].hash
        /\ rows'[x].attested = rows[x].attested
    BY <1>1, <1>3, <1>15, WritesCompleted
  <2>2. wf[w].stage \in AfterSave /\ HasEvidence(x) /\ mintTx[<<x, w[2]>>] = "mined"
    BY <1>1, <1>2, <1>15 DEF AfterSave, StageFits
  <2>3. QED
    BY <1>1, <1>4, <2>1, <2>2, OneRowTrue
<1>16. CASE wf[w].stage = "mintFailed" /\ rows' = markMintPending(rows, x)
  <2>1. Writes(rows, rows', x) /\ rows'[x] = [rows[x] EXCEPT !.status = "MINT_PENDING"]
    BY <1>1, <1>3, <1>16, WritesMintPending
  <2>2. wf[w].stage \in AfterSave /\ HasEvidence(x)
    BY <1>2, <1>16 DEF AfterSave
  <2>3. QED
    BY <1>1, <1>3, <1>4, <2>1, <2>2, OneRowTrue DEF RowShape, PastBurn
<1>20. QED
  BY <1>10, <1>11, <1>12, <1>13, <1>14, <1>15, <1>16 DEF WorkflowForm, WritesRow, x
-----------------------------------------------------------------------------
\* A deposit whose row is CONFIRMED, or whose call has just succeeded, was paid to
\* the bridge wallet: only then is a workflow launched.
LEMMA LaunchedIsPaid ==
    ASSUME Basics, CallFits, RowsTrue, recover \/ confirmBridge,
           spawned' # spawned
    PROVE  MinedFor(vaultTx, cur[1])
<1>1. CASE recover
  <2>1. /\ cur[1] \in transfers
        /\ rows[cur[1]].status = "VAULT_TO_BRIDGE_TRANSFER_CONFIRMED"
    BY <1>1 DEF recover, recoverDuplicate, CallBridge
  <2>2. cur[1] \in Txs
    BY <2>1 DEF Basics, TypesHold, PipeTypes, TypeInv, IndexerTypeOK
  <2>3. QED
    BY <2>1, <2>2 DEF RowsTrue, StatusTrue, MinedFor
<1>2. CASE confirmBridge
  <2>1. Bridging /\ vaultTx[CurCall] = "mined"
    BY <1>2 DEF confirmBridge, CallStage, Bridging, CallFits
  <2>2. CurCall = <<cur[1], bridgings[cur[1]]>> /\ bridgings[cur[1]] \in 1 .. MaxRuns
    BY <2>1, CurCallIsRun DEF Basics, TypesHold, PipeTypes, CurCall
  <2>3. QED
    BY <2>1, <2>2 DEF MinedFor
<1>3. QED
  BY <1>1, <1>2

LEMMA WfFitsStep ==
    ASSUME Basics, CallFits, WfFits, RowsTrue, MinedStays, [Next]_allVars
    PROVE  WfFits'
<1>a. TypeInv /\ OwnTypes /\ TypesHold
  BY DEF Basics, TypesHold, PipeTypes
<1>b. \A w \in Runs : w[1] \in Txs /\ w[2] \in Nat /\ w[2] >= 1
  BY RunShape
<1>1. ASSUME UNCHANGED <<wf, spawned>>,
             \A w \in Runs :
                /\ \/ burnTx'[w] = burnTx[w]
                   \/ burnTx[w] = "pending" /\ burnTx'[w] \in {"mined", "reverted"}
                /\ \/ mintTx'[w] = mintTx[w]
                   \/ mintTx[w] = "pending" /\ mintTx'[w] = "mined"
      PROVE  WfFits'
  <2>1. ASSUME NEW w \in Runs PROVE StageFits(wf[w].stage, burnTx'[w], mintTx'[w])
    <3>1. StageFits(wf[w].stage, burnTx[w], mintTx[w])
      BY DEF WfFits
    <3>2. QED
      BY <1>1, <3>1 DEF StageFits
  <2>2. QED
    BY <1>1, <1>b, <2>1, MinedForStays DEF WfFits
<1>2. ASSUME NEW r \in Runs, mineTx(r) PROVE WfFits'
  BY <1>1, <1>2, <1>a
     DEF mineTx, mineVaultTx, mineApproveTx, mineBurnTx, mineMintTx, OwnTypes,
         indexerVars, historyVars
<1>3. ASSUME UNCHANGED <<wf, spawned, burnTx, mintTx>> PROVE WfFits'
  BY <1>1, <1>3
<1>4. CASE recover \/ confirmBridge
  <2>1. /\ Launch /\ cur[1] \in Txs /\ (spawned' = spawned \/ Spawn(cur[1]))
        /\ UNCHANGED <<burnTx, mintTx, vaultTx>>
    <3>1. CASE recover
      BY <1>a, <3>1, LogShape
         DEF recover, recoverDuplicate, CallBridge, NextLog, TypeInv, CurIsStored, Handling,
             chainState
    <3>2. CASE confirmBridge
      BY <1>a, <3>2, CurCallIsRun
         DEF confirmBridge, bridgeDone, CallStage, Bridging, Basics, chainState
    <3>3. QED
      BY <1>4, <3>1, <3>2
  <2>2. spawned \in [Txs -> Nat]
    BY <1>a DEF TypeInv, IndexerTypeOK
  <2>3. Started.stage = "balance"
    BY DEF Started, NotStarted
  <2>4. ASSUME NEW w \in Runs
        PROVE  /\ spawned'[w[1]] < w[2] <=> wf'[w].stage = "none"
               /\ StageFits(wf'[w].stage, burnTx[w], mintTx[w])
               /\ wf'[w].stage # "none" => MinedFor(vaultTx, w[1])
    <3>1. /\ spawned[w[1]] < w[2] <=> wf[w].stage = "none"
          /\ StageFits(wf[w].stage, burnTx[w], mintTx[w])
          /\ wf[w].stage # "none" => MinedFor(vaultTx, w[1])
      BY DEF WfFits
    <3>2. CASE /\ w[1] = cur[1] /\ w[2] = spawned[cur[1]] + 1
               /\ spawned'[cur[1]] = spawned[cur[1]] + 1
      <4>1. wf'[w] = Started
        BY <1>a, <2>1, <3>2, LaunchMoves
      <4>2. wf[w].stage = "none" /\ spawned' # spawned
        BY <1>b, <2>1, <2>2, <3>1, <3>2
      <4>3. MinedFor(vaultTx, cur[1])
        BY <1>4, <4>2, LaunchedIsPaid
      <4>4. QED
        BY <1>b, <2>1, <2>2, <2>3, <3>1, <3>2, <4>1, <4>2, <4>3 DEF StageFits, BeforeBurn,
           AfterSave
    <3>3. CASE ~(/\ w[1] = cur[1] /\ w[2] = spawned[cur[1]] + 1
                 /\ spawned'[cur[1]] = spawned[cur[1]] + 1)
      <4>1. wf'[w] = wf[w]
        BY <1>a, <2>1, <3>3, LaunchMoves
      <4>2. spawned'[w[1]] < w[2] <=> spawned[w[1]] < w[2]
        BY <1>a, <1>b, <2>1, <2>2, <3>3, LaunchMoves
      <4>3. QED
        BY <3>1, <4>1, <4>2
    <3>4. QED
      BY <3>2, <3>3
  <2>5. \A x : MinedFor(vaultTx, x)' <=> MinedFor(vaultTx, x)
    BY <2>1 DEF MinedFor
  <2>6. QED
    BY <2>1, <2>4, <2>5 DEF WfFits
<1>5. ASSUME NEW w \in Runs, WorkflowForm(w) PROVE WfFits'
  <2>1. /\ spawned' = spawned /\ vaultTx' = vaultTx /\ wf[w].stage # "none"
        /\ wf'[w].stage # "none" /\ \A r \in Runs \ {w} : wf'[r] = wf[r]
    BY <1>5, <1>a
       DEF WorkflowForm, indexerVars, historyVars, Follows, Moves, OwnTypes, WfStages,
           BeforeBurn, AfterSave
  <2>2. /\ \A r \in Runs \ {w} : burnTx'[r] = burnTx[r] /\ mintTx'[r] = mintTx[r]
        /\ StageFits(wf'[w].stage, burnTx'[w], mintTx'[w])
    BY <1>5, WorkflowSends
  <2>3. \A x : MinedFor(vaultTx, x)' <=> MinedFor(vaultTx, x)
    BY <2>1 DEF MinedFor
  <2>4. QED
    BY <2>1, <2>2, <2>3 DEF WfFits
<1>6. CASE processCrash
  <2>1. UNCHANGED <<spawned, burnTx, mintTx, vaultTx>>
    BY <1>6 DEF processCrash, crash, chainState
  <2>2. \A x : MinedFor(vaultTx, x)' <=> MinedFor(vaultTx, x)
    BY <2>1 DEF MinedFor
  <2>3. ASSUME NEW w \in Runs
        PROVE  wf'[w] = wf[w] \/ (wf[w].stage # "none" /\ wf'[w].stage = "lost")
    BY <1>6 DEF processCrash, NotStarted
  <2>4. ASSUME NEW w \in Runs PROVE StageFits(wf'[w].stage, burnTx[w], mintTx[w])
    BY <2>3 DEF WfFits, StageFits, BeforeBurn, AfterSave
  <2>5. QED
    BY <2>1, <2>2, <2>3, <2>4 DEF WfFits
<1>7. QED
  <2>1. ASSUME NEW last \in 0 .. NumTx, blockWithDeposits(last) PROVE WfFits'
    BY <1>3, <2>1 DEF blockWithDeposits, NewBlock, historyVars
  <2>2. ASSUME NEW x \in Txs, userWithdraws(x) PROVE WfFits'
    BY <1>3, <2>2 DEF userWithdraws, indexerVars, historyVars
  <2>3. CASE listen
    BY <1>3, <2>3, ListenerSpawnsNothing DEF listen, chainState
  <2>4. CASE CallForm
    BY <1>3, <2>4 DEF CallForm, indexerVars, historyVars
  <2>5. CASE failBridge
    BY <1>3, <2>5 DEF failBridge, bridgeThrows, historyVars, chainState
  <2>6. CASE UNCHANGED allVars
    BY <1>3, <2>6 DEF allVars, pipelineVars, chainState, indexerVars, historyVars
  <2>7. QED
    BY <1>a, <1>2, <1>4, <1>5, <1>6, <2>1, <2>2, <2>3, <2>4, <2>5, <2>6, CallForms,
       WorkflowForms DEF Next, bridgeStep
\* The call writes rows only on its way: CONFIRMED only after its transaction.
LEMMA CallRowsTrue ==
    ASSUME Basics, CallFits, RowsTrue, MinedStays,
           CallForm \/ confirmBridge \/ failBridge,
           \A w \in Runs : wf'[w].stage \in AfterSave => wf[w].stage \in AfterSave
    PROVE  RowsTrue'
<1> DEFINE x == cur[1]
           k == CurCall[2]
<1>1. /\ Bridging /\ x \in Txs /\ x \in transfers /\ CurCall \in Runs
      /\ CurCall = <<x, k>> /\ k \in 1 .. MaxRuns /\ k \in Nat
  BY CurCallIsRun, MaxRunsPositive
     DEF CallForm, confirmBridge, failBridge, CallStage, Bridging, Basics, TypesHold,
         PipeTypes, RowsMatch, CurCall
<1>2. rows \in Rows(Txs) /\ rows[x] \in RowShape /\ Exists(rows, x)
  BY <1>1 DEF Basics, TypesHold, PipeTypes, OwnTypes, Rows, RowShape, RowsMatch
<1>3. CASE rows' = rows
  BY <1>3, RowsUntouched
<1>4. CASE rows' = markVaultToBridgeInitiated(rows, x, k)
  <2>1. /\ Writes(rows, rows', x)
        /\ rows'[x].status = "VAULT_TO_BRIDGE_TRANSFER_INITIATED"
        /\ rows'[x].burnTx = rows[x].burnTx /\ rows'[x].hash = rows[x].hash
        /\ rows'[x].attested = rows[x].attested /\ rows'[x].mintTx = rows[x].mintTx
    BY <1>1, <1>2, <1>4, WritesInitiated
  <2> HIDE DEF x, k
  <2>2. QED
    BY <1>1, <2>1, OneRowTrue DEF PastBurn
<1>5. CASE /\ rows' = markVaultToBridgeConfirmed(rows, x, k) /\ call.stage = "confirm"
  <2>1. /\ Writes(rows, rows', x)
        /\ rows'[x].status = "VAULT_TO_BRIDGE_TRANSFER_CONFIRMED"
        /\ rows'[x].bridgeTx = k
        /\ rows'[x].burnTx = rows[x].burnTx /\ rows'[x].hash = rows[x].hash
        /\ rows'[x].attested = rows[x].attested /\ rows'[x].mintTx = rows[x].mintTx
    BY <1>1, <1>2, <1>5, WritesConfirmed
  <2>2. vaultTx[<<x, k>>] = "mined"
    BY <1>1, <1>5 DEF CallFits
  <2> HIDE DEF x, k
  <2>3. QED
    BY <1>1, <2>1, <2>2, OneRowTrue DEF PastBurn
<1>6. CASE rows' = markVaultToBridgeFailed(rows, x)
  <2>1. Writes(rows, rows', x) /\ rows'[x] = [rows[x] EXCEPT !.bridgeError = TRUE]
    BY <1>1, <1>2, <1>6, WritesBridgeFailed
  <2>2. /\ rows'[x].status = rows[x].status /\ rows'[x].bridgeTx = rows[x].bridgeTx
        /\ rows'[x].burnTx = rows[x].burnTx /\ rows'[x].hash = rows[x].hash
        /\ rows'[x].attested = rows[x].attested /\ rows'[x].mintTx = rows[x].mintTx
    BY <1>2, <2>1 DEF RowShape
  <2> HIDE DEF x, k
  <2>3. QED
    BY <1>1, <2>1, <2>2, OneRowTrue
<1>7. QED
  BY <1>3, <1>4, <1>5, <1>6 DEF CallForm, confirmBridge, failBridge, CallStage

LEMMA RowsTrueStep ==
    ASSUME Basics, CallFits, WfFits, RowsTrue, MinedStays, [Next]_allVars
    PROVE  RowsTrue'
<1>a. OwnTypes /\ TypesHold
  BY DEF Basics, TypesHold, PipeTypes
<1>1. ASSUME UNCHANGED <<rows, wf>> PROVE RowsTrue'
  BY <1>1, RowsUntouched
<1>2. CASE listen
  BY <1>2, RowsCreated DEF listen
<1>3. CASE recover \/ confirmBridge
  <2>1. Launch
    BY <1>3 DEF recover, confirmBridge
  <2>2. Started.stage \notin AfterSave
    BY DEF Started, NotStarted, AfterSave
  <2>3. \A w \in Runs : wf'[w].stage \in AfterSave => wf[w].stage \in AfterSave
    BY <2>1, <2>2 DEF Launch
  <2>4. QED
    BY <1>3, <2>3, RowsCreated, CallRowsTrue DEF recover
<1>4. CASE failBridge \/ CallForm
  <2>1. wf' = wf
    BY <1>4 DEF failBridge, CallForm
  <2>2. QED
    BY <1>4, <2>1, CallRowsTrue
<1>5. ASSUME NEW w \in Runs, WorkflowForm(w) PROVE RowsTrue'
  BY <1>5, WorkflowRowsTrue
<1>6. CASE processCrash
  <2>1. \A w \in Runs : wf'[w].stage \in AfterSave => wf[w].stage \in AfterSave
    BY <1>6 DEF processCrash, NotStarted, AfterSave
  <2>2. QED
    BY <1>6, <2>1, RowsUntouched DEF processCrash
<1>7. QED
  <2>1. ASSUME NEW r \in Runs, mineTx(r) PROVE RowsTrue'
    BY <1>1, <2>1 DEF mineTx, mineVaultTx, mineApproveTx, mineBurnTx, mineMintTx
  <2>2. ASSUME NEW last \in 0 .. NumTx, blockWithDeposits(last) PROVE RowsTrue'
    BY <1>1, <2>2 DEF blockWithDeposits
  <2>3. ASSUME NEW x \in Txs, userWithdraws(x) PROVE RowsTrue'
    BY <1>1, <2>3 DEF userWithdraws
  <2>4. CASE UNCHANGED allVars
    BY <1>1, <2>4 DEF allVars, pipelineVars
  <2>5. QED
    BY <1>a, <1>2, <1>3, <1>4, <1>5, <1>6, <2>1, <2>2, <2>3, <2>4, CallForms, WorkflowForms
       DEF Next, bridgeStep

-----------------------------------------------------------------------------
PipeInv == Basics /\ CallFits /\ WfFits /\ RowsTrue

LEMMA PipeInit == Init => PipeInv
<1> SUFFICES ASSUME Init PROVE PipeInv
  OBVIOUS
<1>1. Basics /\ ~Bridging
  BY TypesInit DEF Basics, Init, IndexerInit, Bridging
<1>2. /\ \A w \in Runs : /\ wf[w].stage = "none" /\ burnTx[w] = "none" /\ mintTx[w] = "none"
                         /\ vaultTx[w] = "none" /\ spawned[w[1]] = 0
      /\ call = NoCall
  BY RunShape DEF Init, IndexerInit, NotStarted
<1>3. CallFits
  BY <1>1, <1>2 DEF CallFits
<1>4. WfFits
  BY <1>2, RunShape DEF WfFits, StageFits, BeforeBurn, AfterSave
<1>5. \A x \in Txs : /\ rows[x].status = NoRow /\ rows[x].burnTx = 0 /\ ~rows[x].attested
                     /\ rows[x].mintTx = 0 /\ rows[x].hash = NoHash
  BY DEF Init, EmptyTable
<1>6. RowsTrue
  BY <1>2, <1>5
     DEF RowsTrue, ColumnsTrue, StatusTrue, AfterSave, PastBurn, NoRow
<1>7. QED
  BY <1>1, <1>3, <1>4, <1>6 DEF PipeInv

LEMMA PipeStep == PipeInv /\ [Next]_allVars => PipeInv'
<1> SUFFICES ASSUME PipeInv, [Next]_allVars PROVE PipeInv'
  OBVIOUS
<1>1. Basics /\ Basics'
  BY TypesStep DEF PipeInv, Basics
<1>2. MinedStays
  BY StepMinedStays DEF PipeInv
<1>3. CallFits'
  BY <1>1, CallFitsStep DEF PipeInv
<1>4. WfFits'
  BY <1>2, WfFitsStep DEF PipeInv
<1>5. RowsTrue'
  BY <1>2, RowsTrueStep DEF PipeInv
<1>6. QED
  BY <1>1, <1>3, <1>4, <1>5 DEF PipeInv

\* No status and no column of the burn, the attestation or the mint claims what did not
\* happen on the chains, with any number of logs per transaction, runs per deposit,
\* crashes and faults; the bridge column is vouched for while the row is CONFIRMED.
THEOREM RowsNeverLie == Spec => []RowsTellTheTruth
<1>1. PipeInv => RowsTellTheTruth
  <2> SUFFICES ASSUME PipeInv PROVE RowsTellTheTruth
    OBVIOUS
  <2>1. ASSUME NEW x \in Txs, rows[x].status \notin BeforeWorkflow \union {NoRow}
        PROVE  MinedFor(vaultTx, x)
    <3>1. spawned[x] # 0 /\ spawned[x] \in Nat
      BY <2>1 DEF PipeInv, Basics, TypesHold, PipeTypes, TypeInv, IndexerTypeOK,
         StatusesFollow
    <3>2. <<x, 1>> \in Runs /\ ~(spawned[x] < 1)
      BY <3>1, MaxRunsPositive DEF Runs
    <3>3. wf[<<x, 1>>].stage # "none"
      BY <3>2 DEF PipeInv, WfFits
    <3>4. QED
      BY <3>2, <3>3 DEF PipeInv, WfFits
  <2>2. QED
    BY <2>1 DEF PipeInv, RowsTrue, ColumnsTrue, StatusTrue, RowsTellTheTruth
<1>2. QED
  BY PipeInit, PipeStep, <1>1, PTL DEF Spec

\* A row past the burn has the burn's evidence, or another row had claimed the same
\* message hash first.
THEOREM LaterStagesCarryEvidence == Spec => []LaterStagesHaveBurn
<1>1. PipeInv => LaterStagesHaveBurn
  BY DEF PipeInv, RowsTrue, ColumnsTrue, StatusTrue, HasEvidence, LaterStagesHaveBurn
<1>2. QED
  BY PipeInit, PipeStep, <1>1, PTL DEF Spec
-----------------------------------------------------------------------------
(* One log per transaction (SingleLog).  Then each deposit has one call    *)
(* and one workflow (OnceInv, of the listener), so every step of the       *)
(* system is, for the USDC, one of four moves (ChainMove).  What becomes   *)
(* of the USDC of a deposit, and of the balances of the wallets all        *)
(* workflows share, follows from these moves and from PipeInv.             *)

SoloInv == PipeInv /\ OnceInv

LEMMA SoloInit == Init => SoloInv
  BY PipeInit, OnceInit DEF Init, SoloInv

LEMMA SoloStep ==
    ASSUME SingleLog
    PROVE  SoloInv /\ [Next]_allVars => SoloInv'
<1>1. SoloInv /\ [Next]_allVars => [IndexerNext]_indexerVars
  BY StepRefines DEF SoloInv, PipeInv, Basics, TypesHold
<1>2. QED
  BY <1>1, PipeStep, OnceStep DEF SoloInv

\* The run numbers beyond the first stay unused.
LEMMA OnlyFirst ==
    ASSUME SoloInv, NEW w \in Runs,
           \/ wf[w].stage # "none" \/ vaultTx[w] # "none" \/ burnTx[w] # "none"
           \/ mintTx[w] # "none"
    PROVE  w[2] = 1 /\ w = <<w[1], 1>>
<1>1. /\ w[1] \in Txs /\ w[2] \in Nat /\ w[2] >= 1 /\ w = <<w[1], w[2]>>
      /\ bridgings[w[1]] \in Nat /\ spawned[w[1]] \in Nat
      /\ bridgings[w[1]] <= 1 /\ spawned[w[1]] <= 1
  BY RunShape
     DEF SoloInv, OnceInv, TypeInv, IndexerTypeOK, DoneSoFar, HandledAtMostOnce
<1>2. /\ bridgings[w[1]] < w[2] => vaultTx[w] = "none"
      /\ spawned[w[1]] < w[2] <=> wf[w].stage = "none"
      /\ StageFits(wf[w].stage, burnTx[w], mintTx[w])
  BY DEF SoloInv, PipeInv, CallFits, WfFits
<1>3. wf[w].stage = "none" => burnTx[w] = "none" /\ mintTx[w] = "none"
  BY <1>2 DEF StageFits
<1>4. ~(bridgings[w[1]] < w[2]) \/ ~(spawned[w[1]] < w[2])
  BY <1>2, <1>3
<1>5. w[2] = 1
  BY <1>1, <1>4
<1>6. QED
  BY <1>1, <1>5

LEMMA FirstRun == \A x \in Txs : <<x, 1>> \in Runs /\ 1 \in 1 .. MaxRuns
  BY MaxRunsPositive DEF Runs

LEMMA MinedForIsFirst ==
    ASSUME SoloInv, NEW x \in Txs
    PROVE  /\ MinedFor(vaultTx, x) <=> vaultTx[<<x, 1>>] = "mined"
           /\ MinedFor(burnTx, x) <=> burnTx[<<x, 1>>] = "mined"
           /\ MinedFor(mintTx, x) <=> mintTx[<<x, 1>>] = "mined"
<1>1. \A k \in 1 .. MaxRuns : <<x, k>> \in Runs
  BY DEF Runs
<1>2. ASSUME NEW k \in 1 .. MaxRuns,
             \/ vaultTx[<<x, k>>] = "mined" \/ burnTx[<<x, k>>] = "mined"
             \/ mintTx[<<x, k>>] = "mined"
      PROVE  k = 1
  BY <1>1, <1>2, OnlyFirst
<1>3. QED
  BY <1>2, FirstRun DEF MinedFor

\* Nothing happens to a deposit on the chains out of order.
LEMMA ChainsInOrder ==
    ASSUME SoloInv, NEW w \in Runs
    PROVE  /\ mintTx[w] # "none" => burnTx[w] = "mined"
           /\ burnTx[w] # "none" => MinedFor(vaultTx, w[1])
           /\ vaultTx[w] # "none" => Mined(w[1])
<1>1. /\ StageFits(wf[w].stage, burnTx[w], mintTx[w])
      /\ wf[w].stage # "none" => MinedFor(vaultTx, w[1])
      /\ bridgings[w[1]] < w[2] => vaultTx[w] = "none"
  BY DEF SoloInv, PipeInv, WfFits, CallFits
<1>2. w[1] \in Txs /\ w[2] \in Nat /\ w[2] >= 1
  BY RunShape
<1>3. w[1] \notin stored => bridgings[w[1]] = 0
  BY <1>2 DEF SoloInv, OnceInv, DoneSoFar
<1>4. w[1] \in stored => Mined(w[1])
  BY DEF SoloInv, OnceInv, StoredIsBehind
<1>5. QED
  BY <1>1, <1>2, <1>3, <1>4 DEF StageFits

\* No second transaction is ever accepted for a deposit, at any stage.
THEOREM OneTransactionOnly ==
    ASSUME SingleLog
    PROVE  Spec => []OneTransactionEach
<1>1. SoloInv => OneTransactionEach
  <2> SUFFICES ASSUME SoloInv, NEW x \in Txs, NEW tx \in {vaultTx, burnTx, mintTx}
               PROVE  Cardinality({ k \in 1 .. MaxRuns : tx[<<x, k>>] # "none" }) <= 1
    BY DEF OneTransactionEach
  <2> DEFINE used == { k \in 1 .. MaxRuns : tx[<<x, k>>] # "none" }
  <2>1. \A k \in 1 .. MaxRuns : <<x, k>> \in Runs
    BY DEF Runs
  <2>2. used \subseteq {1}
    BY <2>1, OnlyFirst
  <2>3. used = {} \/ used = {1}
    BY <2>2
  <2>4. Cardinality(used) = 0 \/ Cardinality(used) = 1
    BY <2>3, FS_EmptySet, FS_Singleton
  <2>5. QED
    BY <2>4
<1>2. QED
  BY SoloInit, SoloStep, <1>1, PTL DEF Spec

-----------------------------------------------------------------------------
(* What a step does to the places of the deposits and to the two wallets.  *)

Paid == { x \in Txs : vaultTx[<<x, 1>>] = "mined" }
Burned == { x \in Txs : burnTx[<<x, 1>>] = "mined" }
Minted == { x \in Txs : mintTx[<<x, 1>>] = "mined" }

Still == UNCHANGED <<bridgeWallet, arbWallet, Paid, Burned, Minted>>

\* The deposits of a new block; the payment, burn or mint of one; or nothing.
ChainMove ==
    \/ Still /\ \E D \in SUBSET Txs :
          \A x \in Txs : /\ x \in D => ~Mined(x)
                         /\ Mined(x)' <=> (Mined(x) \/ x \in D)
    \/ \E x \in Txs :
          /\ x \notin Paid /\ Mined(x) /\ Paid' = Paid \union {x}
          /\ bridgeWallet' = bridgeWallet + Amount[x]
          /\ UNCHANGED <<blockOf, arbWallet, Burned, Minted>>
    \/ \E x \in Txs :
          /\ x \in Paid \ Burned /\ Burned' = Burned \union {x}
          /\ bridgeWallet' = bridgeWallet - Amount[x]
          /\ UNCHANGED <<blockOf, arbWallet, Paid, Minted>>
    \/ \E x \in Txs :
          /\ x \in Burned \ Minted /\ Minted' = Minted \union {x}
          /\ arbWallet' = arbWallet + Amount[x]
          /\ UNCHANGED <<blockOf, bridgeWallet, Paid, Burned>>

LEMMA ChainMoves ==
    ASSUME SingleLog, SoloInv, [Next]_allVars
    PROVE  ChainMove
<1>a. Basics /\ TypesHold /\ TypeInv /\ OwnTypes /\ CallFits /\ WfFits
  BY DEF SoloInv, PipeInv, Basics, TypesHold, PipeTypes
<1>1. ASSUME Still, blockOf' = blockOf PROVE ChainMove
  <2>1. \A x \in Txs : Mined(x)' <=> Mined(x) \/ x \in {}
    BY <1>1 DEF Mined
  <2>2. {} \in SUBSET Txs /\ \A x \in {} : ~Mined(x)
    OBVIOUS
  <2>3. QED
    BY <1>1, <2>1, <2>2 DEF ChainMove
<1>2. ASSUME UNCHANGED <<blockOf, bridgeWallet, arbWallet, vaultTx, burnTx, mintTx>>
      PROVE  ChainMove
  BY <1>1, <1>2 DEF Still, Paid, Burned, Minted
<1>3. ASSUME NEW last \in 0 .. NumTx, blockWithDeposits(last) PROVE ChainMove
  <2> DEFINE D == { x \in Txs : ~Mined(x) /\ x <= last }
  <2>1. Still
    BY <1>3 DEF blockWithDeposits, Still, Paid, Burned, Minted
  <2>2. head \in Nat /\ blockOf \in [Txs -> Nat]
    BY <1>a DEF TypeInv, IndexerTypeOK
  <2>3. \A x \in Txs : Mined(x)' <=> (Mined(x) \/ x \in D)
    BY <1>3, <2>2 DEF blockWithDeposits, NewBlock, Mined
  <2>4. D \in SUBSET Txs /\ \A x \in D : ~Mined(x)
    OBVIOUS
  <2> HIDE DEF D
  <2>5. QED
    BY <2>1, <2>3, <2>4 DEF ChainMove
<1>4. ASSUME NEW r \in Runs, mineVaultTx(r) PROVE ChainMove
  <2>1. /\ r[1] \in Txs /\ r = <<r[1], 1>> /\ Mined(r[1]) /\ r[1] \notin Paid
    BY <1>4, RunShape, OnlyFirst, ChainsInOrder DEF mineVaultTx, Paid
  <2>2. UNCHANGED <<blockOf, arbWallet, Burned, Minted>>
    BY <1>4 DEF mineVaultTx, indexerVars, chainVars, Burned, Minted
  <2>3. CASE vault >= Amount[r[1]]
    <3>1. vaultTx' = [vaultTx EXCEPT ![r] = "mined"]
          /\ bridgeWallet' = bridgeWallet + Amount[r[1]]
      BY <1>4, <2>3 DEF mineVaultTx
    <3>2. Paid' = Paid \union {r[1]}
      BY <1>a, <2>1, <3>1, FirstRun DEF Paid, OwnTypes
    <3>3. QED
      BY <2>1, <2>2, <3>1, <3>2 DEF ChainMove
  <2>4. CASE ~(vault >= Amount[r[1]])
    <3>1. vaultTx' = [vaultTx EXCEPT ![r] = "reverted"] /\ bridgeWallet' = bridgeWallet
      BY <1>4, <2>4 DEF mineVaultTx
    <3>2. Paid' = Paid
      BY <1>a, <2>1, <3>1, FirstRun DEF Paid, OwnTypes
    <3>3. QED
      BY <1>1, <2>2, <3>1, <3>2 DEF Still
  <2>5. QED
    BY <2>3, <2>4
<1>5. ASSUME NEW r \in Runs, mineBurnTx(r) PROVE ChainMove
  <2>1. r[1] \in Txs /\ r = <<r[1], 1>> /\ r[1] \in Paid /\ r[1] \notin Burned
    BY <1>5, RunShape, OnlyFirst, ChainsInOrder, MinedForIsFirst
       DEF mineBurnTx, Paid, Burned
  <2>2. UNCHANGED <<blockOf, arbWallet, Paid, Minted>>
    BY <1>5 DEF mineBurnTx, indexerVars, chainVars, Paid, Minted
  <2>3. CASE bridgeWallet >= Amount[r[1]] /\ allowance >= Amount[r[1]]
    <3>1. burnTx' = [burnTx EXCEPT ![r] = "mined"]
          /\ bridgeWallet' = bridgeWallet - Amount[r[1]]
      BY <1>5, <2>3 DEF mineBurnTx
    <3>2. Burned' = Burned \union {r[1]}
      BY <1>a, <2>1, <3>1, FirstRun DEF Burned, OwnTypes
    <3>3. QED
      BY <2>1, <2>2, <3>1, <3>2 DEF ChainMove
  <2>4. CASE ~(bridgeWallet >= Amount[r[1]] /\ allowance >= Amount[r[1]])
    <3>1. burnTx' = [burnTx EXCEPT ![r] = "reverted"] /\ bridgeWallet' = bridgeWallet
      BY <1>5, <2>4 DEF mineBurnTx
    <3>2. Burned' = Burned
      BY <1>a, <2>1, <3>1, FirstRun DEF Burned, OwnTypes
    <3>3. QED
      BY <1>1, <2>2, <3>1, <3>2 DEF Still
  <2>5. QED
    BY <2>3, <2>4
<1>6. ASSUME NEW r \in Runs, mineMintTx(r) PROVE ChainMove
  <2>1. r[1] \in Txs /\ r = <<r[1], 1>> /\ r[1] \in Burned /\ r[1] \notin Minted
    BY <1>6, RunShape, OnlyFirst, ChainsInOrder DEF mineMintTx, Burned, Minted
  <2>2. UNCHANGED <<blockOf, bridgeWallet, Paid, Burned>>
    BY <1>6 DEF mineMintTx, indexerVars, chainVars, Paid, Burned
  <2>3. Minted' = Minted \union {r[1]}
    BY <1>6, <1>a, <2>1, FirstRun DEF mineMintTx, Minted, OwnTypes
  <2>4. QED
    BY <1>6, <2>1, <2>2, <2>3 DEF mineMintTx, ChainMove
<1>7. ASSUME NEW w \in Runs, WorkflowForm(w) PROVE ChainMove
  <2>1. UNCHANGED <<blockOf, bridgeWallet, arbWallet, vaultTx>>
    BY <1>7 DEF WorkflowForm, indexerVars, chainVars
  <2>2. \A r \in Runs : /\ burnTx'[r] = "mined" <=> burnTx[r] = "mined"
                        /\ mintTx'[r] = "mined" <=> mintTx[r] = "mined"
    BY <1>7, <1>a, WorkflowSends
  <2>3. Paid' = Paid /\ Burned' = Burned /\ Minted' = Minted
    BY <2>1, <2>2, FirstRun DEF Paid, Burned, Minted
  <2>4. QED
    BY <1>1, <2>1, <2>3 DEF Still
<1>8. CASE CallForm
  <2>1. UNCHANGED <<blockOf, bridgeWallet, arbWallet, burnTx, mintTx>>
    BY <1>8 DEF CallForm, indexerVars, chainVars
  <2>2. CurCall \in Runs
    BY <1>8, <1>a, CurCallIsRun DEF CallForm, Basics
  <2>3. \A r \in Runs : vaultTx'[r] = "mined" <=> vaultTx[r] = "mined"
    BY <1>8, <1>a, <2>2 DEF CallForm, CallFits, OwnTypes
  <2>4. Paid' = Paid /\ Burned' = Burned /\ Minted' = Minted
    BY <2>1, <2>3, FirstRun DEF Paid, Burned, Minted
  <2>5. QED
    BY <1>1, <2>1, <2>4 DEF Still
<1>9. CASE listen \/ recover \/ confirmBridge \/ failBridge \/ processCrash
  <2>1. blockOf' = blockOf
    <3>1. CASE listen
      BY <1>a, <3>1, ListenerSteps DEF listen
    <3>2. CASE recover
      BY <3>2 DEF recover, recoverDuplicate, chainVars
    <3>3. CASE confirmBridge \/ failBridge \/ processCrash
      BY <3>3 DEF confirmBridge, failBridge, bridgeDone, bridgeThrows, processCrash, crash,
         chainVars
    <3>4. QED
      BY <1>9, <3>1, <3>2, <3>3
  <2>2. QED
    BY <1>2, <1>9, <2>1
       DEF listen, recover, confirmBridge, failBridge, processCrash, chainState
<1>10. QED
  <2>1. ASSUME NEW r \in Runs, mineApproveTx(r) PROVE ChainMove
    BY <1>2, <2>1 DEF mineApproveTx, indexerVars, chainVars
  <2>2. ASSUME NEW x \in Txs, userWithdraws(x) PROVE ChainMove
    BY <1>2, <2>2 DEF userWithdraws, indexerVars, chainVars
  <2>3. CASE UNCHANGED allVars
    BY <1>2, <2>3 DEF allVars, pipelineVars, chainState, indexerVars, chainVars
  <2>4. QED
    BY <1>a, <1>3, <1>4, <1>5, <1>6, <1>7, <1>8, <1>9, <2>1, <2>2, <2>3, CallForms,
       WorkflowForms DEF Next, bridgeStep, mineTx

-----------------------------------------------------------------------------
(* The refinement of CustodyFlow.                                          *)

LEMMA Nested ==
    ASSUME SoloInv
    PROVE  /\ Minted \subseteq Burned /\ Burned \subseteq Paid /\ Paid \subseteq Txs
           /\ \A x \in Paid : Mined(x)
<1>1. ASSUME NEW x \in Txs
      PROVE  /\ x \in Minted => x \in Burned
             /\ x \in Burned => x \in Paid
             /\ x \in Paid => Mined(x)
  BY ChainsInOrder, MinedForIsFirst, FirstRun DEF Minted, Burned, Paid
<1>2. QED
  BY <1>1 DEF Minted, Burned, Paid

Place(x) ==
    IF x \in Minted THEN "arbitrum"
    ELSE IF x \in Burned THEN "burned"
    ELSE IF x \in Paid THEN "bridgeWallet"
    ELSE IF Mined(x) THEN "vault" ELSE "depositor"

Places == [x \in Txs |-> PlaceOf(x)]

PlacesMapped == Places = [x \in Txs |-> Place(x)]

LEMMA PlacesAre == SoloInv => PlacesMapped
<1> SUFFICES ASSUME SoloInv, NEW x \in Txs PROVE PlaceOf(x) = Place(x)
  BY DEF Places, PlacesMapped
<1>1. /\ MinedFor(vaultTx, x) <=> x \in Paid
      /\ MinedFor(burnTx, x) <=> x \in Burned
      /\ MinedFor(mintTx, x) <=> x \in Minted
  BY MinedForIsFirst DEF Minted, Burned, Paid
<1>2. QED
  BY <1>1 DEF PlaceOf, Place

Legs == { <<"vault", "bridgeWallet">>, <<"bridgeWallet", "burned">>,
          <<"burned", "arbitrum">> }

Deposits(D) ==
    \A x \in Txs : /\ x \in D => Place(x) = "depositor"
                   /\ Place(x)' = IF x \in D THEN "vault" ELSE Place(x)

Moved(d, from, to) ==
    /\ Place(d) = from
    /\ \A x \in Txs : Place(x)' = IF x = d THEN to ELSE Place(x)

\* The moves in terms of the places.
LEMMA ChainMovePlaces ==
    ASSUME SoloInv, ChainMove
    PROVE  \/ \E D \in SUBSET Txs : Deposits(D)
           \/ \E d \in Txs : \E m \in Legs : Moved(d, m[1], m[2])
<1>1. CASE Still /\ \E D \in SUBSET Txs :
                \A x \in Txs : /\ x \in D => ~Mined(x)
                               /\ Mined(x)' <=> (Mined(x) \/ x \in D)
  <2>1. PICK D \in SUBSET Txs : \A x \in Txs : /\ x \in D => ~Mined(x)
                                             /\ Mined(x)' <=> (Mined(x) \/ x \in D)
    BY <1>1
  <2>2. Deposits(D)
    BY <1>1, <2>1, Nested DEF Still, Place, Deposits
  <2>3. QED
    BY <2>2
<1>2. ASSUME NEW d \in Txs, d \notin Paid, Mined(d), Paid' = Paid \union {d},
             UNCHANGED <<blockOf, Burned, Minted>>
      PROVE  Moved(d, "vault", "bridgeWallet")
  BY <1>2, Nested DEF Place, Mined, Moved
<1>3. ASSUME NEW d \in Paid \ Burned, Burned' = Burned \union {d},
             UNCHANGED <<blockOf, Paid, Minted>>
      PROVE  Moved(d, "bridgeWallet", "burned")
  BY <1>3, Nested DEF Place, Mined, Moved
<1>4. ASSUME NEW d \in Burned \ Minted, Minted' = Minted \union {d},
             UNCHANGED <<blockOf, Paid, Burned>>
      PROVE  Moved(d, "burned", "arbitrum")
  BY <1>4, Nested DEF Place, Mined, Moved
<1>5. ASSUME NEW d \in Txs, \/ Moved(d, "vault", "bridgeWallet")
                            \/ Moved(d, "bridgeWallet", "burned")
                            \/ Moved(d, "burned", "arbitrum")
      PROVE  \E m \in Legs : Moved(d, m[1], m[2])
  BY <1>5 DEF Legs
<1>6. QED
  BY <1>1, <1>2, <1>3, <1>4, <1>5 DEF ChainMove

LEMMA CustodyStep ==
    ASSUME SoloInv, ChainMove, PlacesMapped, PlacesMapped'
    PROVE  [Custody!Next]_Places
<1>1. ASSUME NEW D \in SUBSET Txs, Deposits(D)
      PROVE  Custody!Deposit
  <2>1. /\ D \in SUBSET { d \in Txs : Places[d] = "depositor" }
        /\ Places' = [d \in Txs |-> IF d \in D THEN "vault" ELSE Places[d]]
    BY <1>1 DEF Deposits, PlacesMapped
  <2>2. QED
    BY <2>1 DEF Custody!Deposit, Places
<1>2. ASSUME NEW d \in Txs, NEW m \in Legs, Moved(d, m[1], m[2])
      PROVE  Custody!Move(d, m[1], m[2])
  <2>1. Places[d] = m[1] /\ Places' = [Places EXCEPT ![d] = m[2]]
    BY <1>2 DEF Moved, PlacesMapped
  <2>2. QED
    BY <2>1 DEF Custody!Move, Places
<1>3. QED
  BY <1>1, <1>2, ChainMovePlaces, Zenon DEF Custody!Next, Legs

\* The USDC of a deposit is in one place, only moves forward, and arrives on
\* Arbitrum at most once, through crashes, faults and restarts.
THEOREM CustodyKept ==
    ASSUME SingleLog
    PROVE  Spec => CustodySpec
<1>1. Init => Places = [x \in Txs |-> "depositor"]
  <2> SUFFICES ASSUME Init, NEW x \in Txs PROVE PlaceOf(x) = "depositor"
    BY DEF Places
  <2>1. ~Mined(x)
    BY DEF Init, IndexerInit, Mined
  <2>2. /\ ~MinedFor(vaultTx, x) /\ ~MinedFor(burnTx, x) /\ ~MinedFor(mintTx, x)
    BY DEF Init, MinedFor, Runs
  <2>3. QED
    BY <2>1, <2>2 DEF PlaceOf
<1>2. Init => Custody!Init
  BY <1>1 DEF Custody!Init, Places
<1>3. SoloInv /\ [Next]_allVars => ChainMove
  BY ChainMoves
<1>4. SoloInv /\ ChainMove /\ PlacesMapped /\ PlacesMapped' => [Custody!Next]_Places
  BY CustodyStep
<1>5. QED
  BY SoloInit, SoloStep, PlacesAre, <1>2, <1>3, <1>4, PTL
     DEF Spec, CustodySpec, Custody!Spec, Places

-----------------------------------------------------------------------------
(* The wallet on XDC.                                                      *)

AmountOf(S) == Sum(Amount, S)

WalletIs == bridgeWallet = AmountOf(Paid \ Burned)

LEMMA AmountOfSets ==
    ASSUME NEW S \in SUBSET Txs
    PROVE  /\ AmountOf(S) \in Nat
           /\ AmountOf({}) = 0
           /\ \A x \in Txs \ S : AmountOf(S \union {x}) = AmountOf(S) + Amount[x]
           /\ \A x \in S : /\ AmountOf(S \ {x}) = AmountOf(S) - Amount[x]
                           /\ AmountOf(S) >= Amount[x]
<1>1. \A T \in SUBSET Txs : IsFiniteSet(T) /\ AmountOf(T) \in Nat
  BY FiniteTxs, AmountsAreNat, SumInNat DEF AmountOf
<1>2. ASSUME NEW T \in SUBSET Txs, NEW x \in Txs \ T
      PROVE  AmountOf(T \union {x}) = AmountOf(T) + Amount[x]
  BY <1>1, AmountsAreNat, SumInsert DEF AmountOf
<1>3. ASSUME NEW x \in S
      PROVE  AmountOf(S \ {x}) = AmountOf(S) - Amount[x] /\ AmountOf(S) >= Amount[x]
  <2>1. (S \ {x}) \union {x} = S /\ x \notin S \ {x} /\ S \ {x} \in SUBSET Txs
    OBVIOUS
  <2>2. AmountOf(S) = AmountOf(S \ {x}) + Amount[x]
    BY <1>2, <2>1
  <2>3. AmountOf(S \ {x}) \in Nat /\ Amount[x] \in Nat
    BY <1>1, <2>1, AmountsAreNat
  <2>4. QED
    BY <2>2, <2>3
<1>4. QED
  BY <1>1, <1>2, <1>3, SumEmpty DEF AmountOf

LEMMA WalletInit == Init => WalletIs
<1> SUFFICES ASSUME Init PROVE WalletIs
  OBVIOUS
<1>1. Paid = {}
  BY FirstRun DEF Init, Paid
<1>2. AmountOf(Paid \ Burned) = 0
  BY <1>1, SumEmpty DEF AmountOf
<1>3. QED
  BY <1>2 DEF Init, WalletIs

LEMMA WalletStep ==
    ASSUME SoloInv, ChainMove, WalletIs
    PROVE  WalletIs'
<1> DEFINE S == Paid \ Burned
<1>1. S \in SUBSET Txs /\ S' = Paid' \ Burned'
  BY Nested
<1>2. CASE Still
  BY <1>2 DEF Still, WalletIs
<1>3. ASSUME NEW x \in Txs, x \notin Paid, Paid' = Paid \union {x}, Burned' = Burned,
             bridgeWallet' = bridgeWallet + Amount[x]
      PROVE  WalletIs'
  <2>1. x \in Txs \ S /\ S' = S \union {x}
    BY <1>3, Nested
  <2> HIDE DEF S
  <2>2. AmountOf(S') = AmountOf(S) + Amount[x]
    BY <1>1, <2>1, AmountOfSets
  <2>3. QED
    BY <1>3, <2>2 DEF WalletIs, S
<1>4. ASSUME NEW x \in Paid \ Burned, Burned' = Burned \union {x}, Paid' = Paid,
             bridgeWallet' = bridgeWallet - Amount[x]
      PROVE  WalletIs'
  <2>1. x \in S /\ S' = S \ {x}
    BY <1>4
  <2> HIDE DEF S
  <2>2. AmountOf(S') = AmountOf(S) - Amount[x]
    BY <1>1, <2>1, AmountOfSets
  <2>3. QED
    BY <1>4, <2>2 DEF WalletIs, S
<1>5. ASSUME UNCHANGED <<bridgeWallet, Paid, Burned>> PROVE WalletIs'
  BY <1>5 DEF WalletIs
<1>6. QED
  BY <1>2, <1>3, <1>4, <1>5 DEF ChainMove, Still

\* The shared wallet holds exactly the USDC of the deposits bridged and not burned.
THEOREM WalletNeverOverdrawn ==
    ASSUME SingleLog
    PROVE  Spec => []WalletHoldsUnburned
<1>1. SoloInv /\ WalletIs => WalletHoldsUnburned
  <2> SUFFICES ASSUME SoloInv, WalletIs PROVE WalletHoldsUnburned
    OBVIOUS
  <2>1. { x \in Txs : MinedFor(vaultTx, x) /\ ~MinedFor(burnTx, x) } = Paid \ Burned
    BY MinedForIsFirst DEF Paid, Burned
  <2>2. QED
    BY <2>1 DEF WalletIs, WalletHoldsUnburned, AmountOf, Sum
<1>2. SoloInv /\ WalletIs /\ [Next]_allVars => WalletIs'
  BY ChainMoves, WalletStep
<1>3. QED
  BY SoloInit, SoloStep, WalletInit, <1>1, <1>2, PTL DEF Spec

-----------------------------------------------------------------------------
(* What a step does to the workflows.                                      *)

OthersMove ==
    /\ principal' = principal
    /\ \A r \in Runs : \/ wf'[r] = wf[r]
                       \/ wf[r].stage = "none" /\ wf'[r].stage = "balance"
                       \/ wf[r].stage # "done" /\ wf'[r].stage = "lost"

StepOf(w) ==
    /\ workflowStep(w) \/ chainCallFails(w) \/ rowUpdateFails(w)
    /\ WorkflowForm(w)

LEMMA EachWorkflow ==
    ASSUME Basics, WfFits, [Next]_allVars
    PROVE  OthersMove \/ \E w \in Runs : StepOf(w)
<1>a. OwnTypes /\ spawned \in [Txs -> Nat] /\ \A r \in Runs : r[1] \in Txs /\ r[2] \in Nat
  BY RunShape DEF Basics, TypesHold, PipeTypes, TypeInv, IndexerTypeOK
<1>1. ASSUME NEW w \in Runs, workflowStep(w) \/ chainCallFails(w) \/ rowUpdateFails(w)
      PROVE  StepOf(w)
  BY <1>a, <1>1, WorkflowForms DEF StepOf
<1>2. CASE recover \/ confirmBridge
  <2>1. /\ Launch /\ principal' = principal
        /\ spawned' = spawned \/ spawned' = [spawned EXCEPT ![cur[1]] = @ + 1]
    BY <1>2 DEF recover, confirmBridge, recoverDuplicate, bridgeDone, Spawn, CallBridge
  <2>2. ASSUME NEW r \in Runs, wf'[r] # wf[r]
        PROVE  wf[r].stage = "none" /\ wf'[r].stage = "balance"
    <3>1. r[2] = spawned'[r[1]] /\ r[2] # spawned[r[1]] /\ wf'[r] = Started
      BY <2>1, <2>2 DEF Launch
    <3>2. spawned[r[1]] < r[2]
      BY <1>a, <2>1, <3>1
    <3>3. QED
      BY <3>1, <3>2 DEF WfFits, Started, NotStarted
  <2>3. QED
    BY <2>1, <2>2 DEF OthersMove
<1>3. CASE processCrash
  BY <1>3 DEF processCrash, NotStarted, OthersMove
<1>4. ASSUME UNCHANGED <<wf, principal>> PROVE OthersMove
  BY <1>4 DEF OthersMove
<1>5. QED
  <2>1. ASSUME NEW r \in Runs, mineTx(r) PROVE OthersMove
    BY <1>4, <2>1 DEF mineTx, mineVaultTx, mineApproveTx, mineBurnTx, mineMintTx
  <2>2. CASE \/ failBridge \/ CallForm \/ listen \/ \E x \in Txs : userWithdraws(x)
             \/ \E last \in 0 .. NumTx : blockWithDeposits(last)
             \/ UNCHANGED allVars
    BY <1>4, <2>2 DEF failBridge, CallForm, listen, userWithdraws, blockWithDeposits,
       allVars, pipelineVars
  <2>3. QED
    BY <1>1, <1>2, <1>3, <2>1, <2>2, <1>a, CallForms DEF Next, bridgeStep

-----------------------------------------------------------------------------
(* The wallet on Arbitrum, and what a workflow takes for its own mint.     *)

\* n is the sum of the amounts of some of S, x among them, or not.
SumWith(S, x, n) == \E N \in SUBSET S : x \in N /\ n = AmountOf(N)
SumWithout(S, x, n) == \E N \in SUBSET S : x \notin N /\ n = AmountOf(N)

LEMMA SumsGrow ==
    ASSUME NEW S, NEW T, S \subseteq T, NEW x, NEW n
    PROVE  /\ SumWith(S, x, n) => SumWith(T, x, n)
           /\ SumWithout(S, x, n) => SumWithout(T, x, n)
  BY DEF SumWith, SumWithout

LEMMA SumsSubtract ==
    ASSUME NEW S \in SUBSET Txs, NEW x \in S, NEW n, SumWithout(S, x, n)
    PROVE  SumWith(S, x, AmountOf(S) - n)
<1>1. PICK M \in SUBSET S : x \notin M /\ n = AmountOf(M)
  BY DEF SumWithout
<1>2. /\ AmountOf(S) = AmountOf(M) + AmountOf(S \ M)
      /\ AmountOf(M) \in Nat /\ AmountOf(S \ M) \in Nat
  BY FiniteTxs, AmountsAreNat, SumSplit DEF AmountOf
<1>3. AmountOf(S) - n = AmountOf(S \ M)
  BY <1>1, <1>2
<1>4. S \ M \in SUBSET S /\ x \in S \ M
  BY <1>1
<1>5. QED
  BY <1>3, <1>4 DEF SumWith

ArbIs == arbWallet = AmountOf(Minted)

MintInv ==
    /\ ArbIs
    /\ \A w \in Runs :
          /\ wf[w].stage \in {"receive", "minting"} => SumWithout(Minted, w[1], wf[w].pre)
          /\ wf[w].stage \in {"complete", "giza"} => SumWith(Minted, w[1], wf[w].minted)
    /\ \A x \in Txs : principal[x] # 0 => SumWith(Minted, x, principal[x])

LEMMA MintInit == Init => MintInv
<1> SUFFICES ASSUME Init PROVE MintInv
  OBVIOUS
<1>1. Minted = {}
  BY FirstRun DEF Init, Minted
<1>2. AmountOf(Minted) = 0
  BY <1>1, SumEmpty DEF AmountOf
<1>3. ArbIs
  BY <1>2 DEF Init, ArbIs
<1>4. QED
  BY <1>3 DEF Init, MintInv, NotStarted

LEMMA ArbStep ==
    ASSUME SoloInv, ChainMove, ArbIs
    PROVE  ArbIs' /\ Minted \subseteq Minted'
<1>1. CASE UNCHANGED <<arbWallet, Minted>>
  BY <1>1 DEF ArbIs
<1>2. ASSUME NEW x \in Burned \ Minted, Minted' = Minted \union {x},
             arbWallet' = arbWallet + Amount[x]
      PROVE  ArbIs' /\ Minted \subseteq Minted'
  <2>1. Minted \in SUBSET Txs /\ x \in Txs \ Minted
    BY <1>2, Nested
  <2>2. AmountOf(Minted') = AmountOf(Minted) + Amount[x]
    BY <1>2, <2>1, AmountOfSets
  <2>3. QED
    BY <1>2, <2>2 DEF ArbIs
<1>3. QED
  BY <1>1, <1>2 DEF ChainMove, Still

LEMMA MintStep ==
    ASSUME SoloInv, MintInv, ChainMove, [Next]_allVars
    PROVE  MintInv'
<1>a. /\ Basics /\ WfFits /\ OwnTypes /\ ArbIs
      /\ Minted \in SUBSET Txs
  BY Nested DEF SoloInv, PipeInv, Basics, TypesHold, PipeTypes, MintInv
<1>b. ArbIs' /\ Minted \subseteq Minted'
  BY <1>a, ArbStep
<1>c. \A w \in Runs : w[1] \in Txs
  BY RunShape
<1>1. ASSUME NEW r \in Runs, wf'[r] = wf[r]
      PROVE  /\ wf'[r].stage \in {"receive", "minting"} =>
                   SumWithout(Minted', r[1], wf'[r].pre)
             /\ wf'[r].stage \in {"complete", "giza"} =>
                   SumWith(Minted', r[1], wf'[r].minted)
  BY <1>1, <1>b, SumsGrow DEF MintInv
<1>2. ASSUME NEW x \in Txs, principal'[x] # 0, principal'[x] = principal[x]
      PROVE  SumWith(Minted', x, principal'[x])
  BY <1>2, <1>b, SumsGrow DEF MintInv
<1>3. CASE OthersMove
  BY <1>3, <1>b, <1>1, <1>2 DEF OthersMove, MintInv
<1>4. ASSUME NEW w \in Runs, WorkflowForm(w) PROVE MintInv'
  <2> DEFINE x == w[1]
             s == wf[w].stage
             t == wf'[w].stage
  <2>1. /\ s \in WfStages /\ s # "none" /\ Follows(s, t)
        /\ StageFits(s, burnTx[w], mintTx[w])
        /\ Moves(w) /\ Remembers(w) /\ Sends(w) /\ Invests(w)
    BY <1>4, <1>a DEF WorkflowForm, OwnTypes, WfFits, Follows
  <2>2. x \in Txs /\ (x \in Minted <=> mintTx[w] = "mined")
    BY <1>c, <2>1, OnlyFirst DEF Minted
  <2>3. \A r \in Runs \ {w} : wf'[r] = wf[r]
    BY <1>a, <2>1 DEF Moves, OwnTypes
  <2>4. ASSUME t = "receive" PROVE SumWithout(Minted', x, wf'[w].pre)
    <3>1. s = "mint" /\ wf'[w].pre = arbWallet
      BY <2>1, <2>4
         DEF Follows, WfStages, BeforeBurn, AfterSave, Remembers
    <3>2. x \notin Minted
      BY <2>1, <2>2, <3>1 DEF StageFits
    <3>3. SumWithout(Minted, x, wf'[w].pre)
      BY <1>a, <3>1, <3>2 DEF ArbIs, SumWithout
    <3>4. QED
      BY <1>b, <3>3, SumsGrow
  <2>5. ASSUME t = "minting" PROVE SumWithout(Minted', x, wf'[w].pre)
    <3>1. s = "receive" /\ wf'[w].pre = wf[w].pre
      BY <2>1, <2>5
         DEF Follows, WfStages, BeforeBurn, AfterSave, Remembers
    <3>2. QED
      BY <1>b, <3>1, SumsGrow DEF MintInv
  <2>6. ASSUME t = "complete" PROVE SumWith(Minted', x, wf'[w].minted)
    <3>1. s = "minting" /\ wf'[w].minted = arbWallet - wf[w].pre /\ mintTx[w] = "mined"
      BY <2>1, <2>6
         DEF Follows, WfStages, BeforeBurn, AfterSave, Remembers, Sends
    <3>2. SumWithout(Minted, x, wf[w].pre) /\ x \in Minted
      BY <2>2, <3>1 DEF MintInv
    <3>3. SumWith(Minted, x, wf'[w].minted)
      BY <1>a, <3>1, <3>2, SumsSubtract DEF ArbIs
    <3>4. QED
      BY <1>b, <3>3, SumsGrow
  <2>7. ASSUME t = "giza" PROVE SumWith(Minted', x, wf'[w].minted)
    <3>1. s = "complete" /\ wf'[w].minted = wf[w].minted
      BY <2>1, <2>7
         DEF Follows, WfStages, BeforeBurn, AfterSave, Remembers
    <3>2. QED
      BY <1>b, <3>1, SumsGrow DEF MintInv
  <2>8. /\ t \in {"receive", "minting"} => SumWithout(Minted', x, wf'[w].pre)
        /\ t \in {"complete", "giza"} => SumWith(Minted', x, wf'[w].minted)
    <3>1. /\ t = "receive" \/ t = "minting" => SumWithout(Minted', x, wf'[w].pre)
          /\ t = "complete" \/ t = "giza" => SumWith(Minted', x, wf'[w].minted)
      BY <2>4, <2>5, <2>6, <2>7
    <3>2. QED
      BY <3>1
  <2>9. ASSUME NEW y \in Txs, principal'[y] # 0 PROVE SumWith(Minted', y, principal'[y])
    <3>1. CASE principal'[y] = principal[y]
      BY <1>2, <2>9, <3>1
    <3>2. CASE principal'[y] # principal[y]
      <4>1. y = x /\ s = "giza" /\ principal'[y] = wf[w].minted
        BY <1>a, <2>1, <2>2, <3>2 DEF Invests, OwnTypes
      <4>2. QED
        BY <1>b, <4>1, SumsGrow DEF MintInv
    <3>3. QED
      BY <3>1, <3>2
  <2>10. QED
    BY <1>b, <1>1, <2>3, <2>8, <2>9 DEF MintInv
<1>5. QED
  BY <1>a, <1>3, <1>4, EachWorkflow DEF StepOf

\* A position's principal is what was minted for its deposit, plus what was minted
\* for some of the others meanwhile.
THEOREM PrincipalIsOwnMint ==
    ASSUME SingleLog
    PROVE  Spec => []PrincipalExplained
<1>1. SoloInv /\ MintInv => PrincipalExplained
  <2> SUFFICES ASSUME SoloInv, MintInv, NEW x \in Txs, principal[x] # 0
               PROVE  /\ MinedFor(mintTx, x)
                      /\ \E others \in SUBSET { y \in Txs \ {x} : MinedFor(mintTx, y) } :
                            principal[x] = Amount[x]
                              + MapThenSumSet(LAMBDA y : Amount[y], others)
    BY DEF PrincipalExplained
  <2>1. PICK N \in SUBSET Minted : x \in N /\ principal[x] = AmountOf(N)
    BY DEF MintInv, SumWith
  <2>2. \A y \in Txs : y \in Minted <=> MinedFor(mintTx, y)
    BY MinedForIsFirst DEF Minted
  <2>3. N \in SUBSET Txs /\ Minted \in SUBSET Txs
    BY <2>1, Nested
  <2>4. AmountOf(N \ {x}) = AmountOf(N) - Amount[x]
        /\ AmountOf(N) \in Nat /\ Amount[x] \in Nat /\ AmountOf(N \ {x}) \in Nat
    BY <2>1, <2>3, AmountOfSets, AmountsAreNat
  <2>5. principal[x] = Amount[x] + AmountOf(N \ {x})
    BY <2>1, <2>4
  <2>6. principal[x] = Amount[x] + MapThenSumSet(LAMBDA y : Amount[y], N \ {x})
    BY <2>5 DEF AmountOf, Sum
  <2>7. N \ {x} \in SUBSET { y \in Txs \ {x} : MinedFor(mintTx, y) }
    BY <2>1, <2>2, <2>3
  <2>8. MinedFor(mintTx, x)
    BY <2>1, <2>2
  <2>9. QED
    BY <2>6, <2>7, <2>8
<1>2. SoloInv /\ MintInv /\ [Next]_allVars => MintInv'
  BY ChainMoves, MintStep
<1>3. QED
  BY SoloInit, SoloStep, MintInit, <1>1, <1>2, PTL DEF Spec

-----------------------------------------------------------------------------
(* Who writes the status of a row.                                         *)

\* A step that is no workflow's: a new row, or the row of the call under way.
OtherStatus(x) ==
    \/ rows'[x].status = rows[x].status
    \/ rows[x].status = NoRow /\ rows'[x].status = "DEPOSIT_DETECTED"
    \/ /\ Bridging /\ x = cur[1]
       /\ rows'[x].status \in {"VAULT_TO_BRIDGE_TRANSFER_INITIATED",
                               "VAULT_TO_BRIDGE_TRANSFER_CONFIRMED"}

OthersWrite == \A x \in Txs : OtherStatus(x)

\* A workflow writes its own row, the stage it is in says what.
WorkflowStatus(w) ==
    LET s == wf[w].stage
        was == rows[w[1]].status
        is == rows'[w[1]].status
    IN  \/ is = was
        \/ s = "saveBurn" /\ is = "BURN_CONFIRMED"
        \/ s = "burnFailed" /\ is = "TRANSFER_FAILED"
        \/ s \in {"saveAttestation", "saveLegacy"} /\ is = "ATTESTATION_RECEIVED"
        \/ s = "attestationFailed" /\ is = "ATTESTATION_PENDING"
        \/ s = "complete" /\ is = "TRANSFER_COMPLETED"
        \/ s = "mintFailed" /\ is = "MINT_PENDING"

LEMMA WorkflowWrites ==
    ASSUME Basics, NEW w \in Runs, WorkflowForm(w)
    PROVE  /\ WorkflowStatus(w)
           /\ \A y \in Txs \ {w[1]} : rows'[y] = rows[y]
<1> DEFINE x == w[1]
           s == wf[w].stage
           is == rows'[x].status
<1>1. /\ x \in Txs /\ w[2] \in Nat /\ HashOf[x] \in Nat /\ rows \in Rows(Txs)
      /\ rows[x] \in RowShape
  BY RunShape, AmountsAreNat DEF Basics, TypesHold, PipeTypes, OwnTypes, Rows, RowShape
<1>2. Exists(rows, x) /\ WritesRow(w)
  BY <1>1 DEF Basics, RowsMatch, WorkflowForm, Follows
<1>3. rows' = rows \/ Writes(rows, rows', x)
  BY <1>1, <1>2, WorkflowRow DEF Basics, TypesHold, PipeTypes
<1>4. CASE rows' = rows
  BY <1>4 DEF WorkflowStatus
<1>5. CASE s = "saveBurn" /\ rows' = updateBurnConfirmed(rows, x, w[2], HashOf[x])
  <2>1. rows' = rows \/ is = "BURN_CONFIRMED"
    BY <1>1, <1>2, <1>5, WritesBurn
  <2>2. QED
    BY <1>3, <1>4, <1>5, <2>1 DEF WorkflowStatus, Writes
<1>6. CASE s = "burnFailed" /\ rows' = markTransferFailed(rows, x)
  <2>1. is = "TRANSFER_FAILED"
    <3>1. rows'[x] = [rows[x] EXCEPT !.status = "TRANSFER_FAILED"]
      BY <1>1, <1>6, WritesTransferFailed
    <3>2. QED
      BY <1>1, <3>1 DEF RowShape
  <2>2. QED
    BY <1>3, <1>6, <2>1 DEF WorkflowStatus, Writes
<1>7. CASE /\ s \in {"saveAttestation", "saveLegacy"}
           /\ rows' = updateAttestationReceived(rows, x)
  <2>1. is = "ATTESTATION_RECEIVED"
    <3>1. rows'[x] = [rows[x] EXCEPT !.status = "ATTESTATION_RECEIVED", !.attested = TRUE]
      BY <1>1, <1>7, WritesAttested
    <3>2. QED
      BY <1>1, <3>1 DEF RowShape
  <2>2. QED
    BY <1>3, <1>7, <2>1 DEF WorkflowStatus, Writes
<1>8. CASE s = "attestationFailed" /\ rows' = markAttestationPending(rows, x)
  <2>1. is = "ATTESTATION_PENDING"
    <3>1. rows'[x] = [rows[x] EXCEPT !.status = "ATTESTATION_PENDING"]
      BY <1>1, <1>8, WritesAttestationPending
    <3>2. QED
      BY <1>1, <3>1 DEF RowShape
  <2>2. QED
    BY <1>3, <1>8, <2>1 DEF WorkflowStatus, Writes
<1>9. CASE s = "complete" /\ rows' = markTransferCompleted(rows, x, w[2])
  <2>1. is = "TRANSFER_COMPLETED"
    BY <1>1, <1>9, WritesCompleted
  <2>2. QED
    BY <1>3, <1>9, <2>1 DEF WorkflowStatus, Writes
<1>10. CASE s = "mintFailed" /\ rows' = markMintPending(rows, x)
  <2>1. is = "MINT_PENDING"
    <3>1. rows'[x] = [rows[x] EXCEPT !.status = "MINT_PENDING"]
      BY <1>1, <1>10, WritesMintPending
    <3>2. QED
      BY <1>1, <3>1 DEF RowShape
  <2>2. QED
    BY <1>3, <1>10, <2>1 DEF WorkflowStatus, Writes
<1>11. QED
  BY <1>2, <1>4, <1>5, <1>6, <1>7, <1>8, <1>9, <1>10 DEF WritesRow

LEMMA EachRow ==
    ASSUME Basics, CallFits, [Next]_allVars
    PROVE  OthersWrite \/ \E w \in Runs : StepOf(w)
<1>a. OwnTypes /\ rows \in Rows(Txs) /\ \A x \in Txs : rows[x] \in RowShape
  BY DEF Basics, TypesHold, PipeTypes, OwnTypes, Rows, RowShape
<1>1. ASSUME NEW w \in Runs, workflowStep(w) \/ chainCallFails(w) \/ rowUpdateFails(w)
      PROVE  StepOf(w)
  BY <1>a, <1>1, WorkflowForms DEF StepOf
<1>2. ASSUME rows' = rows PROVE OthersWrite
  BY <1>2 DEF OthersWrite, OtherStatus
<1>3. CASE listen \/ recover
  <2>1. rows' = [x \in Txs |-> RowFor(x)[x]]
    BY <1>3 DEF listen, recover
  <2>2. ASSUME NEW x \in Txs PROVE OtherStatus(x)
    <3>1. rows'[x] = IF x \in transfers' /\ ~Exists(rows, x)
                       THEN [rows[x] EXCEPT !.status = "DEPOSIT_DETECTED"] ELSE rows[x]
      BY <1>a, <2>1, ListenerRows
    <3>2. QED
      BY <1>a, <3>1 DEF OtherStatus, Exists, RowShape
  <2>3. QED
    BY <2>2 DEF OthersWrite
<1>4. CASE CallForm \/ confirmBridge
  <2>1. Bridging /\ cur[1] \in Txs /\ CurCall[2] \in Nat
    BY <1>4, CurCallIsRun, MaxRunsPositive
       DEF CallForm, confirmBridge, CallStage, Bridging, Basics, TypesHold, PipeTypes
  <2>2. rows' \in {rows, markVaultToBridgeInitiated(rows, cur[1], CurCall[2]),
                   markVaultToBridgeConfirmed(rows, cur[1], CurCall[2])}
    BY <1>4 DEF CallForm, confirmBridge
  <2>3. \/ rows' = rows
        \/ /\ Writes(rows, rows', cur[1])
           /\ rows'[cur[1]].status \in {"VAULT_TO_BRIDGE_TRANSFER_INITIATED",
                                        "VAULT_TO_BRIDGE_TRANSFER_CONFIRMED"}
    BY <1>a, <2>1, <2>2, WritesInitiated, WritesConfirmed
  <2>4. QED
    BY <1>2, <2>1, <2>3 DEF OthersWrite, OtherStatus, Writes
<1>5. CASE failBridge
  <2>1. /\ cur[1] \in Txs /\ Exists(rows, cur[1])
        /\ rows' = rows \/ rows' = markVaultToBridgeFailed(rows, cur[1])
    BY <1>5, CurCallIsRun
       DEF failBridge, CallStage, Bridging, Basics, TypesHold, PipeTypes, RowsMatch
  <2>2. \/ rows' = rows
        \/ /\ Writes(rows, rows', cur[1])
           /\ rows'[cur[1]] = [rows[cur[1]] EXCEPT !.bridgeError = TRUE]
    BY <1>a, <2>1, WritesBridgeFailed
  <2>3. rows' = rows \/ rows'[cur[1]].status = rows[cur[1]].status
    BY <1>a, <2>1, <2>2 DEF RowShape
  <2>4. QED
    BY <1>2, <2>1, <2>2, <2>3 DEF OthersWrite, OtherStatus, Writes
<1>6. QED
  <2>1. ASSUME NEW r \in Runs, mineTx(r) PROVE OthersWrite
    BY <1>2, <2>1 DEF mineTx, mineVaultTx, mineApproveTx, mineBurnTx, mineMintTx
  <2>2. CASE \/ processCrash \/ \E x \in Txs : userWithdraws(x)
             \/ \E last \in 0 .. NumTx : blockWithDeposits(last)
             \/ UNCHANGED allVars
    BY <1>2, <2>2 DEF processCrash, userWithdraws, blockWithDeposits, allVars, pipelineVars
  <2>3. QED
    BY <1>1, <1>3, <1>4, <1>5, <2>1, <2>2, <1>a, CallForms DEF Next, bridgeStep


\* A row gets a final status from its one workflow, as its last or last but one step.
FinalIsLast ==
    \A x \in Txs :
        /\ rows[x].status = "TRANSFER_FAILED" => wf[<<x, 1>>].stage = "done"
        /\ rows[x].status = "TRANSFER_COMPLETED" =>
              wf[<<x, 1>>].stage \in {"giza", "mintFailed", "done", "lost"}

FinalStays ==
    \A x \in Txs :
        /\ rows[x].status = "TRANSFER_FAILED" => rows'[x].status = "TRANSFER_FAILED"
        /\ rows[x].status = "TRANSFER_COMPLETED" =>
              rows'[x].status \in {"TRANSFER_COMPLETED", "MINT_PENDING"}

LEMMA FinalInit == Init => FinalIsLast
  BY DEF Init, FinalIsLast, EmptyTable, NoRow

\* While a call is under way no workflow of its deposit has started.
LEMMA BridgedFirst ==
    ASSUME SoloInv, Bridging
    PROVE  cur[1] \in Txs /\ wf[<<cur[1], 1>>].stage = "none"
<1>1. pc = "bridge" /\ spawned[cur[1]] = 0
  BY DEF SoloInv, OnceInv, NeverDuplicate, DoneSoFar, Bridging
<1>2. cur[1] \in Txs
  BY CurCallIsRun DEF SoloInv, PipeInv, Basics, TypesHold, PipeTypes
<1>3. <<cur[1], 1>> \in Runs
  BY <1>2, FirstRun
<1>4. QED
  BY <1>1, <1>2, <1>3 DEF SoloInv, PipeInv, WfFits

LEMMA FinalStep ==
    ASSUME SoloInv, FinalIsLast, [Next]_allVars
    PROVE  FinalIsLast' /\ FinalStays
<1>a. Basics /\ WfFits /\ CallFits /\ OwnTypes
  BY DEF SoloInv, PipeInv, Basics, TypesHold, PipeTypes
<1>1. CASE OthersMove /\ OthersWrite
  <2>1. ASSUME NEW x \in Txs
        PROVE  /\ rows[x].status = "TRANSFER_FAILED" =>
                     rows'[x].status = "TRANSFER_FAILED"
               /\ rows[x].status = "TRANSFER_COMPLETED" =>
                     rows'[x].status = "TRANSFER_COMPLETED"
               /\ rows'[x].status \in {"TRANSFER_FAILED", "TRANSFER_COMPLETED"} =>
                     rows[x].status = rows'[x].status
    <3>1. OtherStatus(x)
      BY <1>1 DEF OthersWrite
    <3>2. Bridging /\ x = cur[1] =>
             rows[x].status \notin {"TRANSFER_FAILED", "TRANSFER_COMPLETED"}
      BY BridgedFirst DEF FinalIsLast
    <3>3. QED
      BY <3>1, <3>2 DEF OtherStatus, NoRow
  <2>2. ASSUME NEW x \in Txs
        PROVE  /\ wf[<<x, 1>>].stage = "done" => wf'[<<x, 1>>].stage = "done"
               /\ wf[<<x, 1>>].stage \in {"giza", "mintFailed", "done", "lost"} =>
                     wf'[<<x, 1>>].stage \in {"giza", "mintFailed", "done", "lost"}
    BY <1>1, FirstRun DEF OthersMove
  <2>3. QED
    BY <2>1, <2>2 DEF FinalIsLast, FinalStays
<1>2. ASSUME NEW w \in Runs, WorkflowForm(w) PROVE FinalIsLast' /\ FinalStays
  <2> DEFINE x == w[1]
             s == wf[w].stage
             t == wf'[w].stage
  <2>1. /\ x \in Txs /\ s \in WfStages /\ t \in WfStages /\ Follows(s, t)
        /\ s \notin {"none", "done", "lost"}
        /\ \A r \in Runs \ {w} : wf'[r] = wf[r]
    BY <1>2, <1>a, RunShape DEF WorkflowForm, OwnTypes, Follows, Moves
  <2>2. w = <<x, 1>>
    BY <2>1, OnlyFirst
  <2>3. WorkflowStatus(w) /\ \A y \in Txs \ {x} : rows'[y] = rows[y]
    BY <1>2, <1>a, WorkflowWrites
  <2>4. /\ rows[x].status # "TRANSFER_FAILED"
        /\ rows[x].status = "TRANSFER_COMPLETED" => s \in {"giza", "mintFailed"}
    BY <2>1, <2>2 DEF FinalIsLast
  <2>5. /\ rows'[x].status = "TRANSFER_FAILED" => t = "done"
        /\ rows'[x].status = "TRANSFER_COMPLETED" =>
              t \in {"giza", "mintFailed", "done", "lost"}
        /\ rows[x].status = "TRANSFER_COMPLETED" =>
              rows'[x].status \in {"TRANSFER_COMPLETED", "MINT_PENDING"}
    BY <2>1, <2>3, <2>4 DEF WorkflowStatus, Follows
  <2>6. ASSUME NEW y \in Txs \ {x} PROVE wf'[<<y, 1>>] = wf[<<y, 1>>]
    BY <2>1, <2>2, FirstRun
  <2>7. FinalIsLast'
    <3> SUFFICES ASSUME NEW y \in Txs
                 PROVE  /\ rows'[y].status = "TRANSFER_FAILED" =>
                              wf'[<<y, 1>>].stage = "done"
                        /\ rows'[y].status = "TRANSFER_COMPLETED" =>
                              wf'[<<y, 1>>].stage \in {"giza", "mintFailed", "done", "lost"}
      BY DEF FinalIsLast
    <3>1. CASE y = x
      BY <2>2, <2>5, <3>1
    <3>2. CASE y # x
      BY <2>3, <2>6, <3>2 DEF FinalIsLast
    <3>3. QED
      BY <3>1, <3>2
  <2>8. FinalStays
    BY <2>3, <2>4, <2>5 DEF FinalStays
  <2>9. QED
    BY <2>7, <2>8
<1>3. QED
  BY <1>a, <1>1, <1>2, EachWorkflow, EachRow DEF StepOf

\* With one log per transaction FAILED is final and COMPLETED nearly so, whatever the
\* listener, the workflows and the restarts do.
THEOREM FinalMeansFinal ==
    ASSUME SingleLog
    PROVE  Spec => FinalStatusStays
<1>1. SoloInv /\ FinalIsLast /\ [Next]_allVars => FinalIsLast' /\ [FinalStays]_rows
  BY FinalStep
<1>2. QED
  BY SoloInit, SoloStep, FinalInit, <1>1, PTL DEF Spec, FinalStatusStays, FinalStays


-----------------------------------------------------------------------------
(* Why a deposit that was burned may be marked FAILED.                     *)

OtherPaid(x) == \E y \in Txs \ {x} : y \in Paid

\* x was not burned, or the wallet's balance was not its alone.
Excused(x) == burnTx[<<x, 1>>] \in {"none", "reverted"} \/ OtherPaid(x)

OverlapInv ==
    /\ \A w \in Runs :
          /\ wf[w].stage \in {"approve", "approving", "burn", "burning"} =>
                wf[w].pre >= Amount[w[1]]
          /\ wf[w].stage = "burnFailed" => Excused(w[1])
    /\ \A x \in Txs : rows[x].status = "TRANSFER_FAILED" => Excused(x)

LEMMA OverlapInit == Init => OverlapInv
<1> SUFFICES ASSUME Init PROVE OverlapInv
  OBVIOUS
<1>1. \A w \in Runs : wf[w].stage = "none"
  BY DEF Init, NotStarted
<1>2. \A x \in Txs : rows[x].status # "TRANSFER_FAILED"
  BY DEF Init, EmptyTable, NoRow
<1>3. QED
  BY <1>1, <1>2 DEF OverlapInv

\* Where a burn fails when neither a chain call nor a row update throws.
LEMMA BurnFailsWhere ==
    ASSUME {"rpc", "db", "extract"} \cap Faults = {}, OwnTypes, NEW w \in Runs,
           StepOf(w), wf'[w].stage = "burnFailed"
    PROVE  \/ wf[w].stage \in {"balance", "burn"}
           \/ /\ wf[w].stage = "burning"
              /\ \/ burnTx[w] = "reverted"
                 \/ /\ burnTx[w] = "mined"
                    /\ ~BurnVerified(wf[w].pre, bridgeWallet, Amount[w[1]])
<1>1. workflowStep(w)
  BY DEF StepOf, chainCallFails, rowUpdateFails
<1>2. Follows(wf[w].stage, "burnFailed")
  BY DEF StepOf, WorkflowForm
<1>3. wf[w].stage \in {"balance", "approve", "approving", "burn", "burning", "saveBurn"}
  BY <1>2 DEF Follows, OwnTypes, WfStages, BeforeBurn, AfterSave
<1>4. CASE checkBalance(w) \/ submitBurn(w)
  BY <1>4 DEF checkBalance, submitBurn, At
<1>5. CASE verifyBurn(w)
  <2>1. \A t : To(w, t) => wf'[w].stage = t
    BY DEF To, OwnTypes
  <2>2. ~To(w, "saveBurn") /\ "extract" \notin Faults
    BY <2>1
  <2>3. QED
    BY <1>5, <2>2 DEF verifyBurn, At
<1>6. CASE readAllowance(w) \/ approvalConfirmed(w) \/ saveBurn(w)
  BY <1>6 DEF readAllowance, approvalConfirmed, saveBurn, To, OwnTypes
<1>7. QED
  BY <1>1, <1>3, <1>4, <1>5, <1>6
     DEF workflowStep, At, failBurn, attested, attestedLegacy, attestationTimesOut,
         saveAttestation, failAttestation, readInitialBalance, gasTooLow, submitMint,
         readFinalBalance, complete, initializeGizaPosition, failMint

\* A burn that was not sent, or that was refused, stays so until it is sent.
LEMMA BurnMoves ==
    ASSUME Basics, CallFits, WfFits, [Next]_allVars, NEW w \in Runs,
           burnTx[w] \in {"none", "reverted"}, wf'[w].stage # "burning"
    PROVE  burnTx'[w] = burnTx[w]
<1>a. OwnTypes
  BY DEF Basics, TypesHold, PipeTypes
<1>1. ASSUME NEW r \in Runs, workflowStep(r) \/ chainCallFails(r) \/ rowUpdateFails(r)
      PROVE  burnTx'[w] = burnTx[w]
  <2>1. WorkflowForm(r)
    BY <1>a, <1>1, WorkflowForms
  <2>2. QED
    BY <2>1, WorkflowSends
<1>2. ASSUME NEW r \in Runs, mineTx(r) PROVE burnTx'[w] = burnTx[w]
  BY <1>a, <1>2 DEF mineTx, mineVaultTx, mineApproveTx, mineBurnTx, mineMintTx, OwnTypes
<1>3. QED
  BY <1>a, <1>1, <1>2, CallForms
     DEF Next, bridgeStep, confirmBridge, failBridge, blockWithDeposits, userWithdraws,
         listen, recover, processCrash, allVars, pipelineVars, chainState, CallForm


\* When the wallet was one deposit's alone, its burn is seen in the balance.
LEMMA AloneIsVerified ==
    ASSUME SoloInv, WalletIs, NEW x \in Burned, ~OtherPaid(x),
           NEW n \in Nat, n >= Amount[x]
    PROVE  BurnVerified(n, bridgeWallet, Amount[x])
<1>1. x \in Txs /\ Paid \ Burned = {}
  BY Nested DEF OtherPaid
<1>2. bridgeWallet = 0
  BY <1>1, SumEmpty DEF WalletIs, AmountOf
<1>3. Amount[x] \in Nat /\ Amount[x] > 0
  BY <1>1, AmountsAreNat
<1>4. QED
  BY <1>2, <1>3 DEF BurnVerified

LEMMA OverlapStep ==
    ASSUME {"rpc", "db", "extract"} \cap Faults = {},
           SoloInv, WalletIs, FinalIsLast, OverlapInv, ChainMove, [Next]_allVars
    PROVE  OverlapInv'
<1>a. Basics /\ WfFits /\ CallFits /\ OwnTypes
  BY DEF SoloInv, PipeInv, Basics, TypesHold, PipeTypes
<1>b. Paid \subseteq Paid'
  BY DEF ChainMove, Still
<1>c. ASSUME NEW x \in Txs, Excused(x), wf'[<<x, 1>>].stage # "burning"
      PROVE  Excused(x)'
  <2>1. CASE OtherPaid(x)
    BY <1>b, <2>1 DEF OtherPaid, Excused
  <2>2. CASE burnTx[<<x, 1>>] \in {"none", "reverted"}
    <3>1. <<x, 1>> \in Runs
      BY FirstRun
    <3>2. burnTx'[<<x, 1>>] = burnTx[<<x, 1>>]
      BY <1>a, <1>c, <2>2, <3>1, BurnMoves
    <3>3. QED
      BY <2>2, <3>2 DEF Excused
  <2>3. QED
    BY <1>c, <2>1, <2>2 DEF Excused
<1>d. ASSUME NEW r \in Runs, wf[r].stage # "none" PROVE r[1] \in Txs /\ r = <<r[1], 1>>
  BY <1>d, RunShape, OnlyFirst
<1>1. ASSUME NEW r \in Runs, wf'[r] = wf[r]
      PROVE  /\ wf'[r].stage \in {"approve", "approving", "burn", "burning"} =>
                   wf'[r].pre >= Amount[r[1]]
             /\ wf'[r].stage = "burnFailed" => Excused(r[1])'
  BY <1>1, <1>c, <1>d DEF OverlapInv
<1>2. ASSUME NEW x \in Txs, rows[x].status = "TRANSFER_FAILED" PROVE Excused(x)'
  <2>1. Excused(x) /\ wf[<<x, 1>>].stage = "done" /\ <<x, 1>> \in Runs
    BY <1>2, FirstRun DEF OverlapInv, FinalIsLast
  <2>2. wf'[<<x, 1>>].stage # "burning"
    <3>1. CASE OthersMove
      BY <2>1, <3>1 DEF OthersMove
    <3>2. ASSUME NEW w \in Runs, StepOf(w) PROVE wf'[<<x, 1>>].stage # "burning"
      <4>1. w # <<x, 1>> /\ Moves(w)
        BY <2>1, <3>2 DEF StepOf, WorkflowForm, Follows
      <4>2. QED
        BY <1>a, <2>1, <4>1 DEF Moves, OwnTypes
    <3>3. QED
      BY <1>a, <3>1, <3>2, EachWorkflow
  <2>3. QED
    BY <1>c, <2>1, <2>2
<1>3. CASE OthersMove /\ OthersWrite
  <2>1. ASSUME NEW x \in Txs, rows'[x].status = "TRANSFER_FAILED"
        PROVE  rows[x].status = "TRANSFER_FAILED"
    BY <1>3, <2>1 DEF OthersWrite, OtherStatus
  <2>2. ASSUME NEW r \in Runs
        PROVE  /\ wf'[r].stage \in {"approve", "approving", "burn", "burning"} =>
                     wf'[r].pre >= Amount[r[1]]
               /\ wf'[r].stage = "burnFailed" => Excused(r[1])'
    BY <1>1, <1>3 DEF OthersMove
  <2>3. QED
    BY <1>2, <2>1, <2>2 DEF OverlapInv
<1>4. ASSUME NEW w \in Runs, StepOf(w) PROVE OverlapInv'
  <2> DEFINE x == w[1]
             s == wf[w].stage
             t == wf'[w].stage
  <2>1. /\ s \in WfStages /\ Follows(s, t) /\ s # "none"
        /\ StageFits(s, burnTx[w], mintTx[w])
        /\ Moves(w) /\ Remembers(w) /\ Sends(w) /\ WorkflowForm(w)
        /\ wf[w].pre \in Nat
    BY <1>4, <1>a DEF StepOf, WorkflowForm, OwnTypes, WfFits, Follows
  <2>2. x \in Txs /\ w = <<x, 1>>
    BY <2>1, <1>d
  <2>3. \A r \in Runs \ {w} : wf'[r] = wf[r]
    BY <1>a, <2>1 DEF Moves, OwnTypes
  <2>4. ASSUME t \in {"approve", "approving", "burn", "burning"}
        PROVE  wf'[w].pre >= Amount[x]
    <3>1. CASE t = "approve"
      BY <2>1, <3>1 DEF Remembers
    <3>2. CASE t \in {"approving", "burn", "burning"}
      <4>1. s \in {"approve", "approving", "burn"} /\ wf'[w].pre = wf[w].pre
        BY <2>1, <3>2 DEF Follows, Remembers, WfStages, BeforeBurn, AfterSave
      <4>2. QED
        BY <4>1 DEF OverlapInv
    <3>3. QED
      BY <2>4, <3>1, <3>2
  <2>5. ASSUME t = "burnFailed" PROVE Excused(x)'
    <3>1. Excused(x)
      <4>1. \/ s \in {"balance", "burn"}
            \/ /\ s = "burning"
               /\ \/ burnTx[w] = "reverted"
                  \/ /\ burnTx[w] = "mined"
                     /\ ~BurnVerified(wf[w].pre, bridgeWallet, Amount[x])
        BY <1>4, <1>a, <2>5, BurnFailsWhere
      <4>2. CASE s \in {"balance", "burn"}
        BY <2>1, <2>2, <4>2 DEF StageFits, BeforeBurn, Excused
      <4>3. CASE burnTx[w] = "reverted"
        BY <2>2, <4>3 DEF Excused
      <4>4. CASE /\ s = "burning" /\ burnTx[w] = "mined"
                 /\ ~BurnVerified(wf[w].pre, bridgeWallet, Amount[x])
        <5>1. x \in Burned /\ wf[w].pre >= Amount[x]
          BY <2>2, <4>4 DEF Burned, OverlapInv
        <5>2. QED
          BY <2>1, <4>4, <5>1, AloneIsVerified DEF Excused
      <4>5. QED
        BY <4>1, <4>2, <4>3, <4>4
    <3>2. QED
      BY <1>c, <2>2, <2>5, <3>1
  <2>6. ASSUME NEW y \in Txs, rows'[y].status = "TRANSFER_FAILED" PROVE Excused(y)'
    <3>1. CASE rows[y].status = "TRANSFER_FAILED"
      BY <1>2, <3>1
    <3>2. CASE rows[y].status # "TRANSFER_FAILED"
      <4>1. WorkflowStatus(w) /\ \A z \in Txs \ {x} : rows'[z] = rows[z]
        BY <1>a, <2>1, WorkflowWrites
      <4>2. y = x
        BY <2>6, <3>2, <4>1
      <4>3. s = "burnFailed"
        BY <2>6, <3>2, <4>1, <4>2 DEF WorkflowStatus
      <4>4. t = "done" /\ Excused(x)
        BY <2>1, <4>3 DEF Follows, OverlapInv
      <4>5. QED
        BY <1>c, <2>2, <4>2, <4>4
    <3>3. QED
      BY <3>1, <3>2
  <2>7. QED
    BY <1>1, <2>3, <2>4, <2>5, <2>6 DEF OverlapInv
<1>5. QED
  BY <1>a, <1>3, <1>4, EachWorkflow, EachRow

\* As long as chain calls, the database and the message extraction work, and with one
\* log per transaction, a burned deposit is marked FAILED only when USDC of another
\* deposit has come into the wallet.
THEOREM FalseFailureIsOverlap ==
    ASSUME SingleLog, {"rpc", "db", "extract"} \cap Faults = {}
    PROVE  Spec => []FalseFailureNeedsOverlap
<1>1. SoloInv /\ OverlapInv => FalseFailureNeedsOverlap
  <2> SUFFICES ASSUME SoloInv, OverlapInv, NEW x \in Txs,
                      rows[x].status = "TRANSFER_FAILED", MinedFor(burnTx, x)
               PROVE  \E y \in Txs \ {x} : MinedFor(vaultTx, y)
    BY DEF FalseFailureNeedsOverlap
  <2>1. burnTx[<<x, 1>>] = "mined" /\ Excused(x)
    BY MinedForIsFirst DEF OverlapInv
  <2>2. OtherPaid(x)
    BY <2>1 DEF Excused
  <2>3. QED
    BY <2>2, MinedForIsFirst DEF OtherPaid, Paid
<1>2. SoloInv /\ WalletIs /\ FinalIsLast /\ OverlapInv /\ [Next]_allVars
        => WalletIs' /\ FinalIsLast' /\ OverlapInv'
  BY ChainMoves, WalletStep, FinalStep, OverlapStep
<1>3. QED
  BY SoloInit, SoloStep, WalletInit, FinalInit, OverlapInit, <1>1, <1>2, PTL DEF Spec
=============================================================================
