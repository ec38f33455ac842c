---------------------------- MODULE TransferState ----------------------------
(***************************************************************************)
(* The CrossChainTransfer table and the row updates TransferStateService   *)
(* performs on it (transfers/transfer-state.service.ts).  An operator maps *)
(* the table before the update to the table after it.  No update of the    *)
(* service looks at the status it replaces; neither do these.              *)
(*                                                                         *)
(* A row keeps what the properties tell apart: its status and, for each    *)
(* stage, which execution left its evidence (0: the column is null).       *)
(* Timestamps, attempt counters, error texts and the TransferLog table are *)
(* left out.                                                               *)
(***************************************************************************)
EXTENDS Naturals

Statuses == {
    "DEPOSIT_DETECTED",
    "VAULT_TO_BRIDGE_TRANSFER_INITIATED", "VAULT_TO_BRIDGE_TRANSFER_CONFIRMED",
    "APPROVAL_PENDING", "APPROVAL_CONFIRMED",
    "BURN_PENDING", "BURN_CONFIRMED", "MESSAGE_EXTRACTED",
    "ATTESTATION_PENDING", "ATTESTATION_RECEIVED",
    "MINT_PENDING", "TRANSFER_COMPLETED", "TRANSFER_FAILED" }

NoRow == "NO_ROW"      \* status of a transfer whose row does not exist
NoHash == 0            \* messageHash column is null

Rows(T) == [T -> [ status   : Statuses \union {NoRow},
                   bridgeTx : Nat,      \* vaultToBridgeTxHash: which call
                   burnTx   : Nat,      \* xdcBurnTxHash: which workflow
                   hash     : Nat,      \* messageHash
                   bridgeError : BOOLEAN,  \* bridgeTransferError is set
                   attested : BOOLEAN,  \* attestation column is set
                   mintTx   : Nat ]]    \* arbMintTxHash: which workflow

EmptyTable(T) ==
    [x \in T |-> [status |-> NoRow, bridgeTx |-> 0, bridgeError |-> FALSE,
                  burnTx |-> 0, hash |-> NoHash, attested |-> FALSE, mintTx |-> 0]]

Exists(rows, x) == rows[x].status # NoRow

createTransferFromDeposit(rows, x) ==
    [rows EXCEPT ![x].status = "DEPOSIT_DETECTED"]

markVaultToBridgeInitiated(rows, x, call) ==
    [rows EXCEPT ![x].status = "VAULT_TO_BRIDGE_TRANSFER_INITIATED",
                 ![x].bridgeTx = call, ![x].bridgeError = FALSE]

markVaultToBridgeConfirmed(rows, x, call) ==
    [rows EXCEPT ![x].status = "VAULT_TO_BRIDGE_TRANSFER_CONFIRMED",
                 ![x].bridgeTx = call, ![x].bridgeError = FALSE]

\* Only the error column: the status stays what it was.
markVaultToBridgeFailed(rows, x) == [rows EXCEPT ![x].bridgeError = TRUE]

\* The hash is unique in the table: when this row already has it (a replayed
\* burn) or another row has it, nothing of the burn is stored, yet the caller is
\* told that all went well.  A concurrent insert of the hash ends the same way
\* (P2002 handler).
HashTaken(rows, h) == \E y \in DOMAIN rows : rows[y].hash = h

\* Wrong variant: the message hash is not stored.
updateBurnWithoutHash(rows, x, run, h) ==
    IF ~Exists(rows, x) THEN rows
    ELSE [rows EXCEPT ![x].status = "BURN_CONFIRMED", ![x].burnTx = run]

updateBurnConfirmed(rows, x, run, h) ==
    IF ~Exists(rows, x) \/ HashTaken(rows, h)
      THEN rows
      ELSE [rows EXCEPT ![x].status = "BURN_CONFIRMED",
                        ![x].burnTx = run,
                        ![x].hash = h]

(* The statuses of the burn-only path.                                      *)

markApprovalPending(rows, x) ==
    [rows EXCEPT ![x].status = "APPROVAL_PENDING"]

markApprovalConfirmed(rows, x) ==
    [rows EXCEPT ![x].status = "APPROVAL_CONFIRMED"]

markBurnPending(rows, x) ==
    [rows EXCEPT ![x].status = "BURN_PENDING"]

markMessageExtracted(rows, x) ==
    [rows EXCEPT ![x].status = "MESSAGE_EXTRACTED"]

updateAttestationReceived(rows, x) ==
    [rows EXCEPT ![x].status = "ATTESTATION_RECEIVED", ![x].attested = TRUE]

markAttestationPending(rows, x) ==
    [rows EXCEPT ![x].status = "ATTESTATION_PENDING"]

markMintPending(rows, x) ==
    [rows EXCEPT ![x].status = "MINT_PENDING"]

markTransferCompleted(rows, x, run) ==
    [rows EXCEPT ![x].status = "TRANSFER_COMPLETED", ![x].mintTx = run]

markTransferFailed(rows, x) ==
    [rows EXCEPT ![x].status = "TRANSFER_FAILED"]

\* The statuses for which the listener's duplicate path does not start the CCTP
\* workflow again (those of them that some code path can set).
PastBurn == {
    "BURN_CONFIRMED", "MESSAGE_EXTRACTED", "ATTESTATION_PENDING",
    "ATTESTATION_RECEIVED", "MINT_PENDING", "TRANSFER_COMPLETED" }

-----------------------------------------------------------------------------
(* The CctpBurn table of the burn-only path: one record per transfer,       *)
(* unique also in its message hash.                                         *)

NoBurnRecord == "NO_RECORD"

BurnRecords(T) ==
    [T -> [status : {NoBurnRecord, "BURN_PENDING", "MESSAGE_EXTRACTED"},
           burnTx : Nat, hash : Nat, failed : BOOLEAN]]

EmptyBurnRecords(T) ==
    [x \in T |-> [status |-> NoBurnRecord, burnTx |-> 0, hash |-> NoHash,
                  failed |-> FALSE]]

\* upsertCctpBurnRecord with the burn's evidence.  A hash that another record has
\* is a unique violation, which is taken for a replay: nothing is stored.
recordBurn(burns, x, run, h) ==
    IF \E y \in DOMAIN burns \ {x} : burns[y].hash = h
      THEN burns
      ELSE [burns EXCEPT ![x].status = "MESSAGE_EXTRACTED", ![x].burnTx = run,
                         ![x].hash = h]

\* upsertCctpBurnRecord out of the catch block: columns that are not passed keep
\* what they have.
recordBurnFailure(burns, x) ==
    [burns EXCEPT ![x].status = "BURN_PENDING", ![x].failed = TRUE]
=============================================================================
