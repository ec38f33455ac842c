---------------------------- MODULE CctpPipeline ----------------------------
(***************************************************************************)
(* The path of a deposit from the vault on XDC to Arbitrum: the listener   *)
(* of DepositIndexer, the vault-to-bridge call it awaits                   *)
(* (vault/vault-bridge.service.ts), the CCTP workflows it launches and     *)
(* does not await (cctp/cctp-orchestrator, burn and mint services), the    *)
(* transfer rows all of them write (TransferState) and the two chains.     *)
(*                                                                         *)
(* One key signs everything: the wallet the vault pays into is the wallet  *)
(* every workflow burns from and, on Arbitrum, mints to.  A step is the    *)
(* code between two awaits; two awaits are one step only where nothing     *)
(* another process does in between can tell.                               *)
(*                                                                         *)
(* Call k of the vault-to-bridge transfer of deposit x and run k of its    *)
(* workflow are both written <<x, k>>.                                     *)
(***************************************************************************)
EXTENDS DepositIndexer, FiniteSetsExt

CONSTANTS
    Amount,          \* Amount[x]: USDC each Deposited log of x carries
    HashOf,          \* HashOf[x]: message hash of a burn for x
    ApprovalFactor   \* an approval covers this many times the amount (10)

ASSUME PipelineAssumption ==
    /\ Amount \in [Txs -> Nat \ {0}]
    /\ HashOf \in [Txs -> Nat \ {NoHash}]
    /\ ApprovalFactor \in Nat \ {0}
    /\ MaxRuns # 0

\* What a deposit transaction pays into the vault.
PaidIn == [x \in Txs |-> Amount[x] * LogsOf[x]]

Runs == Txs \X (1 .. MaxRuns)

VARIABLES
    rows,         \* CrossChainTransfer rows
    vault,        \* the vault's totalDeposits, all of it in USDC
    withdrawn,    \* deposits their owners took back out of the vault
    bridgeWallet, \* the signer's USDC on XDC
    allowance,    \* its allowance to TokenMessenger
    arbWallet,    \* the signer's USDC on Arbitrum
    vaultTx,      \* transferToBridgeWallet transaction of each call
    approveTx,    \* approve transaction of each workflow
    burnTx,       \* depositForBurn transaction of each workflow
    mintTx,       \* receiveMessage transaction of each workflow
    call,         \* the listener's transferAndVerify call
    wf,           \* the workflows
    principal     \* amount handed to initializeGizaPosition, 0: not yet

chainState == <<vault, withdrawn, bridgeWallet, allowance, arbWallet,
                vaultTx, approveTx, burnTx, mintTx>>
pipelineVars == <<rows, chainState, call, wf, principal>>
allVars == <<indexerVars, pipelineVars>>

TxStates == {"none", "pending", "mined", "reverted"}
NoCall == [stage |-> "none", pre |-> 0]
NotStarted == [stage |-> "none", pre |-> 0, minted |-> 0]
Started == [NotStarted EXCEPT !.stage = "balance"]

Init ==
    /\ IndexerInit
    /\ rows = EmptyTable(Txs)
    /\ vault = 0 /\ withdrawn = {}
    /\ bridgeWallet = 0 /\ allowance = 0 /\ arbWallet = 0
    /\ vaultTx = [r \in Runs |-> "none"]
    /\ approveTx = [r \in Runs |-> "none"]
    /\ burnTx = [r \in Runs |-> "none"]
    /\ mintTx = [r \in Runs |-> "none"]
    /\ call = NoCall
    /\ wf = [r \in Runs |-> NotStarted]
    /\ principal = [x \in Txs |-> 0]

-----------------------------------------------------------------------------
(* The chains.  A transaction that was accepted is mined some time later,  *)
(* whether or not its sender still waits for it.                           *)

blockWithDeposits(last) ==
    /\ NewBlock(last)
    /\ LET fresh == { x \in Txs : ~Mined(x) /\ x <= last }
       IN  vault' = vault + MapThenSumSet(LAMBDA x : PaidIn[x], fresh)
    /\ UNCHANGED <<rows, withdrawn, bridgeWallet, allowance, arbWallet,
                   vaultTx, approveTx, burnTx, mintTx, call, wf, principal>>

\* BondCreditVault.withdraw by the owner of deposit x, all of it.
userWithdraws(x) ==
    /\ "withdraw" \in Faults
    /\ Mined(x) /\ x \notin withdrawn
    /\ vault >= PaidIn[x]
    /\ vault' = vault - PaidIn[x]
    /\ withdrawn' = withdrawn \union {x}
    /\ UNCHANGED <<indexerVars, rows, bridgeWallet, allowance, arbWallet,
                   vaultTx, approveTx, burnTx, mintTx, call, wf, principal>>

mineVaultTx(c) ==
    /\ vaultTx[c] = "pending"
    /\ IF vault >= Amount[c[1]]
         THEN /\ vaultTx' = [vaultTx EXCEPT ![c] = "mined"]
              /\ vault' = vault - Amount[c[1]]
              /\ bridgeWallet' = bridgeWallet + Amount[c[1]]
         ELSE /\ vaultTx' = [vaultTx EXCEPT ![c] = "reverted"]
              /\ UNCHANGED <<vault, bridgeWallet>>
    /\ UNCHANGED <<indexerVars, rows, withdrawn, allowance, arbWallet,
                   approveTx, burnTx, mintTx, call, wf, principal>>

mineBurnTx(w) ==
    /\ burnTx[w] = "pending"
    /\ IF bridgeWallet >= Amount[w[1]] /\ allowance >= Amount[w[1]]
         THEN /\ burnTx' = [burnTx EXCEPT ![w] = "mined"]
              /\ bridgeWallet' = bridgeWallet - Amount[w[1]]
              /\ allowance' = allowance - Amount[w[1]]
         ELSE /\ burnTx' = [burnTx EXCEPT ![w] = "reverted"]
              /\ UNCHANGED <<bridgeWallet, allowance>>
    /\ UNCHANGED <<indexerVars, rows, vault, withdrawn, arbWallet,
                   vaultTx, approveTx, mintTx, call, wf, principal>>

\* approve() replaces the allowance the other workflows rely on.
mineApproveTx(w) ==
    /\ approveTx[w] = "pending"
    /\ approveTx' = [approveTx EXCEPT ![w] = "mined"]
    /\ allowance' = ApprovalFactor * Amount[w[1]]
    /\ UNCHANGED <<indexerVars, rows, vault, withdrawn, bridgeWallet, arbWallet,
                   vaultTx, burnTx, mintTx, call, wf, principal>>

\* The message names the burn, so receiveMessage mints its amount, once.
mineMintTx(w) ==
    /\ mintTx[w] = "pending"
    /\ mintTx' = [mintTx EXCEPT ![w] = "mined"]
    /\ arbWallet' = arbWallet + Amount[w[1]]
    /\ UNCHANGED <<indexerVars, rows, vault, withdrawn, bridgeWallet, allowance,
                   vaultTx, approveTx, burnTx, call, wf, principal>>

-----------------------------------------------------------------------------
(* The listener's own steps, with the rows they create.                    *)

RowFor(x) == IF x \in transfers' /\ ~Exists(rows, x)
               THEN createTransferFromDeposit(rows, x) ELSE rows

\* Launching workflow number spawned' of deposit x.
Launch == wf' = [r \in Runs |-> IF r[2] = spawned'[r[1]] /\ r[2] # spawned[r[1]]
                                  THEN Started ELSE wf[r]]

listen ==
    /\ ListenerNext
    /\ rows' = [x \in Txs |-> RowFor(x)[x]]
    /\ UNCHANGED <<chainState, call, wf, principal>>

recover ==
    /\ recoverDuplicate(IF cur[1] \in transfers THEN rows[cur[1]].status
                                                ELSE "DEPOSIT_DETECTED")
    /\ rows' = [x \in Txs |-> RowFor(x)[x]]
    /\ Launch
    /\ UNCHANGED <<chainState, call, principal>>

-----------------------------------------------------------------------------
(* VaultBridgeService.transferAndVerify.                                   *)

CurCall == <<cur[1], bridgings[cur[1]]>>
CallStage(s) == pc \in {"bridge", "rebridge"} /\ call.stage = s
CallTo(s) == call' = [call EXCEPT !.stage = s] /\ UNCHANGED indexerVars

\* Status and balance are read one after the other; nothing sets CONFIRMED in
\* between, so they are one step. The early return for a row that is CONFIRMED
\* is unreachable from here: the duplicate path has just tested for it.
readStatusAndBalance ==
    /\ CallStage("none")
    /\ rows[cur[1]].status # "VAULT_TO_BRIDGE_TRANSFER_CONFIRMED"
    /\ call' = [stage |-> "submit", pre |-> bridgeWallet]
    /\ UNCHANGED <<indexerVars, rows, chainState, wf, principal>>

\* ethers estimates gas first: a call that would revert is not sent.
submitVaultTx ==
    /\ CallStage("submit")
    /\ IF vault >= Amount[cur[1]]
         THEN vaultTx' = [vaultTx EXCEPT ![CurCall] = "pending"] /\ CallTo("mark")
         ELSE UNCHANGED vaultTx /\ CallTo("fail")
    /\ UNCHANGED <<rows, vault, withdrawn, bridgeWallet, allowance, arbWallet,
                   approveTx, burnTx, mintTx, wf, principal>>

markInitiated ==
    /\ CallStage("mark")
    /\ rows' = markVaultToBridgeInitiated(rows, cur[1], CurCall[2])
    /\ CallTo("wait")
    /\ UNCHANGED <<chainState, wf, principal>>

verifyBridgeBalance ==
    /\ CallStage("wait")
    /\ vaultTx[CurCall] \in {"mined", "reverted"}
    /\ CallTo(IF /\ vaultTx[CurCall] = "mined"
                 /\ bridgeWallet >= call.pre + Amount[cur[1]]
                THEN "confirm" ELSE "fail")
    /\ UNCHANGED <<rows, chainState, wf, principal>>

\* The call returns and the listener launches the workflow.
confirmBridge ==
    /\ CallStage("confirm")
    /\ rows' = markVaultToBridgeConfirmed(rows, cur[1], CurCall[2])
    /\ bridgeDone
    /\ Launch
    /\ call' = NoCall
    /\ UNCHANGED <<chainState, principal>>

\* Wrong variants: the error is swallowed, so the caller launches the workflow;
\* the error leaves the loop over the window also on the path of a new deposit.
failBridgeSwallowed ==
    /\ CallStage("fail")
    /\ rows' = markVaultToBridgeFailed(rows, cur[1])
    /\ bridgeDone
    /\ Launch
    /\ call' = NoCall
    /\ UNCHANGED <<chainState, principal>>

failBridgeUncaught ==
    /\ CallStage("fail")
    /\ rows' = markVaultToBridgeFailed(rows, cur[1])
    /\ AbandonWindow
    /\ call' = NoCall
    /\ UNCHANGED <<chainVars, tableVars, historyVars, chainState, wf, principal>>

failBridge ==
    /\ CallStage("fail")
    /\ rows' \in {markVaultToBridgeFailed(rows, cur[1])}
                 \union (IF "db" \in Faults THEN {rows} ELSE {})
    /\ bridgeThrows
    /\ call' = NoCall
    /\ UNCHANGED <<chainState, wf, principal>>

\* A chain call or a row update of transferAndVerify throws; the update may
\* have taken effect.
bridgeCallFails ==
    /\ \/ "rpc" \in Faults /\ UNCHANGED rows
          /\ (CallStage("none") \/ CallStage("submit") \/ CallStage("wait"))
       \/ "db" \in Faults /\ CallStage("mark")
          /\ rows' \in {rows, markVaultToBridgeInitiated(rows, cur[1], CurCall[2])}
       \/ "db" \in Faults /\ CallStage("confirm")
          /\ rows' \in {rows, markVaultToBridgeConfirmed(rows, cur[1], CurCall[2])}
    /\ CallTo("fail")
    /\ UNCHANGED <<chainState, wf, principal>>

-----------------------------------------------------------------------------
(* One workflow: executeCompleteWorkflow(x).                               *)

At(w, s) == wf[w].stage = s
To(w, s) == wf' = [wf EXCEPT ![w].stage = s]
Done(w) == wf' = [wf EXCEPT ![w] = [NotStarted EXCEPT !.stage = "done"]]
OnlyWorkflow == UNCHANGED <<indexerVars, rows, chainState, call, principal>>
OnlyRow == UNCHANGED <<indexerVars, chainState, call, principal>>

\* executeBurn: the balance read here is also the pre-burn balance.
checkBalance(w) ==
    /\ At(w, "balance")
    /\ IF bridgeWallet >= Amount[w[1]]
         THEN wf' = [wf EXCEPT ![w].stage = "approve", ![w].pre = bridgeWallet]
         ELSE To(w, "burnFailed")
    /\ OnlyWorkflow

\* approveTokenMessenger: an allowance that is large enough is left alone.
readAllowance(w) ==
    /\ At(w, "approve")
    /\ IF allowance >= Amount[w[1]]
         THEN UNCHANGED approveTx /\ To(w, "burn")
         ELSE approveTx' = [approveTx EXCEPT ![w] = "pending"] /\ To(w, "approving")
    /\ UNCHANGED <<indexerVars, rows, vault, withdrawn, bridgeWallet, allowance,
                   arbWallet, vaultTx, burnTx, mintTx, call, principal>>

approvalConfirmed(w) ==
    /\ At(w, "approving")
    /\ approveTx[w] = "mined"
    /\ To(w, "burn")
    /\ OnlyWorkflow

\* The allowance is read again, then depositForBurn's gas is estimated: either
\* refuses a burn the wallet cannot make now.
submitBurn(w) ==
    /\ At(w, "burn")
    /\ IF allowance >= Amount[w[1]] /\ bridgeWallet >= Amount[w[1]]
         THEN burnTx' = [burnTx EXCEPT ![w] = "pending"] /\ To(w, "burning")
         ELSE UNCHANGED burnTx /\ To(w, "burnFailed")
    /\ UNCHANGED <<indexerVars, rows, vault, withdrawn, bridgeWallet, allowance,
                   arbWallet, vaultTx, approveTx, mintTx, call, principal>>

\* Wrong variant: the balances are compared the wrong way round.
BurnVerifiedSwapped(pre, post, amount) == pre < post /\ post - pre >= amount

BurnVerified(pre, post, amount) == post < pre /\ pre - post >= amount

\* Wrong variants: a burn that reverted is waited for like one that is not mined yet;
\* the receipt is not awaited.
verifyBurnNeverReverted(w) ==
    /\ At(w, "burning")
    /\ burnTx[w] = "mined"
    /\ To(w, IF BurnVerified(wf[w].pre, bridgeWallet, Amount[w[1]])
               THEN "saveBurn" ELSE "burnFailed")
    /\ OnlyWorkflow

verifyBurnUnawaited(w) ==
    /\ At(w, "burning")
    /\ To(w, "saveBurn")
    /\ OnlyWorkflow

\* A receipt in which the message is not found (MessageExtraction says which) fails
\* the phase although the burn was made and verified.
verifyBurn(w) ==
    /\ At(w, "burning")
    /\ burnTx[w] \in {"mined", "reverted"}
    /\ \/ /\ burnTx[w] = "mined"
          /\ BurnVerified(wf[w].pre, bridgeWallet, Amount[w[1]])
          /\ To(w, "saveBurn") \/ ("extract" \in Faults /\ To(w, "burnFailed"))
       \/ /\ burnTx[w] = "mined" =>
                 ~BurnVerified(wf[w].pre, bridgeWallet, Amount[w[1]])
          /\ To(w, "burnFailed")
    /\ OnlyWorkflow

saveBurn(w) ==
    /\ At(w, "saveBurn")
    /\ rows' = updateBurnConfirmed(rows, w[1], w[2], HashOf[w[1]])
    /\ To(w, "attest")
    /\ OnlyRow

\* Wrong variant: the phase reports the failure and the workflow goes on.
failBurnGoesOn(w) ==
    /\ At(w, "burnFailed")
    /\ rows' = markTransferFailed(rows, w[1])
    /\ To(w, "attest")
    /\ OnlyRow

\* Any exception of the burn phase ends here, also after the burn was mined.
failBurn(w) ==
    /\ At(w, "burnFailed")
    /\ rows' = markTransferFailed(rows, w[1])
    /\ Done(w)
    /\ OnlyRow

\* pollForAttestation: by transaction hash, with the message; by message hash,
\* without one; or not at all (AttestationPoll has the loops).
attested(w) ==
    /\ At(w, "attest")
    /\ To(w, "saveAttestation")
    /\ OnlyWorkflow

attestedLegacy(w) ==
    /\ At(w, "attest") /\ "iris" \in Faults
    /\ To(w, "saveLegacy")
    /\ OnlyWorkflow

attestationTimesOut(w) ==
    /\ At(w, "attest") /\ "iris" \in Faults
    /\ To(w, "attestationFailed")
    /\ OnlyWorkflow

\* The row is RECEIVED before the missing message is noticed.
saveAttestation(w) ==
    /\ At(w, "saveAttestation") \/ At(w, "saveLegacy")
    /\ rows' = updateAttestationReceived(rows, w[1])
    /\ To(w, IF At(w, "saveLegacy") THEN "attestationFailed" ELSE "mint")
    /\ OnlyRow

\* Wrong variant: the failure is not recorded.
failAttestationSilently(w) ==
    /\ At(w, "attestationFailed")
    /\ Done(w)
    /\ OnlyWorkflow

failAttestation(w) ==
    /\ At(w, "attestationFailed")
    /\ rows' = markAttestationPending(rows, w[1])
    /\ Done(w)
    /\ OnlyRow

\* executeMint: initial balance, then the gas pre-flight.
readInitialBalance(w) ==
    /\ At(w, "mint")
    /\ wf' = [wf EXCEPT ![w].stage = "receive", ![w].pre = arbWallet]
    /\ OnlyWorkflow

gasTooLow(w) ==
    /\ At(w, "receive") /\ "gas" \in Faults
    /\ To(w, "mintFailed")
    /\ OnlyWorkflow

submitMint(w) ==
    /\ At(w, "receive")
    /\ mintTx' = [mintTx EXCEPT ![w] = "pending"]
    /\ To(w, "minting")
    /\ UNCHANGED <<indexerVars, rows, vault, withdrawn, bridgeWallet, allowance,
                   arbWallet, vaultTx, approveTx, burnTx, call, principal>>

\* Wrong variants: the receipt is not awaited; the difference is taken the wrong
\* way round.
readFinalBalanceEarly(w) ==
    /\ At(w, "minting")
    /\ wf' = [wf EXCEPT ![w].stage = "complete", ![w].pre = 0,
                        ![w].minted = arbWallet - wf[w].pre]
    /\ OnlyWorkflow

readFinalBalanceSwapped(w) ==
    /\ At(w, "minting")
    /\ mintTx[w] = "mined"
    /\ wf' = [wf EXCEPT ![w].stage = "complete", ![w].pre = 0,
                        ![w].minted = wf[w].pre - arbWallet]
    /\ OnlyWorkflow

\* mintedAmount is the difference of two balances of the shared wallet; a
\* mismatch with the expected amount is only logged.
readFinalBalance(w) ==
    /\ At(w, "minting")
    /\ mintTx[w] = "mined"
    /\ wf' = [wf EXCEPT ![w].stage = "complete", ![w].pre = 0,
                        ![w].minted = arbWallet - wf[w].pre]
    /\ OnlyWorkflow

complete(w) ==
    /\ At(w, "complete")
    /\ rows' = markTransferCompleted(rows, w[1], w[2])
    /\ To(w, "giza")
    /\ OnlyRow

\* The principal of the position; what Giza then does never changes the row.
initializeGizaPosition(w) ==
    /\ At(w, "giza")
    /\ principal' = [principal EXCEPT ![w[1]] = wf[w].minted]
    /\ Done(w)
    /\ UNCHANGED <<indexerVars, rows, chainState, call>>

failMint(w) ==
    /\ At(w, "mintFailed")
    /\ rows' = markMintPending(rows, w[1])
    /\ Done(w)
    /\ OnlyRow

\* A chain call throws: submission refused (a nonce taken by a concurrent
\* transaction of the same wallet), a lost connection, a wait that times out.
chainCallFails(w) ==
    /\ "rpc" \in Faults
    /\ \/ /\ wf[w].stage \in {"balance", "approve", "approving", "burn", "burning"}
          /\ To(w, "burnFailed")
       \/ /\ wf[w].stage \in {"mint", "receive", "minting"}
          /\ To(w, "mintFailed")
    /\ OnlyWorkflow

\* A row update throws, having taken effect or not.  When the update that
\* records a failure throws, executeCompleteWorkflow catches it and just ends.
rowUpdateFails(w) ==
    /\ "db" \in Faults
    /\ \/ /\ At(w, "saveBurn") /\ To(w, "burnFailed")
          /\ rows' \in {rows, updateBurnConfirmed(rows, w[1], w[2], HashOf[w[1]])}
       \/ /\ At(w, "saveAttestation") /\ To(w, "attestationFailed")
          /\ rows' \in {rows, updateAttestationReceived(rows, w[1])}
       \/ /\ At(w, "complete") /\ To(w, "mintFailed")
          /\ rows' \in {rows, markTransferCompleted(rows, w[1], w[2])}
       \/ /\ wf[w].stage \in {"burnFailed", "attestationFailed", "mintFailed"}
          /\ Done(w) /\ UNCHANGED rows
    /\ OnlyRow

\* The steps of a workflow that do not fail on their own account.
workflowStep(w) ==
    \/ checkBalance(w) \/ readAllowance(w) \/ approvalConfirmed(w) \/ submitBurn(w)
    \/ verifyBurn(w) \/ saveBurn(w) \/ failBurn(w)
    \/ attested(w) \/ attestedLegacy(w) \/ attestationTimesOut(w)
    \/ saveAttestation(w) \/ failAttestation(w)
    \/ readInitialBalance(w) \/ gasTooLow(w) \/ submitMint(w)
    \/ readFinalBalance(w) \/ complete(w) \/ initializeGizaPosition(w)
    \/ failMint(w)

-----------------------------------------------------------------------------
\* The process ends with everything it held in memory; the chains go on.
processCrash ==
    /\ crash
    /\ call' = NoCall
    /\ wf' = [r \in Runs |-> IF wf[r].stage \in {"none", "done"} THEN wf[r]
                               ELSE [NotStarted EXCEPT !.stage = "lost"]]
    /\ UNCHANGED <<rows, chainState, principal>>

bridgeStep ==
    \/ readStatusAndBalance \/ submitVaultTx \/ markInitiated
    \/ verifyBridgeBalance \/ confirmBridge \/ failBridge

mineTx(r) == mineVaultTx(r) \/ mineApproveTx(r) \/ mineBurnTx(r) \/ mineMintTx(r)

Next ==
    \/ \E last \in 0 .. NumTx : blockWithDeposits(last)
    \/ \E x \in Txs : userWithdraws(x)
    \/ \E r \in Runs : mineTx(r)
    \/ listen
    \/ recover
    \/ bridgeStep
    \/ bridgeCallFails
    \/ \E w \in Runs : workflowStep(w)
    \/ \E w \in Runs : chainCallFails(w) \/ rowUpdateFails(w)
    \/ processCrash

Spec == Init /\ [][Next]_allVars

\* The event loop runs every continuation that is ready, the chains mine what
\* they accepted, and a process that runs stays up unless it crashes.
Fairness ==
    /\ WF_allVars(listen \/ recover \/ bridgeStep)
    /\ \A w \in Runs : WF_allVars(workflowStep(w))
    /\ \A r \in Runs : WF_allVars(mineTx(r))

FairSpec == Spec /\ Fairness
=============================================================================
