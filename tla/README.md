# Formal models of the XDC → Arbitrum agentic vault

A user deposits USDC into `BondCreditVault` on XDC. A backend process listens for
the `Deposited` logs, moves the USDC from the vault to its own wallet, burns it
with Circle's CCTP, waits for Circle's attestation, mints on Arbitrum, and hands
the result to a Giza agent. This directory holds TLA+ models of that path, the TLC
configurations that check them, and TLAPS proofs. Paths below are relative to
`src/backend/src/` unless they begin with `src/`.

## 1. The system

| part | state it keeps | operations | talks to |
|---|---|---|---|
| Vault contract `src/backend/contracts/BondCreditVault.sol` | `balances`, `totalDeposits`, its USDC | `deposit`, `withdraw`, `transferToBridgeWallet` (owner) | USDC token; emits `Deposited` |
| Deposit listener `listeners/deposit-events.listener.ts` | `lastProcessedBlock`, in memory only | `start`, a poll every 12 s, block windows, new and duplicate deposits | chain, `Deposit` table, transfer rows, vault-to-bridge (awaited), workflows (not awaited) |
| Deposit table `services/deposits.service.ts` | rows with a unique `txHash` | `createDeposit`, `getLastProcessedBlock` | database |
| Transfer rows `transfers/transfer-state.service.ts` | one `CrossChainTransfer` row per deposit, a `TransferLog` | one `mark…`/`update…` per stage | database |
| Vault-to-bridge `vault/vault-bridge.service.ts` | none | `transferAndVerify` | vault contract, wallet balance, rows |
| CCTP orchestrator `cctp/cctp-orchestrator.service.ts` | none: a workflow is an async call | burn, attestation and mint phases, each with its catch | burn, attestation, mint, rows, Giza |
| Burn, mint `cctp/burn.service.ts`, `cctp/mint.service.ts` | the shared wallet, its allowance | approve, `depositForBurn`, `receiveMessage`, balance comparisons | both chains |
| Attestation `cctp/attestation.service.ts` | loop counters | two polling loops with backoff | Circle |
| Giza `giza/giza-agent`, `giza-adapter`, `giza-portfolio` services | `AgentPosition` rows, the cached SDK client | create or fetch the agent, activate, sync | Giza's API |
| Burn queue `queues/queue.service.ts`, `queues/burn.processor.ts` | BullMQ's jobs (Redis) | `addBurnJob`, a worker with two slots | the orchestrator's whole workflow |
| Other listener `listeners/deposit-event.listener.ts` | `listenerRunning`, a timer, a subscription | start, stop, polls, `handleDepositedEvent` | chain, `Deposit` table, rows |
| Deposit card `src/frontend/components/deposit/deposit-card.tsx` and the hooks in `src/frontend/hooks/` | one `txState` per hook, as long as the card is mounted | approve, deposit | wallet, USDC, vault contract |

Wired are the contract, the first listener and what it calls, and the frontend. Nothing
calls the queue, `executeBurnOnly`, `resumeMint` or `resumeAttestationPolling`, and no
module provides the other listener; they are modelled as what they are written for.

One key signs everything (`blockchain/signer.service.ts:73`): the wallet the vault
pays into is the wallet every workflow burns from and, on Arbitrum, mints to.

**What is hard.** The listener awaits the bridge transfer of one deposit while the
workflows of earlier ones burn from the same wallet; the bridge and burn steps
verify themselves by comparing that wallet's balance before and after. Workflows
live only in memory. The listener's cursor is recomputed after a restart from the
highest stored block. Row updates never look at the status they replace. A failing
call may have taken effect: a wait for a receipt that times out, a commit whose
answer is lost. No request to Circle or Giza is certain to be answered. The queue
delivers the job of a lost worker again, to a workflow that starts from the burn. The
other listener's polls overlap. The card gives up on transactions that are mined later.

**What makes it correct.** For the vault: claims are paid from real USDC and nobody
is paid more than they brought. For the listener: each deposit is bridged once, none
is skipped. For the pipeline: the USDC of a deposit is in one place and only moves
forward, rows never claim what did not happen, every deposit comes to rest. For the
attestation: a signature in time is found, each poll ends. For Giza: USDC in an agent
is on record, positions settle. For the queue and the resumed calls: one burn for each
delivery, one investment for each message received until the job stalls. For the other
listener: one handler creates the transfer of a transaction. For the card: one call at a time,
and "confirmed" only for what was mined.

## 2. The modules

| module | models | shape |
|---|---|---|
| `BondCreditVault` | the contract and the USDC it moves | one action per function; a `require` is a guard; the history `bridgedOut` counts what left for the bridge |
| `TransferState` | the row updates | operators from table to table, named as in the service; no variables |
| `DepositIndexer` | listener and deposit table | one action per piece of code between two awaits, `pc` says where the loop is; the bridge call is one step with either outcome |
| `CctpPipeline` | everything from the chain to the principal | EXTENDS `DepositIndexer`; puts the real steps of `transferAndVerify` and the real row statuses in place of its one-step bridge call, and adds wallets, chain transactions and workflows |
| `CustodyFlow` | abstract: where the USDC of a deposit may be | four moves, no rows, no failures |
| `PipelineProperties` | what is checked of `CctpPipeline` | refinement mapping `PlaceOf` to `CustodyFlow` |
| `AttestationPoll` | both polling loops, backoff, error classes | seconds slept and attempts as numbers |
| `MessageExtraction` | the search for CCTP's message among the logs of a burn's receipt | one action per log; the receipt, the addresses and the payloads are inputs |
| `BurnToAttestation` | a mined burn up to its attestation | EXTENDS both: `MessageExtraction`, then `AttestationPoll` |
| `RetryPaths` | queue, `executeBurnOnly`, `resumeMint`, `resumeAttestationPolling` | EXTENDS `PipelineProperties`: the workflow's own actions, driven by jobs instead of the listener |
| `LegacyListener` | the other listener | EXTENDS `DepositIndexer` for the chain it shares and the errors it may meet; takes the place of its loop |
| `DepositFlow` | deposit card, hooks and wallet | EXTENDS `BondCreditVault`: what is mined is the contract's action, with the allowance |
| `GizaPosition` | initialisation of a position, cached client, `AgentPosition` | one action per request |
| `MC…` | values of function constants for TLC | |
| `SetSums` | no code: lemmas about `MapThenSumSet` | what a sum over a finite set becomes when the set or the function changes |
| `DepositIndexerProofs`, `LegacyListenerProofs`, `DepositFlowProofs` (vault and card), `BurnToAttestationProofs`, `GizaPositionProofs` | theorems of the module they are named for | |
| `PipelineProofs` | theorems of `CctpPipeline`, first for any number of logs per transaction, then for one | EXTENDS `PipelineProperties`, `DepositIndexerProofs` |
| `RetryProofs` | theorems of `RetryPaths` | EXTENDS `RetryPaths`, `PipelineProofs` |

Correspondence with the code:

- *Deposits* are numbered in chain order; `LogsOf[x]` is the number of `Deposited`
  logs of transaction `x` (a contract may call `deposit` twice). `stored` is the
  `Deposit` table, `transfers` the deposits with a row, `rows` their content.
- *Listener.* `start` is `start()` with `getLastProcessedBlock`; `queryWindow` is
  `getBlockWindow` and the log query; `createDeposit`/`duplicateDeposit` the two
  outcomes of the insert; `createTransfer` and `recoverDuplicate` the two handlers
  up to their bridge call; `bridgeDone`/`bridgeThrows` what follows it. In this module
  alone `StatusFound` gives the status a duplicate's row may be read with: one of
  `BeforeWorkflow` as long as no workflow was launched, anything past DETECTED then;
  `CctpPipeline` reads it from the row, and its proofs show that it is one of these. An error on
  the path of a new deposit goes on with the next log; on the duplicate path it
  abandons the window, as the nesting of the `try` blocks has it.
- *Bridge call.* `readStatusAndBalance`, `submitVaultTx`, `markInitiated`,
  `verifyBridgeBalance`, then `confirmBridge` or `failBridge`.
- *Workflow.* `checkBalance`, `readAllowance`, `approvalConfirmed`, `submitBurn`,
  `verifyBurn`, `saveBurn` | `attested`, `attestedLegacy`, `attestationTimesOut`,
  `saveAttestation` | `readInitialBalance`, `gasTooLow`, `submitMint`,
  `readFinalBalance`, `complete`, `initializeGizaPosition`; `failBurn`,
  `failAttestation`, `failMint` are the catch blocks. Two awaits are one step only
  where nothing another process does in between can tell the difference.
- *Chains.* A submitted transaction is mined later by `mineTx`, whether or not its
  sender still waits; a vault transfer or burn that is not covered then reverts.
- *Failures.* `bridgeCallFails` and `chainCallFails` are thrown chain calls; `verifyBurn`
  fails by itself on a reverted burn, a balance that does not fit, or a message that
  cannot be extracted (the fault `extract`); `rowUpdateFails` a database error before or after the commit; `processCrash` the
  end of the process, which loses all workflows but no transaction.
- *Queue.* `addBurnJob`, `processJob`, `jobReturns`; `jobStalls` is BullMQ's part: the job
  of a worker that no longer renews its lock goes to the next delivery, once. A new worker
  begins with all its slots (`InHandsOfWorker`). Run `k` of a
  deposit is the `k`-th delivery of its job. The caller assumed hands over a bridged
  deposit once, and resumes a mint when its own run is over, a poll when no run is going:
  a resumed mint may meet a later delivery of the same job.
- *`executeBurnOnly`.* `updateBurnOnlyRow` does the row updates in their order
  (`BurnOnlyNext`), `saveBurnRecord` the `CctpBurn` record, `saveFailedRecord` and
  `failBurnOnly` the catch block, whose own errors nothing catches.
- *`resumeMint`.* `isMessageAlreadyExecuted` (an error counts as "no"), then either
  `completeResumed` with the message hash in place of a transaction, or the mint again:
  `resumeInitialBalance`, `resumeReceive`, `resumeFinalBalance`, `completeResumed`.
- *Other listener.* A handler is an activation of `handleDepositedEvent`, for a pushed
  log or for the logs of a poll: `lookUp`, `createLegacyDeposit`, `createLegacyTransfer`,
  `markProcessed`, each an await at which other handlers go on. `attempts` is history: the
  handlers that came to `createTransferFromDeposit`, one by one, for each transaction.
- *Extraction.* `collectMessageCandidate` is one turn of the loop over the logs,
  `selectMessageCandidate` one turn of the selection; a payload is genuine, foreign or
  garbled, and what an emitter's address is compared with is an input.
- *Card.* A click starts a call: `checkBalance`, `checkAllowance`, `estimateDepositGas`,
  `submitDeposit` (the wallet asks the user between these two, for any time, and the gas is
  not estimated again), `waitForReceiptWithPublicRpc` (or `submitApproval`, `waitForReceiptWithBackoff`).
  `leavePage` takes the card away; the call goes on unseen. `mine` takes a user's
  transactions in nonce order. `clear` and `alone` are history: at the gas estimate of this
  deposit no other transaction of the user was under way, and from there to its block none
  was sent before it and no plain transfer of the user overtook it.
- *Giza.* A call of `initializeGizaPosition` goes through `getClient`, `fetchAgent`,
  `createAgent`, `savePosition`, `activateAgent`, `markActive`, `fetchPortfolio`,
  `syncPortfolio`, or `markFailedInitialization`. An amount stands for the call it
  belongs to, so a portfolio value is the set of mints it sums.

Abstracted data: a message is its hash (`HashOf`), an attestation a flag, amounts are
small numbers, timestamps, attempt counters and error texts are left out of rows.
Definitions commented *Wrong variant* are not part of any specification: each is a
plausible mistake in the operator after it, kept to show that a property notices it.

## 3. The runs

| run | configuration and bounds | what it shows |
|---|---|---|
| `vault` | two users with 2 USDC, one of them at the card with up to 2 calls at once and 3 transactions; calls of 0 and 1 | `Solvent`, `NoUserGains`, and `ClaimsAccounted`: claims exceed what the vault tracks by exactly what was bridged. `FlowTypeOK`: a card is busy exactly while one call of its own runs. `ConfirmedWasMined`: a confirmed deposit is in a block, and reverted only if something else of the user was under way at its gas estimate or came after it. Two users are enough for one to be paid out of the other's USDC; two calls for one left behind and one after it; three transactions for an approval and two deposits that compete for it. |
| `indexer_faults` | 3 deposits, the first with two logs, blocks up to 4, windows of 2 blocks, 2 crashes, 3 recoveries of a duplicate, database errors; fair | `LossExplained`: what was gone past without a row met a database error or shares a block with a stored deposit after a crash; `OrphansExplained`: at most one missing row per crash; `EveryDepositPickedUp`: every other deposit is bridged in the end, unless nobody restarts the process or a duplicate's recovery fails again and again: in the database for ever, or in the bridge, where the loop then stands still before a duplicate at the bound on recoveries (`BeyondRuns`). A duplicate that was recovered, or failed fewer times, excuses nothing. Three deposits give a block with a stored, a lost and a later deposit; two logs a duplicate that fails and windows that are replayed; three recoveries one that fails and succeeds later. |
| `legacy_listener` | 2 transactions (3 logs), 3 blocks after the first, 2 handlers at once, polls one block back, 1 crash, database errors | `OneTransferPerTransaction`: of all handlers that found no deposit, for one log or for two of a transaction, one comes to create a transfer; `LegacyOrphansExplained` and, table by table, `LegacyTypeOK`. Two handlers are what a race on one log needs. |
| `indexer_restart` | 2 deposits, 1 crash; **violated** | `MirrorsChain`: a crash between two deposits of a block loses the second, since the next window starts after the block. |
| `indexer_two_logs` | `MCPipeline`: 1 transaction with 2 logs, no fault; **violated** | `HandledAtMostOnce`: the second log starts a second workflow while the row is CONFIRMED, or a second bridging once it is past the burn; either happens without a fault, both together only after a failure. |
| `pipeline_faults` | 2 deposits of 1 and 3 USDC, one log each, approvals of twice the amount (10 in the code: large enough to serve several burns, too small for the larger deposit), all faults, 1 crash, lookback 1 | `HandledAtMostOnce`, custody (`CustodySpec`, `OneTransactionEach`, `WalletHoldsUnburned`), rows (`RowsTellTheTruth`, `FinalStatusStays`), and `PrincipalExplained`. |
| `pipeline_live` | 2 deposits of equal amount and equal message hash, no crash, chain and database work, attestation and gas may fail, users may withdraw; fair | `EveryDepositRests`; `FalseFailureNeedsOverlap` (chain calls, database and extraction work here: a burned deposit is FAILED only with USDC of another one in the wallet); `LaterStagesHaveBurn`. |
| `pipeline_two_logs` | 1 transaction with 2 logs, hence two workflows on one row and the duplicate path; all failures, 1 crash | `RowsTellTheTruth`: each may overwrite the other's status, and the second bridge call the bridge column, so that this one is only vouched for while the row is CONFIRMED; the burn and mint columns name mined transactions all the same, and no row is past the bridge without a mined bridge transaction. `IndexerSpec`: the pipeline implements `DepositIndexer`, on the duplicate path too, where it acts on the row it finds. |
| `pipeline_race` | 2 deposits, no fault; **violated** | `FailedMeansNotBurned`: a bridge transfer of the second deposit between the burn of the first and its balance check makes the burn count as failed. |
| `attestation` | receipts of up to three logs, settings of the transmitter's address that are right, wrong or missing; 4 attempts per loop (delays below the cap), any mishap at any query; fair | `ExtractsFirst`: the first log that is CCTP's is taken, and only a receipt without one or a missing setting fails. `SignedInTimeBringsMessage`, `BacksOff` (the time slept in a loop is that of the attempts made, with jitter either way), `EveryBurnSettles`. Three logs are a foreign one before two genuine ones. |
| `retry_paths` | 2 deposits, one through the queue, one through `executeBurnOnly`; a lost worker, database errors, failing extractions, refused gas, unreachable nodes; one resumed mint per run | `OneBurnPerStall`: only a lost worker makes the queue burn a deposit again; `InvestedOncePerMessage`: nothing is invested before a message was received, and no message twice until the job stalls; `ResumedRowsTellTheTruth`: a resumed mint claims nothing that did not happen, though its receipt may race the first; `FailureHasRecord`: FAILED of `executeBurnOnly` comes after its record; `FinalUnlessStalled`; `QuietMeansOver`: nothing waits for ever, not even for a burn that reverts when the other deposit's took its USDC or allowance, or for a receipt of a message already received. Two deposits let a second burn take the other's USDC. One queued deposit never fills the two slots: no property is about them, and the theorems hold for any number. More resumed mints per run, more deposits and deliveries are covered by the theorems. |
| `giza` | 2 calls for one or two transfers, 2 agents, 2 lives, any request or write may fail; fair | `InvestedIsRecorded`, `FailureExplained`, `EveryCallSettles`, and `SyncedShowsOwn`: a SYNCED position was invested and its value contains a mint of its transfer, except that nothing is asked of the value once the owner has several agents. |

Runs marked **violated** check what a comment or a README of the repository says; the
lines are quoted in `PROJECT.json`. Deadlock is not checked where the modelled world
ends (chain at `MaxBlock`, poll over, all calls done): stopping there is not an error.

Bounds that only limit the exploration: `MaxBlock` (chain length), `MaxCrashes`,
`MaxLives`, `MaxRuns` (recoveries of one deposit, deliveries of one job), `MaxTxs`,
`MaxResumes`, `ClockLimit` (`elapsed` counts up to
it), `Agents`, `Handlers`, `MaxCalls`. `Lookback`, `Batch`, `PollLookback`, `Concurrency` and
`MaxStalls` are the code's own parameters (1000, 1000 and 50 blocks, 2 jobs, once).

**Fairness.** The event loop runs every continuation that is ready, so a step of the
listener, of each workflow and of each Giza call that stays possible is taken (weak
fairness per process); chains mine what they accepted; a request or a sleep ends, since
each has a timeout. A restart after a crash is not assumed: `EveryDepositPickedUp` excepts
the behaviours that stay down. Nothing obliges a user, a new block, a crash, a restart or a
failure. `retry_paths` has no fairness: `QuietMeansOver` says what holds in the states in
which no step of the code or the chains is left.

## 4. The proofs

All theorems hold for every value of the constants allowed by the named assumptions
(`UsersAssumption`, `AmountsAssumption`, `InitialUsdcAssumption`, `CardAssumption`,
`SizesAssumption`, `LogsAssumption`, `LegacyAssumption`, `PipelineAssumption`,
`RetryAssumption`, `ExtractionAssumption`, `AttemptsAssumption`, `GizaAssumption`), which
TLC evaluates in the runs. They give the constants their types; `Users` and `Handlers` are
finite, as accounts and activations are, a deposit may run at least once (`MaxRuns`), and
`RetryAssumption` asks for a deposit and for a run for every delivery BullMQ makes. Where a
theorem needs more it says so itself: `SingleLog`, `LookbackCovers`, `ClockCovers`, or
three kinds of fault left out.

**Vault and card** (`DepositFlowProofs`)

- `VaultTypeOK`, `VaultSolvent`, `VaultNoUserGains`: the three invariants together are
  inductive (`VaultInv`). `VaultClaims`: the sum over the users changes with each call as
  `totalDeposits` does, or as `bridgedOut` makes up for. The sum is a fold of the community
  modules; `SetSums` proves that it exists, does not depend on the order of the choices,
  and what one element adds, by a least counterexample among the finite subsets.
- `FlowTypesHold` needs to know which call keeps which hook busy (`CallsMatchCard`).
  `ConfirmedMeansMined` needs that the amount of a deposit that is `alone` stays in the
  wallet and in the allowance until it is mined (`AloneStaysPayable`), and before that, from
  the estimate on, while its call is `clear`: nothing else of the user is under way, and
  everything the user does elsewhere either pays in to the wallet or ends it. `FlowKeepsVault` carries the vault's invariant over to the
  composition.

**Listeners**

- `IndexerTypes` needs `CurIsStored` (the deposit being handled has its row) and the
  arithmetic of the window (`WindowType`).
- `AtMostOnce` assumes one log per transaction (`SingleLog`; the run `indexer_two_logs`
  shows it is needed). It is not inductive as it stands: the argument is that a window
  begins after every stored deposit (`StoredIsBehind`), the logs still to do are new
  (`TodoIsNew`), hence the duplicate path is never taken (`NeverDuplicate`), and the
  counters agree with where the loop is (`DoneSoFar`).
- `OnlyExplainedLosses` assumes that the first window reaches the chain's start
  (`LookbackCovers`; the code looks back 1000 blocks when the table is empty). Its
  invariant `LossInv` says that a deposit neither stored nor spoiled is ahead of
  everything stored, of the cursor, and of the window except for what is still to do, or
  shares a block with a stored one after a crash.
- `OrphansCostCrashes`: the deposit in hand is set apart (`InHand`); the other rows
  missing are at most as many as the crashes, and only a crash adds one.
- `LegacyTypes`, `OneTransferEach`: the attempts at a transfer, and the handler that is
  about to make one, come from an insert of the deposit that succeeded, and the unique
  transaction hash keeps those at one for a transaction.
  `LegacyOrphansCostCrashes` also needs the race of two handlers (`OthersDeposit`): one
  that is about to insert a deposit another has inserted meanwhile, and passes it over,
  does so while the other is about to create the row, has created it, or has failed. A
  crash takes all handlers, each with one log, so a bound per crash and handler results.

**Pipeline, any number of logs per transaction** (`PipelineProofs`)

- `PipelineIsIndexer`: each step of `CctpPipeline` is a step of `DepositIndexer` or leaves
  its variables alone; `PipelineAtMostOnce` follows from `AtMostOnce`. The refinement needs
  that the row the duplicate path finds exists exactly when the listener's table says so
  (`RowsMatch`), that its status is one of `StatusFound` (`StatusesFollow`: nothing
  past CONFIRMED before a workflow is launched, never DETECTED after), and the types.
- `PipelineTypes`. That no balance goes below zero is part of it: a mined transaction was
  covered, and the differences of balances that are recorded are read in the right order.
- `RowsNeverLie`, `LaterStagesCarryEvidence` rest on one inductive invariant, `PipeInv`.
  It says for the bridge call and for every workflow which of its transactions must have
  been accepted, mined or none at the stage it is in (`CallFits`, `WfFits`), and of
  every row that its columns and its status claim no more than that (`RowsTrue`). With
  several workflows on a row the status may be overwritten by any of them, so what a
  status implies is that *some* run of the deposit got that far; mined stays mined.

**Pipeline, one log per transaction** (still `PipelineProofs`; `SoloInv` is `PipeInv` with the
listener's `OnceInv`: each deposit then has one call and one workflow)

- `OneTransactionOnly`. `ChainMove`: as far as the USDC is concerned every step is one of
  four, a deposit mined, a vault transfer, a burn or a mint of one deposit, or nothing.
- `CustodyKept`: the refinement of `CustodyFlow`, from `ChainMove` through `PlaceOf`.
- `WalletNeverOverdrawn`: the balance is a sum over a set that each move changes by one
  element (`WalletIs`).
- `PrincipalIsOwnMint`: between the two readings of a workflow the balance on Arbitrum
  grows by the mints of some set of deposits, its own among them once mined (`MintInv`).
- `FinalMeansFinal`, an action property: a row is FAILED only when its workflow ended, so
  that nobody is left to write it (`FinalIsLast`).
- `FalseFailureIsOverlap` assumes that chain calls, the database and the extraction work: a failed burn
  verification then means a balance that did not fall by the amount, and as long as no
  other deposit was paid into the wallet it does fall (`OverlapInv`).

**Queue and resumed calls** (`RetryProofs`), for any number of deposits, deliveries, slots
and resumed mints, and all faults

- `RetryInvariant`: the types with the balances, and for every deposit by itself `Fits`.
  `JobFits`: a job has been delivered once more than it stalled while it is active, and
  only the run of the last delivery may be going, so a run that is not over is the job's.
  `RunFits`: which transactions a stage, of a run or of its resumed mint, implies.
  `RowFits`: what row, record and investments may claim. `SoloFits`: while the job has not
  stalled, a row that is COMPLETED or FAILED has nobody left to write it, except a
  workflow on its way from COMPLETED to MINT_PENDING, and what was invested came last.
- Every step is about one deposit. Each is reduced to what it does to that one
  (`ChainForm` for mining, `RunStep` for a workflow, `ResumeStep` for a resumed mint), and
  `KeptFits` gives the others; only `workerCrash` changes all. The shapes of the workflow's
  steps are those `PipelineProofs` already has (`WorkflowShapes`).
- `BurnsOncePerStall` counts deliveries by `JobFits`. `ResumedRowsNeverLie` and
  `FailuresAreRecorded` are in `RowFits`. `InvestsOncePerMessage` needs `SoloFits`: the
  workflow and the resumed mint of its one run never invest both.
- `FinalStaysUnlessStalled`, an action property: every step that writes a row is shown,
  from `SoloFits`, to respect the status it finds as long as there was no stall.

**Burn to attestation** (`BurnToAttestationProofs`)

- `ExtractionFindsFirst`, for receipts of any length: every log before the current one
  that passes is among the candidates, and the selected one is the least of those compared.
- `SignatureIsFound`: in the first loop every attempt since the signature is one that
  missed it (`MissedSoFar`).
- `QueriesKeepDistance` assumes that the exploration bound on `elapsed` is not reached
  (`ClockCovers`). The backoff takes a square root: that a number with that property exists is
  `SquareRoot`, that more jitter never shortens a wait `DelayBounds`.

**Giza** (`GizaPositionProofs`)

- `GizaTypes`, `InvestedStaysRecorded`: the strengthening `RecordedFirst` puts the record
  before the activation, `AgentObtained` an agent before the record.
- `SyncedIsOwn`, `FailuresAreOwn`: a call that is to write SYNCED has invested and has
  fetched a value with its own mint, or the owner has several agents (`ShownInv`); one that
  is to write FAILED had trouble itself or began in a life of the process whose client was
  refused (`FailedInv`).

Only model-checked: `QuietMeansOver`, which is stated with `ENABLED`, and liveness:
`EveryDepositPickedUp`, `EveryDepositRests`, `EveryBurnSettles`, `EveryCallSettles`.
Liveness under fairness and `ENABLED` are out of the prover's reach.
Nor is it proved that the loops end, or how long a poll takes in all: that is an
induction over the attempts.

## 5. What was observed

Disagreements between the code and what the repository says of it are the three
violated runs. Seen while modelling, without a run:

- Burns of equal amounts carry the same message hash, which is unique in the table:
  the second row is reported as saved and is not (`updateBurnConfirmed`), then goes on to
  COMPLETED without burn evidence. `LaterStagesHaveBurn` states exactly this exception.
- `MINT_PENDING` and `ATTESTATION_PENDING` are for a retry that no wired code makes:
  `resumeMint` and the queue worker have no caller. Nor would the queue retry: the header
  of `executeCompleteWorkflow` says "retry queue (BullMQ)", but it catches everything and
  returns, so a job always completes and its `attempts: 5` are never used. Only a lost
  worker brings a job back, and then the workflow burns again.
- `resumeMint` asks `usedNonces` for the message's hash; `OneBurnPerStall` and
  `InvestedOncePerMessage` take the answer as the code does. The mint itself rests on
  `receiveMessage` refusing a message twice. A resumed mint that overlaps another one may
  count the other's USDC, as in `PrincipalExplained`.
- After a stall a message may be invested twice: the second run of the job sets a row that
  is COMPLETED back, a mint resumed then finds the message executed
  (`cctp/cctp-orchestrator.service.ts:507`) and goes on to Giza, whether or not that was
  done for it. `InvestedOncePerMessage` therefore bounds the investments only until a stall.
- "total ~30 minutes with backoff" (`cctp/attestation.service.ts:31`): the delay is at its
  cap of two minutes from the ninth attempt on, so that 100 attempts sleep more than three
  hours, and the loop by message hash as long again.
- The other listener does not resume "from last processed block on restart" but 1000
  blocks back, and its polls reach 50 blocks (the comment says 100). A deposit whose transfer
  could not be created is passed over by every later poll. Nothing clears the timer when
  it stops. Of two logs of one transaction it stores the first that is inserted.
- `use-deposit-vault.ts` confirms any receipt, a reverted one too; `ConfirmedWasMined`
  says when that can happen.
- With two logs in a transaction two workflows write to one row, and the FAILED of one
  can be overwritten by the other or by the duplicate path, which bridges a FAILED deposit
  again. The bridge column may then name a transaction that is not mined while the row goes on.
- A burn whose message cannot be extracted from the receipt is marked FAILED after it was
  mined, as it is after an overlap.
- 400 and 401 from Circle are repeated like any failure, because errors are wrapped
  before `isPermanentError` looks for their status.
- A Giza client that could not be set up once is never set up again in that life of the
  process; and since all positions share one agent, each shows the value of all.

## 6. Not modelled

- Chain reorganisations: the modelled chain only grows, although the listener follows the
  head without a confirmation depth.
- A living worker whose lock expires (its job would run twice at once): BullMQ renews the
  lock while the event loop turns, and no step of the workflow blocks it.
- The `TransferLog`: only `getTransferHistory` reads it and nothing calls that. What it may
  miss after an error follows from its two writes alone.
- The REST controller (read-only), decoding of payloads and messages, gas arithmetic (one
  outcome: gas is too low), configuration of providers and signers (construction at
  start-up, no state afterwards).
- In the frontend: connection and network of the wallet, parsing of amounts, pages that
  only show data. Deployment scripts, and Giza modules that are scaffolding without a
  caller.

## 7. Plan

All items are done.

1. `BondCreditVault`, `DepositIndexer` with proofs.
2. `TransferState`, `CctpPipeline`, `CustodyFlow`, `PipelineProperties`.
3. `AttestationPoll`.
4. `GizaPosition` with proofs.
5. `RetryPaths`: the queue, `executeBurnOnly` and the resumed calls on the rows of
   `TransferState`.
6. `DepositFlow` with proofs: the frontend's approve and deposit composed with the vault.
7. `LegacyListener`, `MessageExtraction` with proofs, `BurnToAttestation`.
8. Proofs of the listeners, the vault, the card, the attestation, Giza and the pipeline,
   with its refinements of `DepositIndexer` and `CustodyFlow`.
9. Proofs about `RetryPaths`: `OneBurnPerStall`, `ResumedRowsTellTheTruth`,
   `InvestedOncePerMessage`, `FailureHasRecord` and `FinalUnlessStalled`, from the stages of
   `PipelineProofs` with jobs in place of the listener.
