------------------------------ MODULE RetryPaths ------------------------------
(***************************************************************************)
(* The other ways into the CCTP services: the burn queue                   *)
(* (queues/queue.service.ts, queues/burn.processor.ts), executeBurnOnly,   *)
(* resumeAttestationPolling and resumeMint (cctp-orchestrator.service.ts). *)
(* Nothing in the repository calls them yet; the caller assumed here hands *)
(* a bridged deposit to the queue or to executeBurnOnly, once, and resumes *)
(* a mint when its own run is over, a poll when no run is going.           *)
(*                                                                         *)
(* EXTENDS CctpPipeline for the chains, the rows and the workflow itself.  *)
(* The listener is idle; the deposits are in the bridge wallet.            *)
(* Run k of deposit x is the k-th delivery of its job, or the one call of  *)
(* executeBurnOnly.  BullMQ is external: a job whose worker no longer      *)
(* renews its lock is delivered again, once by default.                    *)
(***************************************************************************)
EXTENDS PipelineProperties

CONSTANTS
    Way,          \* Way[x]: "queue" or "burnOnly"
    Concurrency,  \* jobs a worker handles at a time (2)
    MaxStalls,    \* BullMQ's maxStalledCount (1)
    MaxResumes    \* bound on the resumeMint calls for a run

ASSUME RetryAssumption ==
    /\ NumTx # 0 /\ Way \in [Txs -> {"queue", "burnOnly"}]
    /\ Concurrency \in Nat \ {0} /\ MaxResumes \in Nat
    /\ MaxStalls \in 0 .. MaxRuns - 1

VARIABLES
    job,        \* the queue's job of each deposit
    delivery,   \* the run it was last delivered to
    stalls,     \* how often its lock ran out
    burns,      \* CctpBurn records
    remint,     \* receiveMessage transaction of each resumeMint call
    resume,     \* the resumeMint call for the message of each run
    reattest,   \* the resumeAttestationPolling call for each deposit
    invested    \* history: initializeGizaPosition calls for each deposit

queueVars == <<job, delivery, stalls>>
retryVars == <<queueVars, burns, remint, resume, reattest, invested>>
allRetryVars == <<allVars, retryVars>>

NoResume == [stage |-> "none", pre |-> 0, minted |-> 0, calls |-> 0]

\* What the listener leaves of deposits it bridged before a crash, with what an
\* earlier approval left of the allowance.
RetryInit ==
    /\ head = 2 /\ blockOf = [x \in Txs |-> 2]
    /\ stored = Txs /\ transfers = Txs
    /\ pc = "idle" /\ lastProcessed = 2 /\ toBlock = 2
    /\ todo = {} /\ cur = NoLog /\ seen = NoRow
    /\ bridgings = [x \in Txs |-> 1] /\ spawned = [x \in Txs |-> 0]
    /\ dropped = {} /\ crashes = 0
    /\ rows = [x \in Txs |-> markVaultToBridgeConfirmed(EmptyTable(Txs), x, 1)[x]]
    /\ vault = 0 /\ withdrawn = {}
    /\ bridgeWallet = MapThenSumSet(LAMBDA x : Amount[x], Txs)
    /\ allowance = ApprovalFactor * Amount[1] /\ arbWallet = 0
    /\ vaultTx = [r \in Runs |-> IF r[2] = 1 THEN "mined" ELSE "none"]
    /\ approveTx = [r \in Runs |-> "none"]
    /\ burnTx = [r \in Runs |-> "none"]
    /\ mintTx = [r \in Runs |-> "none"]
    /\ call = NoCall
    /\ wf = [r \in Runs |-> NotStarted]
    /\ principal = [x \in Txs |-> 0]
    /\ job = [x \in Txs |-> "none"]
    /\ delivery = [x \in Txs |-> 0] /\ stalls = [x \in Txs |-> 0]
    /\ burns = EmptyBurnRecords(Txs)
    /\ remint = [r \in Runs |-> [n \in 1 .. MaxResumes |-> "none"]]
    /\ resume = [r \in Runs |-> NoResume]
    /\ reattest = [x \in Txs |-> "none"]
    /\ invested = [x \in Txs |-> 0]

-----------------------------------------------------------------------------
(* The chains.                                                             *)

\* A message is received once, whichever call sent it.
Received(w) ==
    mintTx[w] = "mined" \/ \E n \in 1 .. MaxResumes : remint[w][n] = "mined"

AfterReceive(w) == IF Received(w) THEN "reverted" ELSE "mined"

mineReceive(w) ==
    /\ \/ /\ mintTx[w] = "pending"
          /\ mintTx' = [mintTx EXCEPT ![w] = AfterReceive(w)]
          /\ UNCHANGED remint
       \/ \E n \in 1 .. MaxResumes :
             /\ remint[w][n] = "pending"
             /\ remint' = [remint EXCEPT ![w][n] = AfterReceive(w)]
             /\ UNCHANGED mintTx
    /\ arbWallet' = IF Received(w) THEN arbWallet ELSE arbWallet + Amount[w[1]]
    /\ UNCHANGED <<indexerVars, rows, vault, withdrawn, bridgeWallet, allowance,
                   vaultTx, approveTx, burnTx, call, wf, principal, queueVars,
                   burns, resume, reattest, invested>>

mineSent(w) ==
    \/ (mineApproveTx(w) \/ mineBurnTx(w)) /\ UNCHANGED retryVars
    \/ mineReceive(w)

-----------------------------------------------------------------------------
(* The queue.                                                              *)

OnlyJob == UNCHANGED <<indexerVars, rows, chainState, call, principal, burns, remint,
                       resume, reattest, invested>>

addBurnJob(x) ==
    /\ Way[x] = "queue" /\ job[x] = "none"
    /\ rows[x].status = "VAULT_TO_BRIDGE_TRANSFER_CONFIRMED"
    /\ job' = [job EXCEPT ![x] = "waiting"]
    /\ UNCHANGED <<wf, delivery, stalls>>
    /\ OnlyJob

\* Jobs in the hands of the worker that is up; those of a lost one took their slots
\* with it.
InHandsOfWorker(x) == job[x] = "active" /\ ~At(<<x, delivery[x]>>, "lost")

processJob(x) ==
    /\ job[x] = "waiting"
    /\ Cardinality({ y \in Txs : InHandsOfWorker(y) }) < Concurrency
    /\ job' = [job EXCEPT ![x] = "active"]
    /\ delivery' = [delivery EXCEPT ![x] = @ + 1]
    /\ wf' = [wf EXCEPT ![<<x, delivery[x] + 1>>] = Started]
    /\ UNCHANGED stalls
    /\ OnlyJob

\* Wrong variant: a job that did not complete its transfer is tried again.
jobReturnsOrRetries(x) ==
    /\ job[x] = "active" /\ At(<<x, delivery[x]>>, "done")
    /\ job' = [job EXCEPT ![x] = IF /\ rows[x].status # "TRANSFER_COMPLETED"
                                    /\ delivery[x] < MaxRuns /\ crashes = MaxCrashes
                                   THEN "waiting" ELSE "removed"]
    /\ UNCHANGED <<wf, delivery, stalls>>
    /\ OnlyJob

\* executeCompleteWorkflow never throws: whatever came of the transfer, the job is
\* completed, removed, and not tried again.
jobReturns(x) ==
    /\ job[x] = "active" /\ At(<<x, delivery[x]>>, "done")
    /\ job' = [job EXCEPT ![x] = "removed"]
    /\ UNCHANGED <<wf, delivery, stalls>>
    /\ OnlyJob

\* The worker is gone and does not renew its lock.
jobStalls(x) ==
    /\ job[x] = "active" /\ At(<<x, delivery[x]>>, "lost")
    /\ job' = [job EXCEPT ![x] = IF stalls[x] < MaxStalls THEN "waiting" ELSE "failed"]
    /\ stalls' = [stalls EXCEPT ![x] = @ + 1]
    /\ UNCHANGED <<wf, delivery>>
    /\ OnlyJob

-----------------------------------------------------------------------------
(* executeBurnOnly.                                                        *)

Only(w, way) == Way[w[1]] = way

executeBurnOnly(x) ==
    /\ Way[x] = "burnOnly" /\ At(<<x, 1>>, "none")
    /\ rows[x].status = "VAULT_TO_BRIDGE_TRANSFER_CONFIRMED"
    /\ wf' = [wf EXCEPT ![<<x, 1>>] = [NotStarted EXCEPT !.stage = "approval"]]
    /\ UNCHANGED <<indexerVars, rows, chainState, call, principal, retryVars>>

\* The row updates around executeBurn; each stage leads to the next.
BurnOnlyUpdate(w, s) ==
    CASE s = "approval"    -> markApprovalPending(rows, w[1])
      [] s = "saveBurn"    -> markApprovalConfirmed(rows, w[1])
      [] s = "burnPending" -> markBurnPending(rows, w[1])
      [] s = "confirm"     -> updateBurnConfirmed(rows, w[1], w[2], HashOf[w[1]])
      [] s = "extracted"   -> markMessageExtracted(rows, w[1])

BurnOnlyNext == [approval |-> "balance", saveBurn |-> "burnPending",
                 burnPending |-> "confirm", confirm |-> "extracted",
                 extracted |-> "record"]

OnlyRowOf == OnlyRow /\ UNCHANGED retryVars

updateBurnOnlyRow(w) ==
    /\ Only(w, "burnOnly") /\ wf[w].stage \in DOMAIN BurnOnlyNext
    /\ rows' = BurnOnlyUpdate(w, wf[w].stage)
    /\ To(w, BurnOnlyNext[wf[w].stage])
    /\ OnlyRowOf

OnlyRecord == UNCHANGED <<indexerVars, rows, chainState, call, principal, queueVars,
                          remint, resume, reattest, invested>>

saveBurnRecord(w) ==
    /\ Only(w, "burnOnly") /\ At(w, "record")
    /\ burns' = recordBurn(burns, w[1], w[2], HashOf[w[1]])
    /\ Done(w)
    /\ OnlyRecord

\* The catch block: first the record, then the row.
saveFailedRecord(w) ==
    /\ Only(w, "burnOnly") /\ At(w, "burnFailed")
    /\ burns' = recordBurnFailure(burns, w[1])
    /\ To(w, "markFailed")
    /\ OnlyRecord

\* Wrong variant: the row is marked without regard to the record.
failBurnOnlyAtOnce(w) ==
    /\ Only(w, "burnOnly") /\ (At(w, "markFailed") \/ At(w, "burnFailed"))
    /\ rows' = markTransferFailed(rows, w[1])
    /\ Done(w)
    /\ OnlyRowOf

failBurnOnly(w) ==
    /\ Only(w, "burnOnly") /\ At(w, "markFailed")
    /\ rows' = markTransferFailed(rows, w[1])
    /\ Done(w)
    /\ OnlyRowOf

\* A write throws, having taken effect or not.  In the catch block nothing catches
\* it again: executeBurnOnly throws, and the row stays in its last status.
burnOnlyWriteFails(w) ==
    /\ "db" \in Faults /\ Only(w, "burnOnly")
    /\ \/ /\ wf[w].stage \in DOMAIN BurnOnlyNext /\ To(w, "burnFailed")
          /\ rows' \in {rows, BurnOnlyUpdate(w, wf[w].stage)} /\ UNCHANGED burns
       \/ /\ At(w, "record") /\ To(w, "burnFailed")
          /\ burns' \in {burns, recordBurn(burns, w[1], w[2], HashOf[w[1]])}
          /\ UNCHANGED rows
       \/ /\ At(w, "burnFailed") /\ Done(w)
          /\ burns' \in {burns, recordBurnFailure(burns, w[1])}
          /\ UNCHANGED rows
       \/ /\ At(w, "markFailed") /\ Done(w)
          /\ rows' \in {rows, markTransferFailed(rows, w[1])}
          /\ UNCHANGED burns
    /\ UNCHANGED <<indexerVars, chainState, call, principal, queueVars,
                   remint, resume, reattest, invested>>

-----------------------------------------------------------------------------
(* Both ways: executeBurn; the queue's way: the rest of the workflow.      *)

executeBurn(w) ==
    checkBalance(w) \/ readAllowance(w) \/ approvalConfirmed(w) \/ submitBurn(w)
        \/ verifyBurn(w)

workflowOf(w) ==
    \/ /\ Only(w, "burnOnly")
       /\ executeBurn(w)
       /\ UNCHANGED retryVars
    \/ /\ Only(w, "queue") /\ ~At(w, "giza")
       /\ workflowStep(w)
       /\ UNCHANGED retryVars
    \/ /\ initializeGizaPosition(w)
       /\ invested' = [invested EXCEPT ![w[1]] = @ + 1]
       /\ UNCHANGED <<queueVars, burns, remint, resume, reattest>>
    \/ updateBurnOnlyRow(w) \/ saveBurnRecord(w)
    \/ saveFailedRecord(w) \/ failBurnOnly(w)

workflowFaults(w) ==
    \/ chainCallFails(w) /\ UNCHANGED retryVars
    \/ Only(w, "queue") /\ rowUpdateFails(w) /\ UNCHANGED retryVars
    \/ burnOnlyWriteFails(w)

-----------------------------------------------------------------------------
(* resumeAttestationPolling: by message hash; what goes wrong leaves the   *)
(* row alone.                                                              *)

OnlyReattest == UNCHANGED <<indexerVars, chainState, call, wf, principal, queueVars,
                            burns, remint, resume, invested>>

resumeAttestationPolling(x) ==
    /\ reattest[x] = "none"
    /\ rows[x].status \in {"ATTESTATION_PENDING", "MESSAGE_EXTRACTED"}
    /\ rows[x].hash # NoHash
    /\ \A k \in 1 .. MaxRuns : wf[<<x, k>>].stage \in {"none", "done", "lost"}
    /\ reattest' = [reattest EXCEPT ![x] = "polling"]
    /\ UNCHANGED rows /\ OnlyReattest

reattested(x) ==
    /\ reattest[x] = "polling"
    /\ reattest' = [reattest EXCEPT ![x] = "done"]
    /\ rows' \in {updateAttestationReceived(rows, x)}
                 \union (IF Faults \cap {"iris", "db"} # {} THEN {rows} ELSE {})
    /\ OnlyReattest

-----------------------------------------------------------------------------
(* resumeMint, with the message of the row's burn.                         *)

Resuming(w, s) == resume[w].stage = s
ResumeTo(w, s) == resume' = [resume EXCEPT ![w].stage = s]
EndResume(w) ==
    resume' = [resume EXCEPT ![w] = [NoResume EXCEPT !.calls = resume[w].calls]]
OnlyResume == UNCHANGED <<indexerVars, rows, chainState, call, wf, principal,
                          queueVars, burns, remint, reattest, invested>>

resumeMint(w) ==
    /\ Resuming(w, "none") /\ resume[w].calls < MaxResumes
    /\ rows[w[1]].burnTx = w[2] /\ rows[w[1]].attested
    /\ rows[w[1]].status \in {"MINT_PENDING", "ATTESTATION_RECEIVED"}
    /\ wf[w].stage \in {"done", "lost"}
    /\ resume' = [resume EXCEPT ![w].stage = "check", ![w].calls = @ + 1]
    /\ OnlyResume

\* Wrong variant: a question that failed counts as "yes".
isMessageTakenForExecuted(w) ==
    /\ Resuming(w, "check")
    /\ ResumeTo(w, IF Received(w) \/ "rpc" \in Faults THEN "proxy" ELSE "initial")
    /\ OnlyResume

\* isMessageAlreadyExecuted answers "no" when the question fails.
isMessageAlreadyExecuted(w) ==
    /\ Resuming(w, "check")
    /\ \/ ResumeTo(w, IF Received(w) THEN "proxy" ELSE "initial")
       \/ "rpc" \in Faults /\ ResumeTo(w, "initial")
    /\ OnlyResume

resumeInitialBalance(w) ==
    /\ Resuming(w, "initial")
    /\ resume' = [resume EXCEPT ![w].stage = "receive", ![w].pre = arbWallet]
    /\ OnlyResume

\* The gas estimate refuses a message that was received, and a wallet without gas.
resumeReceive(w) ==
    /\ Resuming(w, "receive") /\ ~Received(w)
    /\ remint' = [remint EXCEPT ![w][resume[w].calls] = "pending"]
    /\ ResumeTo(w, "minting")
    /\ UNCHANGED <<indexerVars, rows, chainState, call, wf, principal, queueVars,
                   burns, reattest, invested>>

resumeRefused(w) ==
    /\ \/ Resuming(w, "receive")
          /\ (Received(w) \/ "gas" \in Faults)
       \/ Resuming(w, "minting") /\ remint[w][resume[w].calls] = "reverted"
       \/ "rpc" \in Faults /\ resume[w].stage \in {"initial", "receive", "minting"}
    /\ EndResume(w)
    /\ OnlyResume

resumeFinalBalance(w) ==
    /\ Resuming(w, "minting") /\ remint[w][resume[w].calls] = "mined"
    /\ resume' = [resume EXCEPT ![w].stage = "complete",
                                ![w].minted = arbWallet - resume[w].pre]
    /\ OnlyResume

\* COMPLETED, with the transaction or, when the message had been received before,
\* with the message hash in its place and the expected amount as minted.
completeResumed(w) ==
    /\ Resuming(w, "complete") \/ Resuming(w, "proxy")
    /\ \/ /\ rows' = markTransferCompleted(rows, w[1], w[2])
          /\ resume' = [resume EXCEPT
                ![w].stage = "giza",
                ![w].minted = IF Resuming(w, "proxy") THEN Amount[w[1]] ELSE @]
       \/ /\ "db" \in Faults
          /\ rows' \in {rows, markTransferCompleted(rows, w[1], w[2])}
          /\ EndResume(w)
    /\ UNCHANGED <<indexerVars, chainState, call, wf, principal, queueVars, burns,
                   remint, reattest, invested>>

investResumed(w) ==
    /\ Resuming(w, "giza")
    /\ principal' = [principal EXCEPT ![w[1]] = resume[w].minted]
    /\ invested' = [invested EXCEPT ![w[1]] = @ + 1]
    /\ EndResume(w)
    /\ UNCHANGED <<indexerVars, rows, chainState, call, wf, queueVars, burns,
                   remint, reattest>>

resumeStep(w) ==
    \/ isMessageAlreadyExecuted(w) \/ resumeInitialBalance(w) \/ resumeReceive(w)
    \/ resumeRefused(w) \/ resumeFinalBalance(w) \/ completeResumed(w)
    \/ investResumed(w)

-----------------------------------------------------------------------------
workerCrash ==
    /\ "crash" \in Faults /\ crashes < MaxCrashes
    /\ crashes' = crashes + 1
    /\ wf' = [r \in Runs |-> IF wf[r].stage \in {"none", "done"} THEN wf[r]
                               ELSE [NotStarted EXCEPT !.stage = "lost"]]
    /\ resume' = [r \in Runs |-> [NoResume EXCEPT !.calls = resume[r].calls]]
    /\ reattest' = [x \in Txs |-> IF reattest[x] = "polling" THEN "done" ELSE reattest[x]]
    /\ UNCHANGED <<chainVars, tableVars, loopVars, bridgings, spawned, dropped, rows,
                   chainState, call, principal, queueVars, burns, remint,
                   invested>>

entry(x) ==
    \/ addBurnJob(x) \/ executeBurnOnly(x)
    \/ resumeAttestationPolling(x)

queueStep(x) == processJob(x) \/ jobReturns(x) \/ jobStalls(x)

RetryNext ==
    \/ \E x \in Txs : entry(x) \/ queueStep(x) \/ reattested(x)
    \/ \E w \in Runs : mineSent(w) \/ workflowOf(w) \/ workflowFaults(w)
    \/ \E w \in Runs : resumeMint(w) \/ resumeStep(w)
    \/ workerCrash

RetrySpec == RetryInit /\ [][RetryNext]_allRetryVars

-----------------------------------------------------------------------------
(* What is checked.                                                        *)

BurnedFor(x) == { k \in 1 .. MaxRuns : burnTx[<<x, k>>] # "none" }
ReceivedFor(x) == { k \in 1 .. MaxRuns : Received(<<x, k>>) }

\* The queue burns a deposit again only after its job stalled: once more for each
\* time the worker was lost. No failure the code itself reports (of the burn, the
\* attestation, the mint or a row) makes it burn twice.
OneBurnPerStall == \A x \in Txs : Cardinality(BurnedFor(x)) <= 1 + stalls[x]

\* Rows and burn records name transactions that were mined, also when a resumed
\* call wrote them: COMPLETED means that a message of the deposit was received,
\* though the transaction in the row may be another one or none.
ResumedRowsTellTheTruth ==
    \A x \in Txs :
        /\ rows[x].burnTx # 0 => burnTx[<<x, rows[x].burnTx>>] = "mined"
        /\ rows[x].attested => MinedFor(burnTx, x)
        /\ rows[x].status = "TRANSFER_COMPLETED" => ReceivedFor(x) # {}
        /\ burns[x].burnTx # 0 => burnTx[<<x, burns[x].burnTx>>] = "mined"

\* Nothing is invested before a message of the deposit was received, and none is
\* invested twice, whichever of the workflow and the resumed calls saw it received.
\* Once the job stalled this no longer holds: the second run may set a row that is
\* COMPLETED back, and a mint that is then resumed invests the first message again.
InvestedOncePerMessage ==
    \A x \in Txs :
        /\ invested[x] # 0 => ReceivedFor(x) # {}
        /\ stalls[x] = 0 => invested[x] <= Cardinality(ReceivedFor(x))

\* executeBurnOnly marks a row FAILED only when its burn record already has the
\* failure: whoever finds the row finds the reason.
FailureHasRecord ==
    \A x \in Txs : Way[x] = "burnOnly" /\ rows[x].status = "TRANSFER_FAILED" =>
        burns[x].failed

\* A status that ends a transfer stays, unless the job stalled and ran again.
\* COMPLETED may fall back to MINT_PENDING as in the pipeline.
FinalUnlessStalled ==
    [][\A x \in Txs : stalls[x] = 0 =>
          /\ rows[x].status = "TRANSFER_FAILED" =>
                 rows'[x].status = "TRANSFER_FAILED"
          /\ rows[x].status = "TRANSFER_COMPLETED" =>
                 rows'[x].status \in {"TRANSFER_COMPLETED", "MINT_PENDING"}]_rows

\* The steps that wait for nothing but their turn.
Progress ==
    \/ \E x \in Txs : queueStep(x) \/ reattested(x)
    \/ \E w \in Runs : workflowOf(w) \/ resumeStep(w) \/ mineSent(w)

\* Nothing waits for ever: when no worker, resumed call or chain can go on, every
\* job has left the queue and every call has returned. No run and no resumed mint
\* is left waiting for a transaction that was refused because another run's burn or
\* another call's receipt of the same message came first.
QuietMeansOver ==
    ~ENABLED <<Progress>>_allRetryVars =>
        /\ \A x \in Txs : job[x] \in {"none", "removed", "failed"}
        /\ \A w \in Runs : /\ wf[w].stage \in {"none", "done", "lost"}
                          /\ Resuming(w, "none")
=============================================================================
