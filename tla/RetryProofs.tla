----------------------------- MODULE RetryProofs -----------------------------
(***************************************************************************)
(* Proofs about RetryPaths for any number of deposits, deliveries, resumed *)
(* calls, slots and faults.                                                *)
(*                                                                         *)
(* The invariant is a statement about each deposit by itself (Fits): what  *)
(* its job says of its runs (JobFits), what the stage of a run and of its  *)
(* resumed mint says of their transactions (RunFits), what rows, records   *)
(* and investments may claim (RowFits), and, as long as the job has not    *)
(* stalled, who may still write the row (SoloFits).  A step touches one    *)
(* deposit, so each step is described by what it does to that one.         *)
(***************************************************************************)
EXTENDS RetryPaths, PipelineProofs

Over == {"done", "lost"}
OnlyStages == BeforeBurn \union Over
    \union {"none", "approval", "burning", "saveBurn", "burnPending", "confirm",
            "extracted", "record", "burnFailed", "markFailed"}
AfterBurn == AfterSave
    \union {"saveBurn", "burnPending", "confirm", "extracted", "record"}
RetryStages == WfStages \union OnlyStages
ResumeStages == {"none", "check", "proxy", "initial", "receive", "minting",
                 "complete", "giza"}

RunRecords == [stage : RetryStages, pre : Nat, minted : Nat]
ResumeRecords == [stage : ResumeStages, pre : Nat, minted : Nat, calls : 0 .. MaxResumes]

RetryTypes ==
    /\ rows \in Rows(Txs) /\ \A x \in Txs : Exists(rows, x)
    /\ bridgeWallet \in Nat /\ allowance \in Nat /\ arbWallet \in Nat
    /\ approveTx \in [Runs -> TxStates]
    /\ burnTx \in [Runs -> TxStates]
    /\ mintTx \in [Runs -> TxStates]
    /\ wf \in [Runs -> RunRecords]
    /\ principal \in [Txs -> Nat]
    /\ job \in [Txs -> {"none", "waiting", "active", "removed", "failed"}]
    /\ delivery \in [Txs -> Nat] /\ stalls \in [Txs -> Nat]
    /\ burns \in BurnRecords(Txs)
    /\ remint \in [Runs -> [1 .. MaxResumes -> TxStates]]
    /\ resume \in [Runs -> ResumeRecords]
    /\ reattest \in [Txs -> {"none", "polling", "done"}]
    /\ invested \in [Txs -> Nat]

\* A balance read before a mint is at most the present one.
RetryBelow ==
    \A w \in Runs :
        /\ wf[w].stage \in {"receive", "minting"} => wf[w].pre <= arbWallet
        /\ resume[w].stage \in {"receive", "minting"} => resume[w].pre <= arbWallet

\* What the stages of run w and of its resumed mint say of their transactions.
RunFits(w) ==
    LET s == wf[w].stage
        u == resume[w].stage
    IN  /\ Way[w[1]] = "queue" => s \in WfStages
        /\ Way[w[1]] = "burnOnly" => s \in OnlyStages
        /\ s \in {"none", "approval"} \union BeforeBurn => burnTx[w] = "none"
        /\ s = "burning" => burnTx[w] # "none"
        /\ s \in AfterBurn => burnTx[w] = "mined"
        /\ mintTx[w] # "none" => burnTx[w] = "mined"
        /\ mintTx[w] # "none" =>
               s \in {"minting", "complete", "giza", "mintFailed"} \union Over
        /\ s \in {"complete", "giza"} => mintTx[w] = "mined"
        /\ u # "none" => s \in Over /\ burnTx[w] = "mined" /\ resume[w].calls # 0
        /\ \A n \in 1 .. MaxResumes :
               /\ n > resume[w].calls => remint[w][n] = "none"
               /\ n = resume[w].calls /\ u \in {"check", "initial", "receive"} =>
                      remint[w][n] = "none"
               /\ remint[w][n] # "none" => burnTx[w] = "mined"
        /\ u \in {"proxy", "complete", "giza"} => Received(w)

\* What the job of deposit x says of its runs.
JobFits(x) ==
    /\ Way[x] = "burnOnly" => job[x] = "none"
    /\ job[x] = "none" => delivery[x] = 0 /\ stalls[x] = 0
    /\ job[x] = "waiting" => delivery[x] = stalls[x] /\ stalls[x] <= MaxStalls
    /\ job[x] \in {"active", "removed"} =>
           delivery[x] = stalls[x] + 1 /\ stalls[x] <= MaxStalls
    /\ job[x] = "failed" => delivery[x] = stalls[x] /\ stalls[x] <= MaxStalls + 1
    /\ \A k \in 1 .. MaxRuns :
           /\ Way[x] = "queue" => (wf[<<x, k>>].stage = "none" <=> k > delivery[x])
           /\ Way[x] = "queue" /\ (job[x] # "active" \/ k < delivery[x]) =>
                  wf[<<x, k>>].stage \in {"none"} \union Over
           /\ Way[x] = "burnOnly" /\ k # 1 => wf[<<x, k>>].stage = "none"

\* The run a column names, which is 0 when it names none.
Names(col, x) == col # 0 => col \in 1 .. MaxRuns /\ burnTx[<<x, col>>] = "mined"

\* What row, record and investments of deposit x may claim.
RowFits(x) ==
    /\ Names(rows[x].burnTx, x)
    /\ rows[x].hash # NoHash => rows[x].burnTx # 0
    /\ rows[x].attested \/ reattest[x] = "polling" => MinedFor(burnTx, x)
    /\ rows[x].status = "TRANSFER_COMPLETED" \/ invested[x] # 0 => ReceivedFor(x) # {}
    /\ Names(burns[x].burnTx, x)
    /\ Way[x] = "burnOnly" /\ rows[x].status = "TRANSFER_FAILED" => burns[x].failed
    /\ Way[x] = "burnOnly" /\ wf[<<x, 1>>].stage = "markFailed" => burns[x].failed

\* A job that has not stalled has one run.  A final status is written when that run is
\* over or about to be, and nothing that could write it over is under way then.
SoloFits(x) ==
    LET s == wf[<<x, 1>>].stage
        u == resume[<<x, 1>>].stage
        status == rows[x].status
    IN  stalls[x] = 0 =>
            /\ reattest[x] = "polling" =>
                   s \in Over /\ status \in {"ATTESTATION_PENDING", "MESSAGE_EXTRACTED"}
            /\ status = "TRANSFER_FAILED" => s \in Over
            /\ status = "TRANSFER_COMPLETED" => s \in Over \union {"giza", "mintFailed"}
            /\ s = "giza" => status = "TRANSFER_COMPLETED"
            /\ u = "giza" => status = "TRANSFER_COMPLETED"
            /\ u \notin {"none", "giza"} =>
                   status \in {"MINT_PENDING", "ATTESTATION_RECEIVED"}
            /\ invested[x] <= 1
            /\ invested[x] # 0 =>
                   status = "TRANSFER_COMPLETED" /\ s \in Over /\ u = "none"

Fits(x) ==
    /\ \A k \in 1 .. MaxRuns : RunFits(<<x, k>>)
    /\ JobFits(x) /\ RowFits(x) /\ SoloFits(x)

RetryTypesHold == RetryTypes /\ RetryBelow
RetryInv == RetryTypesHold /\ \A x \in Txs : Fits(x)

LEMMA RetryConstants ==
    /\ MaxRuns \in Nat /\ 1 <= MaxRuns /\ MaxStalls \in Nat /\ MaxStalls + 1 <= MaxRuns
    /\ MaxResumes \in Nat /\ \A x \in Txs : Way[x] \in {"queue", "burnOnly"}
  BY MaxRunsPositive, RetryAssumption

LEMMA RunIs == \A x \in Txs, k \in 1 .. MaxRuns : <<x, k>> \in Runs
  BY DEF Runs

-----------------------------------------------------------------------------
LEMMA RetryInitHolds == RetryInit => RetryInv
<1> SUFFICES ASSUME RetryInit PROVE RetryInv
  OBVIOUS
<1> USE RetryConstants DEF RetryInit
<1>1. rows \in Rows(Txs)
      /\ \A x \in Txs : /\ rows[x].status = "VAULT_TO_BRIDGE_TRANSFER_CONFIRMED"
                        /\ rows[x].burnTx = 0 /\ rows[x].hash = NoHash
                        /\ ~rows[x].attested
  <2> DEFINE fresh(x) == markVaultToBridgeConfirmed(EmptyTable(Txs), x, 1)
  <2>1. EmptyTable(Txs) \in Rows(Txs)
    BY DEF EmptyTable, Rows, NoHash
  <2>2. \A x \in Txs : EmptyTable(Txs)[x] = [status |-> NoRow, bridgeTx |-> 0,
                          bridgeError |-> FALSE, burnTx |-> 0, hash |-> NoHash,
                          attested |-> FALSE, mintTx |-> 0]
    BY DEF EmptyTable
  <2>3. ASSUME NEW x \in Txs
        PROVE  /\ fresh(x) \in Rows(Txs)
               /\ fresh(x)[x].status = "VAULT_TO_BRIDGE_TRANSFER_CONFIRMED"
               /\ fresh(x)[x].burnTx = 0 /\ fresh(x)[x].hash = NoHash
               /\ ~fresh(x)[x].attested
    <3> HIDE DEF NoHash
    <3>1. Writes(EmptyTable(Txs), fresh(x), x)
          /\ fresh(x)[x].status = "VAULT_TO_BRIDGE_TRANSFER_CONFIRMED"
          /\ fresh(x)[x].burnTx = EmptyTable(Txs)[x].burnTx
          /\ fresh(x)[x].hash = EmptyTable(Txs)[x].hash
          /\ fresh(x)[x].attested = EmptyTable(Txs)[x].attested
      BY <2>1, WritesConfirmed
    <3>2. QED
      BY <2>2, <3>1 DEF Writes
  <2>4. rows = [x \in Txs |-> fresh(x)[x]]
    OBVIOUS
  <2> HIDE DEF fresh
  <2>5. QED
    BY <2>3, <2>4 DEF Rows
<1>2. \A w \in Runs : /\ wf[w] = NotStarted /\ resume[w] = NoResume
                      /\ burnTx[w] = "none" /\ mintTx[w] = "none"
                      /\ \A n \in 1 .. MaxResumes : remint[w][n] = "none"
  OBVIOUS
<1>3. NotStarted \in RunRecords /\ NoResume \in ResumeRecords
  BY DEF NotStarted, NoResume, RunRecords, ResumeRecords, RetryStages, WfStages,
         ResumeStages
<1>4. burns \in BurnRecords(Txs) /\ \A x \in Txs : burns[x].burnTx = 0
  BY DEF EmptyBurnRecords, BurnRecords, NoHash
<1>5. bridgeWallet \in Nat /\ allowance \in Nat /\ arbWallet \in Nat
  <2>1. Sum(Amount, Txs) \in Nat
    BY FiniteTxs, AmountsAreNat, SumInNat
  <2>2. bridgeWallet \in Nat
    BY <2>1 DEF Sum
  <2>3. allowance \in Nat
    BY AmountsAreNat, SizesAssumption, RetryAssumption DEF Txs
  <2>4. QED
    BY <2>2, <2>3
<1>6. RetryTypes
  BY <1>1, <1>3, <1>4, <1>5 DEF RetryTypes, TxStates, Exists, NoRow
<1>7. RetryBelow
  BY <1>2 DEF RetryBelow, NotStarted, NoResume
<1>8. ASSUME NEW x \in Txs PROVE Fits(x)
  <2>0. \A k \in 1 .. MaxRuns : <<x, k>> \in Runs /\ <<x, k>>[1] = x
    BY RunIs
  <2>1. \A k \in 1 .. MaxRuns : RunFits(<<x, k>>)
    BY <1>2, <2>0 DEF RunFits, NotStarted, NoResume, WfStages, OnlyStages, AfterBurn,
       AfterSave, BeforeBurn, Over
  <2>2. JobFits(x)
    BY <1>2, <2>0 DEF JobFits, NotStarted
  <2>3. RowFits(x)
    <3>1. reattest[x] = "none" /\ invested[x] = 0 /\ wf[<<x, 1>>].stage = "none"
      BY <1>2, <2>0 DEF NotStarted
    <3>2. QED
      BY <1>1, <1>4, <3>1 DEF RowFits, Names
  <2>4. SoloFits(x)
    <3>1. /\ reattest[x] = "none" /\ invested[x] = 0
          /\ wf[<<x, 1>>].stage = "none" /\ resume[<<x, 1>>].stage = "none"
      <4>1. <<x, 1>> \in Runs
        BY <2>0
      <4>2. wf[<<x, 1>>] = NotStarted /\ resume[<<x, 1>>] = NoResume
        BY <1>2, <4>1
      <4>3. QED
        BY <4>2 DEF NotStarted, NoResume
    <3>2. QED
      BY <1>1, <3>1 DEF SoloFits
  <2>5. QED
    BY <2>1, <2>2, <2>3, <2>4 DEF Fits
<1>9. QED
  BY <1>6, <1>7, <1>8 DEF RetryInv, RetryTypesHold

-----------------------------------------------------------------------------
(* What a step leaves alone.                                               *)

RunKept(w) ==
    /\ wf'[w] = wf[w] /\ burnTx'[w] = burnTx[w] /\ mintTx'[w] = mintTx[w]
    /\ remint'[w] = remint[w] /\ resume'[w] = resume[w]

DepositKept(x) ==
    /\ rows'[x] = rows[x] /\ burns'[x] = burns[x] /\ job'[x] = job[x]
    /\ delivery'[x] = delivery[x] /\ stalls'[x] = stalls[x]
    /\ reattest'[x] = reattest[x] /\ invested'[x] = invested[x]

\* Nothing but run w of its deposit changes.
OnlyRun(w) ==
    /\ \A y \in Txs \ {w[1]} : DepositKept(y)
    /\ \A r \in Runs \ {w} : RunKept(r)

LEMMA KeptFits ==
    ASSUME NEW x \in Txs, Fits(x), DepositKept(x),
           \A k \in 1 .. MaxRuns : RunKept(<<x, k>>)
    PROVE  Fits(x)'
<1> USE RetryConstants DEF DepositKept, RunKept
<1>1. ASSUME NEW k \in 1 .. MaxRuns PROVE RunFits(<<x, k>>)'
  BY <1>1 DEF Fits, RunFits, Received
<1>2. JobFits(x)'
  BY DEF Fits, JobFits
<1>3. ReceivedFor(x)' = ReceivedFor(x) /\ MinedFor(burnTx, x)' = MinedFor(burnTx, x)
  BY DEF ReceivedFor, Received, MinedFor
<1>4. RowFits(x)'
  BY <1>3 DEF Fits, RowFits, Names
<1>5. SoloFits(x)'
  BY DEF Fits, SoloFits
<1>6. QED
  BY <1>1, <1>2, <1>4, <1>5 DEF Fits

\* So only the deposit at hand has to be looked at.
LEMMA OthersFit ==
    ASSUME RetryInv, NEW w \in Runs, OnlyRun(w), Fits(w[1])'
    PROVE  \A x \in Txs : Fits(x)'
<1>1. ASSUME NEW x \in Txs, x # w[1] PROVE Fits(x)'
  <2>1. \A k \in 1 .. MaxRuns : RunKept(<<x, k>>)
    BY <1>1, RunIs, RunShape DEF OnlyRun
  <2>2. QED
    BY <1>1, <2>1, KeptFits DEF OnlyRun, RetryInv
<1>2. QED
  BY <1>1

-----------------------------------------------------------------------------
(* The chains.                                                             *)

Settles(t, u) == u = t \/ (t = "pending" /\ u \in {"mined", "reverted"})

\* What mining does for run w.
ChainForm(w) ==
    /\ UNCHANGED <<rows, wf, queueVars, burns, resume, reattest, invested>>
    /\ OnlyRun(w)
    /\ Settles(burnTx[w], burnTx'[w]) /\ Settles(mintTx[w], mintTx'[w])
    /\ \A n \in 1 .. MaxResumes : Settles(remint[w][n], remint'[w][n])

LEMMA ChainForms ==
    ASSUME RetryTypesHold, NEW w \in Runs, mineSent(w)
    PROVE  ChainForm(w) /\ RetryTypesHold'
<1>0. /\ Amount[w[1]] \in Nat /\ ApprovalFactor * Amount[w[1]] \in Nat
      /\ AfterReceive(w) \in {"mined", "reverted"}
  BY RunShape, AmountsAreNat DEF AfterReceive
<1>1. ASSUME mineApproveTx(w) \/ mineBurnTx(w), UNCHANGED retryVars
      PROVE  ChainForm(w) /\ RetryTypesHold'
  <2>1. /\ UNCHANGED <<rows, wf, queueVars, burns, remint, resume, reattest, invested,
                       mintTx, arbWallet, principal>>
        /\ \A r \in Runs \ {w} : burnTx'[r] = burnTx[r]
        /\ Settles(burnTx[w], burnTx'[w])
    BY <1>1 DEF mineApproveTx, mineBurnTx, retryVars, RetryTypesHold, RetryTypes, Settles
  <2>2. /\ bridgeWallet' \in Nat /\ allowance' \in Nat
        /\ approveTx' \in [Runs -> TxStates] /\ burnTx' \in [Runs -> TxStates]
    <3>1. CASE mineApproveTx(w)
      BY <1>0, <3>1 DEF mineApproveTx, RetryTypesHold, RetryTypes, TxStates
    <3>2. CASE mineBurnTx(w)
      <4>1. burnTx' \in [Runs -> TxStates] /\ approveTx' = approveTx
        BY <3>2 DEF mineBurnTx, RetryTypesHold, RetryTypes, TxStates
      <4>2. bridgeWallet' \in Nat /\ allowance' \in Nat
        BY <1>0, <3>2 DEF mineBurnTx, RetryTypesHold, RetryTypes
      <4>3. QED
        BY <4>1, <4>2 DEF RetryTypesHold, RetryTypes
    <3>3. QED
      BY <1>1, <3>1, <3>2
  <2>3. ChainForm(w)
    BY <2>1 DEF ChainForm, OnlyRun, DepositKept, RunKept, Settles, queueVars
  <2>4. QED
    BY <2>1, <2>2, <2>3 DEF RetryTypesHold, RetryTypes, RetryBelow, Exists, queueVars
<1>2. CASE mineReceive(w)
  <2>1. arbWallet' \in Nat /\ arbWallet <= arbWallet'
    BY <1>0, <1>2 DEF mineReceive, RetryTypesHold, RetryTypes
  <2>2. /\ mintTx' \in [Runs -> TxStates] /\ Settles(mintTx[w], mintTx'[w])
        /\ \A r \in Runs \ {w} : mintTx'[r] = mintTx[r]
    BY <1>0, <1>2 DEF mineReceive, RetryTypesHold, RetryTypes, Settles, TxStates
  <2>3. /\ remint' \in [Runs -> [1 .. MaxResumes -> TxStates]]
        /\ \A r \in Runs \ {w} : remint'[r] = remint[r]
        /\ \A n \in 1 .. MaxResumes : Settles(remint[w][n], remint'[w][n])
    <3>1. CASE remint' = remint
      BY <3>1 DEF RetryTypesHold, RetryTypes, Settles
    <3>2. ASSUME NEW m \in 1 .. MaxResumes, remint[w][m] = "pending",
                 remint' = [remint EXCEPT ![w][m] = AfterReceive(w)]
          PROVE  /\ remint' \in [Runs -> [1 .. MaxResumes -> TxStates]]
                 /\ \A r \in Runs \ {w} : remint'[r] = remint[r]
                 /\ \A n \in 1 .. MaxResumes : Settles(remint[w][n], remint'[w][n])
      BY <1>0, <3>2 DEF RetryTypesHold, RetryTypes, Settles, TxStates
    <3>3. QED
      BY <1>2, <3>1, <3>2 DEF mineReceive
  <2>4. /\ UNCHANGED <<rows, wf, queueVars, burns, resume, reattest, invested, burnTx,
                       approveTx, bridgeWallet, allowance, principal>>
    BY <1>2 DEF mineReceive
  <2>5. RetryBelow'
    BY <2>1, <2>4 DEF RetryBelow, RetryTypesHold, RetryTypes, RunRecords, ResumeRecords
  <2>6. ChainForm(w)
    BY <2>2, <2>3, <2>4 DEF ChainForm, OnlyRun, DepositKept, RunKept, Settles, queueVars
  <2>7. QED
    BY <2>1, <2>2, <2>3, <2>4, <2>5, <2>6 DEF RetryTypesHold, RetryTypes, Exists, queueVars
<1>3. QED
  BY <1>1, <1>2 DEF mineSent

LEMMA ChainFits ==
    ASSUME RetryInv, NEW w \in Runs, ChainForm(w)
    PROVE  Fits(w[1])'
<1> DEFINE x == w[1]
<1> USE RetryConstants DEF ChainForm, Settles
<1>0. x \in Txs /\ w[2] \in 1 .. MaxRuns /\ w = <<x, w[2]>> /\ Fits(x)
  BY RunShape DEF RetryInv
<1>1. ASSUME NEW k \in 1 .. MaxRuns
      PROVE  /\ Settles(burnTx[<<x, k>>], burnTx'[<<x, k>>])
             /\ Settles(mintTx[<<x, k>>], mintTx'[<<x, k>>])
             /\ \A n \in 1 .. MaxResumes :
                    Settles(remint[<<x, k>>][n], remint'[<<x, k>>][n])
  BY <1>0, RunIs DEF OnlyRun, RunKept
<1>2. ASSUME NEW k \in 1 .. MaxRuns PROVE Received(<<x, k>>) => Received(<<x, k>>)'
  BY <1>1 DEF Received
<1>3. ASSUME NEW k \in 1 .. MaxRuns PROVE RunFits(<<x, k>>)'
  <2>1. RunFits(<<x, k>>)
    BY <1>0 DEF Fits
  <2>2. QED
    BY <1>1, <1>2, <2>1 DEF RunFits
<1>4. JobFits(x)'
  BY <1>0 DEF Fits, JobFits, queueVars
<1>5. /\ MinedFor(burnTx, x) => MinedFor(burnTx, x)'
      /\ ReceivedFor(x) # {} => ReceivedFor(x)' # {}
      /\ \A col : Names(col, x) => Names(col, x)'
  BY <1>1, <1>2 DEF MinedFor, ReceivedFor, Names
<1>6. RowFits(x)'
  BY <1>0, <1>5 DEF Fits, RowFits
<1>7. SoloFits(x)'
  BY <1>0 DEF Fits, SoloFits, queueVars
<1>8. QED
  BY <1>3, <1>4, <1>6, <1>7 DEF Fits

-----------------------------------------------------------------------------
(* The runs.  A step of a run is one of the workflow's own (CommonForm) or *)
(* one that only executeBurnOnly has (BurnOnlyForm).                       *)

CommonForm(w) ==
    /\ WorkflowForm(w)
    /\ UNCHANGED <<queueVars, burns, remint, resume, reattest>>
    /\ Way[w[1]] = "burnOnly" => wf[w].stage \in BeforeBurn \union {"burning"}
    /\ IF wf[w].stage = "giza" THEN invested' = [invested EXCEPT ![w[1]] = @ + 1]
                               ELSE invested' = invested

\* What the steps of executeBurnOnly around executeBurn do to run, row and record.
BurnOnlyMove(w) ==
    LET s == wf[w].stage
        t == wf'[w].stage
    IN  \/ /\ s \in DOMAIN BurnOnlyNext /\ t \in {BurnOnlyNext[s], "burnFailed"}
           /\ rows' \in {rows, BurnOnlyUpdate(w, s)} /\ burns' = burns
        \/ /\ s = "record" /\ t \in {"done", "burnFailed"}
           /\ burns' \in {burns, recordBurn(burns, w[1], w[2], HashOf[w[1]])}
           /\ rows' = rows
        \/ /\ s = "burnFailed" /\ rows' = rows
           /\ \/ t = "done" /\ burns' \in {burns, recordBurnFailure(burns, w[1])}
              \/ t = "markFailed" /\ burns' = recordBurnFailure(burns, w[1])
        \/ /\ s = "markFailed" /\ t = "done" /\ burns' = burns
           /\ rows' \in {rows, markTransferFailed(rows, w[1])}

BurnOnlyForm(w) ==
    /\ Way[w[1]] = "burnOnly"
    /\ UNCHANGED <<chainState, principal, queueVars, remint, resume, reattest, invested>>
    /\ wf' = [wf EXCEPT ![w] = wf'[w]] /\ wf'[w] \in RunRecords
    /\ BurnOnlyMove(w)

LEMMA BurnOnlyStages ==
    /\ DOMAIN BurnOnlyNext = {"approval", "saveBurn", "burnPending", "confirm", "extracted"}
    /\ BurnOnlyNext["approval"] = "balance" /\ BurnOnlyNext["saveBurn"] = "burnPending"
    /\ BurnOnlyNext["burnPending"] = "confirm" /\ BurnOnlyNext["confirm"] = "extracted"
    /\ BurnOnlyNext["extracted"] = "record"
  BY DEF BurnOnlyNext

LEMMA RetryToMoves ==
    ASSUME RetryTypes, NEW w \in Runs, NEW s \in RetryStages, To(w, s)
    PROVE  /\ wf' = [wf EXCEPT ![w] = wf'[w]] /\ wf'[w] \in RunRecords
           /\ wf'[w].stage = s
  BY DEF RetryTypes, RunRecords, To

LEMMA RetryDoneMoves ==
    ASSUME RetryTypes, NEW w \in Runs, Done(w)
    PROVE  /\ wf' = [wf EXCEPT ![w] = wf'[w]] /\ wf'[w] \in RunRecords
           /\ wf'[w].stage = "done"
  BY DEF RetryTypes, RunRecords, Done, NotStarted, RetryStages, WfStages

LEMMA RunForms ==
    ASSUME RetryTypesHold, NEW w \in Runs, RunFits(w), workflowOf(w) \/ workflowFaults(w)
    PROVE  CommonForm(w) \/ BurnOnlyForm(w)
<1>0. WfShaped /\ RetryTypes /\ Way[w[1]] \in {"queue", "burnOnly"}
  BY RetryConstants, RunShape DEF RetryTypesHold, RetryTypes, RunRecords, WfShaped
<1>1. ASSUME workflowStep(w) \/ chainCallFails(w) \/ rowUpdateFails(w),
             UNCHANGED retryVars, wf[w].stage # "giza",
             Way[w[1]] = "burnOnly" => wf[w].stage \in BeforeBurn \union {"burning"}
      PROVE  CommonForm(w)
  BY <1>0, <1>1, WorkflowShapes DEF CommonForm, retryVars
<1>2. CASE Only(w, "burnOnly") /\ executeBurn(w) /\ UNCHANGED retryVars
  <2>1. workflowStep(w)
    BY <1>2 DEF executeBurn, workflowStep
  <2>2. wf[w].stage \in BeforeBurn \union {"burning"}
    BY <1>2 DEF executeBurn, checkBalance, readAllowance, approvalConfirmed, submitBurn,
                verifyBurn, At, BeforeBurn
  <2>3. QED
    BY <1>1, <1>2, <2>1, <2>2 DEF BeforeBurn
<1>3. CASE Only(w, "queue") /\ ~At(w, "giza") /\ workflowStep(w) /\ UNCHANGED retryVars
  BY <1>1, <1>3 DEF Only, At
<1>4. ASSUME initializeGizaPosition(w), invested' = [invested EXCEPT ![w[1]] = @ + 1],
             UNCHANGED <<queueVars, burns, remint, resume, reattest>>
      PROVE  CommonForm(w)
  <2>1. workflowStep(w) /\ wf[w].stage = "giza"
    BY <1>4 DEF initializeGizaPosition, workflowStep, At
  <2>2. Way[w[1]] # "burnOnly"
    BY <2>1 DEF RunFits, OnlyStages, BeforeBurn, Over
  <2>3. QED
    BY <1>0, <1>4, <2>1, <2>2, WorkflowShapes DEF CommonForm
<1>5. CASE chainCallFails(w) /\ UNCHANGED retryVars
  <2>1. wf[w].stage # "giza"
    BY <1>5 DEF chainCallFails
  <2>2. Way[w[1]] = "burnOnly" => wf[w].stage \in BeforeBurn \union {"burning"}
    BY <1>5 DEF chainCallFails, RunFits, OnlyStages, BeforeBurn, Over
  <2>3. QED
    BY <1>1, <1>5, <2>1, <2>2
<1>6. CASE Only(w, "queue") /\ rowUpdateFails(w) /\ UNCHANGED retryVars
  BY <1>1, <1>6 DEF Only, rowUpdateFails, At
<1>7. CASE updateBurnOnlyRow(w) \/ saveBurnRecord(w) \/ saveFailedRecord(w)
              \/ failBurnOnly(w) \/ burnOnlyWriteFails(w)
  <2>1. /\ Way[w[1]] = "burnOnly"
        /\ UNCHANGED <<chainState, principal, queueVars, remint, resume, reattest,
                       invested>>
    BY <1>7 DEF updateBurnOnlyRow, saveBurnRecord, saveFailedRecord, failBurnOnly,
                burnOnlyWriteFails, Only, OnlyRowOf, OnlyRow, OnlyRecord, retryVars
  <2>2. {"balance", "burnPending", "confirm", "extracted", "record", "burnFailed",
         "markFailed"} \subseteq RetryStages
    BY DEF RetryStages, OnlyStages, BeforeBurn
  <2> DEFINE s == wf[w].stage
             moved == /\ wf' = [wf EXCEPT ![w] = wf'[w]] /\ wf'[w] \in RunRecords
                      /\ BurnOnlyMove(w)
  <2> USE <1>0, <2>2, RetryToMoves, RetryDoneMoves
  <2>3. ASSUME updateBurnOnlyRow(w) PROVE moved
    <3>1. s \in DOMAIN BurnOnlyNext /\ BurnOnlyNext[s] \in RetryStages
      BY <2>3, BurnOnlyStages DEF updateBurnOnlyRow
    <3>2. rows' = BurnOnlyUpdate(w, s) /\ burns' = burns /\ To(w, BurnOnlyNext[s])
      BY <2>3 DEF updateBurnOnlyRow, OnlyRowOf, retryVars
    <3>3. wf' = [wf EXCEPT ![w] = wf'[w]] /\ wf'[w] \in RunRecords
          /\ wf'[w].stage = BurnOnlyNext[s]
      BY <3>1, <3>2
    <3>4. QED
      BY <3>1, <3>2, <3>3 DEF BurnOnlyMove
  <2>4. ASSUME saveBurnRecord(w) PROVE moved
    BY <2>4 DEF saveBurnRecord, OnlyRecord, At, BurnOnlyMove
  <2>5. ASSUME saveFailedRecord(w) PROVE moved
    BY <2>5 DEF saveFailedRecord, OnlyRecord, At, BurnOnlyMove
  <2>6. ASSUME failBurnOnly(w) PROVE moved
    BY <2>6 DEF failBurnOnly, OnlyRowOf, retryVars, At, BurnOnlyMove
  <2>7. ASSUME burnOnlyWriteFails(w) PROVE moved
    <3>1. CASE /\ s \in DOMAIN BurnOnlyNext /\ To(w, "burnFailed")
               /\ rows' \in {rows, BurnOnlyUpdate(w, s)} /\ burns' = burns
      BY <3>1 DEF BurnOnlyMove
    <3>2. CASE /\ At(w, "record") /\ To(w, "burnFailed")
               /\ burns' \in {burns, recordBurn(burns, w[1], w[2], HashOf[w[1]])}
               /\ rows' = rows
      BY <3>2 DEF BurnOnlyMove, At
    <3>3. CASE /\ At(w, "burnFailed") /\ Done(w) /\ rows' = rows
               /\ burns' \in {burns, recordBurnFailure(burns, w[1])}
      BY <3>3 DEF BurnOnlyMove, At
    <3>4. CASE /\ At(w, "markFailed") /\ Done(w) /\ burns' = burns
               /\ rows' \in {rows, markTransferFailed(rows, w[1])}
      BY <3>4 DEF BurnOnlyMove, At
    <3>5. QED
      BY <2>7, <3>1, <3>2, <3>3, <3>4 DEF burnOnlyWriteFails
  <2>8. moved
    BY <1>7, <2>3, <2>4, <2>5, <2>6, <2>7
  <2>9. QED
    BY <2>1, <2>8 DEF BurnOnlyForm
<1>8. QED
  BY <1>2, <1>3, <1>4, <1>5, <1>6, <1>7 DEF workflowOf, workflowFaults


-----------------------------------------------------------------------------
(* What a step of a run does to the row, to the record and to the chains.  *)

RowMove(w) ==
    LET s == wf[w].stage
        t == wf'[w].stage
        r == rows[w[1]]
        q == rows'[w[1]]
    IN  /\ \/ q.burnTx = r.burnTx /\ q.hash = r.hash
           \/ q.burnTx = w[2] /\ burnTx[w] = "mined"
        /\ q.attested => r.attested \/ burnTx[w] = "mined"
        /\ \/ q.status = r.status /\ t # "giza"
           \/ q.status = "TRANSFER_COMPLETED" /\ s = "complete"
           \/ /\ q.status = "TRANSFER_FAILED" /\ t = "done"
              /\ s \notin {"giza", "mintFailed"}
              /\ Way[w[1]] = "burnOnly" => s = "markFailed"
           \/ /\ q.status \notin {"TRANSFER_COMPLETED", "TRANSFER_FAILED"}
              /\ s # "giza" /\ t # "giza"
              /\ s = "mintFailed" => q.status = "MINT_PENDING"

RecordMove(w) ==
    LET b == burns[w[1]]
        c == burns'[w[1]]
    IN  /\ c.burnTx = b.burnTx \/ (c.burnTx = w[2] /\ burnTx[w] = "mined")
        /\ b.failed \/ wf'[w].stage = "markFailed" => c.failed

\* A row update that only sets the status.
SetsStatus(t, u, x, status) ==
    u[x].status = status /\ u[x].burnTx = t[x].burnTx /\ u[x].hash = t[x].hash
        /\ u[x].attested = t[x].attested

LEMMA StatusOnly ==
    ASSUME NEW t \in Rows(Txs), NEW x \in Txs, NEW status \in Statuses,
           NEW u, u = [t EXCEPT ![x].status = status]
    PROVE  Writes(t, u, x) /\ SetsStatus(t, u, x, status)
<1> DEFINE r == [t[x] EXCEPT !.status = status]
<1>1. r \in RowShape /\ r.status # NoRow
  BY DEF Rows, RowShape, Statuses, NoRow
<1>2. u = [t EXCEPT ![x] = r]
  BY DEF Rows
<1> HIDE DEF r
<1>3. Writes(t, u, x) /\ u[x] = r
  BY <1>1, <1>2, OneRow DEF Rows
<1>4. QED
  BY <1>3 DEF r, Rows, SetsStatus

LEMMA CommonRow ==
    ASSUME RetryTypes, NEW w \in Runs, RunFits(w), CommonForm(w)
    PROVE  Writes(rows, rows', w[1]) /\ RowMove(w)
<1> DEFINE x == w[1]
           s == wf[w].stage
           t == wf'[w].stage
<1>0. /\ rows \in Rows(Txs) /\ x \in Txs /\ w[2] \in Nat /\ HashOf[x] \in Nat
      /\ Exists(rows, x) /\ Follows(s, t) /\ WritesRow(w)
  BY RunShape, AmountsAreNat DEF RetryTypes, CommonForm, WorkflowForm
<1>a. /\ Way[x] = "burnOnly" => s \in BeforeBurn \union {"burning"}
      /\ s \in AfterBurn => burnTx[w] = "mined"
  BY DEF CommonForm, RunFits
<1>1. CASE rows' = rows /\ t \notin {"attest", "giza"}
  BY <1>0, <1>1 DEF Writes, RowMove
<1>2. CASE s = "saveBurn" /\ rows' = updateBurnConfirmed(rows, x, w[2], HashOf[x])
  <2>1. /\ Writes(rows, rows', x)
        /\ rows' = rows \/ /\ rows'[x].status = "BURN_CONFIRMED"
                           /\ rows'[x].burnTx = w[2]
                           /\ rows'[x].attested = rows[x].attested
    BY <1>0, <1>2, WritesBurn
  <2>2. burnTx[w] = "mined" /\ t # "giza"
    BY <1>0, <1>a, <1>2 DEF AfterBurn, Follows
  <2>3. QED
    BY <1>2, <2>1, <2>2 DEF RowMove
<1>3. CASE s = "burnFailed" /\ rows' = markTransferFailed(rows, x)
  <2>1. Writes(rows, rows', x) /\ SetsStatus(rows, rows', x, "TRANSFER_FAILED")
    BY <1>0, <1>3, StatusOnly DEF markTransferFailed, Statuses
  <2>2. t = "done" /\ Way[x] # "burnOnly"
    BY <1>0, <1>a, <1>3 DEF Follows, BeforeBurn
  <2>3. QED
    BY <1>3, <2>1, <2>2 DEF RowMove, SetsStatus
<1>4. CASE /\ s \in {"saveAttestation", "saveLegacy"}
           /\ rows' = updateAttestationReceived(rows, x)
  <2>1. /\ Writes(rows, rows', x) /\ rows'[x].status = "ATTESTATION_RECEIVED"
        /\ rows'[x].burnTx = rows[x].burnTx /\ rows'[x].hash = rows[x].hash
    <3>1. /\ Writes(rows, rows', x)
          /\ rows'[x] = [rows[x] EXCEPT !.status = "ATTESTATION_RECEIVED",
                                        !.attested = TRUE]
      BY <1>0, <1>4, WritesAttested
    <3>2. QED
      BY <1>0, <3>1 DEF Rows
  <2>2. burnTx[w] = "mined" /\ t # "giza"
    BY <1>0, <1>a, <1>4 DEF AfterBurn, AfterSave, Follows
  <2>3. QED
    BY <1>4, <2>1, <2>2 DEF RowMove
<1>5. CASE s = "attestationFailed" /\ rows' = markAttestationPending(rows, x)
  <2>1. Writes(rows, rows', x) /\ SetsStatus(rows, rows', x, "ATTESTATION_PENDING")
    BY <1>0, <1>5, StatusOnly DEF markAttestationPending, Statuses
  <2>2. QED
    BY <1>0, <1>5, <2>1 DEF RowMove, SetsStatus, Follows
<1>6. CASE s = "complete" /\ rows' = markTransferCompleted(rows, x, w[2])
  <2>1. /\ Writes(rows, rows', x) /\ rows'[x].status = "TRANSFER_COMPLETED"
        /\ rows'[x].burnTx = rows[x].burnTx /\ rows'[x].hash = rows[x].hash
        /\ rows'[x].attested = rows[x].attested
    BY <1>0, <1>6, WritesCompleted
  <2>2. QED
    BY <1>6, <2>1 DEF RowMove
<1>7. CASE s = "mintFailed" /\ rows' = markMintPending(rows, x)
  <2>1. Writes(rows, rows', x) /\ SetsStatus(rows, rows', x, "MINT_PENDING")
    BY <1>0, <1>7, StatusOnly DEF markMintPending, Statuses
  <2>2. QED
    BY <1>0, <1>7, <2>1 DEF RowMove, SetsStatus, Follows
<1>8. QED
  BY <1>0, <1>1, <1>2, <1>3, <1>4, <1>5, <1>6, <1>7 DEF WritesRow

LEMMA BurnOnlyRow ==
    ASSUME RetryTypes, NEW w \in Runs, RunFits(w), BurnOnlyForm(w)
    PROVE  Writes(rows, rows', w[1]) /\ RowMove(w)
<1> DEFINE x == w[1]
           s == wf[w].stage
           t == wf'[w].stage
<1>0. /\ rows \in Rows(Txs) /\ x \in Txs /\ w[2] \in Nat /\ HashOf[x] \in Nat
      /\ Exists(rows, x) /\ BurnOnlyMove(w)
  BY RunShape, AmountsAreNat DEF RetryTypes, BurnOnlyForm
<1>1. t # "giza"
  BY <1>0, BurnOnlyStages DEF BurnOnlyMove
<1>2. CASE rows' = rows
  BY <1>0, <1>1, <1>2 DEF Writes, RowMove
<1>3. ASSUME NEW status \in Statuses \ {"TRANSFER_FAILED", "TRANSFER_COMPLETED"},
             s \notin {"giza", "mintFailed"}, rows' = [rows EXCEPT ![x].status = status]
      PROVE  Writes(rows, rows', x) /\ RowMove(w)
  <2>1. Writes(rows, rows', x) /\ SetsStatus(rows, rows', x, status)
    BY <1>0, <1>3, StatusOnly
  <2>2. QED
    BY <1>1, <1>3, <2>1 DEF RowMove, SetsStatus
<1>4. CASE s \in DOMAIN BurnOnlyNext /\ rows' = BurnOnlyUpdate(w, s)
  <2>0. s \notin {"giza", "mintFailed"}
    BY <1>4, BurnOnlyStages
  <2>1. CASE s = "confirm"
    <3>1. /\ Writes(rows, rows', x)
          /\ rows' = rows \/ /\ rows'[x].status = "BURN_CONFIRMED"
                             /\ rows'[x].burnTx = w[2]
                             /\ rows'[x].attested = rows[x].attested
      BY <1>0, <1>4, <2>1, WritesBurn DEF BurnOnlyUpdate
    <3>2. burnTx[w] = "mined"
      BY <2>1 DEF RunFits, AfterBurn
    <3>3. QED
      BY <1>1, <2>1, <3>1, <3>2 DEF RowMove
  <2>2. CASE s = "approval"
    BY <1>3, <1>4, <2>0, <2>2 DEF BurnOnlyUpdate, markApprovalPending, Statuses
  <2>3. CASE s = "saveBurn"
    BY <1>3, <1>4, <2>0, <2>3 DEF BurnOnlyUpdate, markApprovalConfirmed, Statuses
  <2>4. CASE s = "burnPending"
    BY <1>3, <1>4, <2>0, <2>4 DEF BurnOnlyUpdate, markBurnPending, Statuses
  <2>5. CASE s = "extracted"
    BY <1>3, <1>4, <2>0, <2>5 DEF BurnOnlyUpdate, markMessageExtracted, Statuses
  <2>6. QED
    BY <1>4, <2>1, <2>2, <2>3, <2>4, <2>5, BurnOnlyStages
<1>5. CASE s = "markFailed" /\ t = "done" /\ rows' = markTransferFailed(rows, x)
  <2>1. Writes(rows, rows', x) /\ SetsStatus(rows, rows', x, "TRANSFER_FAILED")
    BY <1>0, <1>5, StatusOnly DEF markTransferFailed, Statuses
  <2>2. QED
    BY <1>5, <2>1 DEF RowMove, SetsStatus
<1>6. QED
  BY <1>0, <1>2, <1>4, <1>5 DEF BurnOnlyMove

LEMMA RecordMoves ==
    ASSUME RetryTypes, NEW w \in Runs, RunFits(w), BurnOnlyForm(w)
    PROVE  /\ RecordMove(w) /\ burns' \in BurnRecords(Txs)
           /\ \A y \in Txs \ {w[1]} : burns'[y] = burns[y]
<1> DEFINE x == w[1]
           s == wf[w].stage
           t == wf'[w].stage
<1>0. /\ burns \in BurnRecords(Txs) /\ x \in Txs /\ w[2] \in Nat /\ HashOf[x] \in Nat
      /\ BurnOnlyMove(w)
  BY RunShape, AmountsAreNat DEF RetryTypes, BurnOnlyForm
<1>1. CASE burns' = burns /\ t # "markFailed"
  BY <1>0, <1>1 DEF RecordMove
<1>2. CASE s = "record" /\ t # "markFailed" /\ burns' = recordBurn(burns, x, w[2], HashOf[x])
  <2>1. burnTx[w] = "mined"
    BY <1>2 DEF RunFits, AfterBurn
  <2>2. burns' = burns \/ burns' = [burns EXCEPT ![x].status = "MESSAGE_EXTRACTED",
                                        ![x].burnTx = w[2], ![x].hash = HashOf[x]]
    BY <1>2 DEF recordBurn
  <2>3. CASE burns' = [burns EXCEPT ![x].status = "MESSAGE_EXTRACTED",
                                    ![x].burnTx = w[2], ![x].hash = HashOf[x]]
    <3>1. /\ burns'[x].burnTx = w[2] /\ burns'[x].failed = burns[x].failed
          /\ \A y \in Txs \ {x} : burns'[y] = burns[y]
      BY <1>0, <2>3 DEF BurnRecords
    <3>2. burns' \in BurnRecords(Txs)
      BY <1>0, <2>3 DEF BurnRecords
    <3>3. QED
      BY <1>2, <2>1, <3>1, <3>2 DEF RecordMove
  <2>4. QED
    BY <1>1, <1>2, <2>2, <2>3
<1>3. CASE s = "burnFailed" /\ burns' = recordBurnFailure(burns, x)
  BY <1>0, <1>3 DEF RecordMove, recordBurnFailure, BurnRecords
<1>4. QED
  BY <1>0, <1>1, <1>2, <1>3, BurnOnlyStages DEF BurnOnlyMove


-----------------------------------------------------------------------------
(* What a step of a run comes to.                                          *)

RunStep(w) ==
    LET x == w[1]
        s == wf[w].stage
        t == wf'[w].stage
    IN  /\ OnlyRun(w) /\ RunFits(w)'
        /\ UNCHANGED <<queueVars, remint, resume, reattest>>
        /\ s \notin {"none"} \union Over /\ t # "none"
        /\ burnTx[w] = "mined" => burnTx'[w] = "mined"
        /\ mintTx[w] = "mined" => mintTx'[w] = "mined"
        /\ s = "complete" => t \in {"giza", "mintFailed"}
        /\ s = "mintFailed" => t = "done"
        /\ RowMove(w) /\ RecordMove(w)
        /\ IF s = "giza" THEN t = "done" /\ invested'[x] = invested[x] + 1
                         ELSE invested'[x] = invested[x]

LEMMA CommonRun ==
    ASSUME RetryTypesHold, NEW w \in Runs, RunFits(w), CommonForm(w)
    PROVE  RunFits(w)'
<1> DEFINE s == wf[w].stage
           t == wf'[w].stage
<1>0. /\ s \in RetryStages /\ t \in WfStages /\ Follows(s, t) /\ Sends(w)
      /\ burnTx \in [Runs -> TxStates] /\ mintTx \in [Runs -> TxStates]
      /\ UNCHANGED <<remint, resume>>
      /\ Way[w[1]] = "burnOnly" => s \in BeforeBurn \union {"burning"}
  BY DEF RetryTypesHold, RetryTypes, RunRecords, CommonForm, WorkflowForm, Moves
<1> USE DEF BeforeBurn, AfterSave, AfterBurn, Over
<1>a. s \in WfStages
  BY <1>0, RunShape, RetryConstants DEF RunFits, WfStages
<1>1. s \notin {"none"} \union Over /\ resume[w].stage = "none"
  BY <1>0 DEF Follows, RunFits
<1>2. /\ Way[w[1]] = "queue" => t \in WfStages
      /\ Way[w[1]] = "burnOnly" => t \in OnlyStages
  BY <1>0 DEF Follows, OnlyStages
<1>3. /\ t = "burning" => s = "burn" /\ burnTx[w] = "none" /\ mintTx[w] = "none"
      /\ t # "burning" => burnTx'[w] = burnTx[w]
      /\ t = "minting" => s = "receive" /\ burnTx[w] = "mined"
      /\ t # "minting" => mintTx'[w] = mintTx[w]
      /\ t = "burning" => burnTx'[w] = "pending" /\ mintTx'[w] = mintTx[w]
  <2>1. t = "burning" => s = "burn"
    BY <1>a, <1>0, <1>1 DEF Follows, WfStages
  <2>2. t = "minting" => s = "receive"
    BY <1>a, <1>0, <1>1 DEF Follows, WfStages
  <2>3. QED
    BY <1>0, <2>1, <2>2 DEF RunFits, Sends
<1>4. t \in {"none", "approval"} \union BeforeBurn => s \in BeforeBurn
  BY <1>a, <1>0, <1>1 DEF Follows, WfStages
<1>5. t \in AfterBurn => s \in AfterBurn \/ t = "saveBurn"
  BY <1>a, <1>0, <1>1 DEF Follows, WfStages
<1>6. mintTx[w] # "none" => t \in {"minting", "complete", "giza", "mintFailed"} \union Over
  BY <1>0, <1>1 DEF Follows, RunFits
<1>7. t \in {"complete", "giza"} => mintTx'[w] = "mined"
  <2>1. t = "giza" => s = "complete"
    BY <1>a, <1>0, <1>1 DEF Follows, WfStages
  <2>2. QED
    BY <1>0, <2>1, <1>3 DEF Sends, RunFits
<1>8. t \in AfterBurn => burnTx'[w] = "mined"
  BY <1>0, <1>3, <1>5 DEF RunFits, Sends
<1>9. \A n \in 1 .. MaxResumes :
          /\ n > resume[w].calls => remint[w][n] = "none"
          /\ remint[w][n] # "none" => burnTx[w] = "mined" /\ t # "burning"
  BY <1>3 DEF RunFits
<1>10. burnTx'[w] = IF t = "burning" THEN "pending" ELSE burnTx[w]
  BY <1>3
<1>11. mintTx'[w] # "none" => t = "minting" \/ mintTx[w] # "none"
  BY <1>3
<1>12. QED
  <2> HIDE DEF s, t
  <2>1. (t \in {"none", "approval"} \union BeforeBurn => burnTx'[w] = "none")
        /\ (t = "burning" => burnTx'[w] # "none")
    BY <1>3, <1>4, <1>10 DEF RunFits, s
  <2>2. (mintTx'[w] # "none" => burnTx'[w] = "mined")
        /\ (mintTx'[w] # "none" =>
               t \in {"minting", "complete", "giza", "mintFailed"} \union Over)
    BY <1>3, <1>6, <1>10, <1>11 DEF RunFits
  <2>3. QED
    BY <1>0, <1>1, <1>2, <1>7, <1>8, <1>9, <1>10, <2>1, <2>2 DEF RunFits, t

LEMMA BurnOnlyRun ==
    ASSUME RetryTypesHold, NEW w \in Runs, RunFits(w), BurnOnlyForm(w)
    PROVE  /\ RunFits(w)'
           /\ wf[w].stage \notin {"none", "giza", "complete", "mintFailed"} \union Over
           /\ wf'[w].stage # "none"
<1> DEFINE s == wf[w].stage
           t == wf'[w].stage
<1>0. BurnOnlyMove(w) /\ Way[w[1]] = "burnOnly"
      /\ UNCHANGED <<burnTx, mintTx, remint, resume>>
  BY DEF BurnOnlyForm, chainState
<1>1. s \in {"approval", "saveBurn", "burnPending", "confirm", "extracted", "record",
             "burnFailed", "markFailed"}
  BY <1>0, BurnOnlyStages DEF BurnOnlyMove
<1>2. /\ t \in {"balance", "burnPending", "confirm", "extracted", "record", "burnFailed",
                "markFailed", "done"}
      /\ t = "balance" => s = "approval"
      /\ t \in {"burnPending", "confirm", "extracted", "record"} => s \in AfterBurn
  BY <1>0, BurnOnlyStages DEF BurnOnlyMove, AfterBurn
<1>3. mintTx[w] = "none" /\ resume[w].stage = "none"
  BY <1>1 DEF RunFits, Over
<1>4. RunFits(w)'
  BY <1>0, <1>1, <1>2, <1>3
     DEF RunFits, Over, AfterBurn, AfterSave, BeforeBurn, OnlyStages
<1>5. QED
  BY <1>1, <1>2, <1>4 DEF Over


LEMMA CommonSteps ==
    ASSUME RetryTypesHold, NEW w \in Runs, RunFits(w), CommonForm(w)
    PROVE  RunStep(w) /\ RetryTypesHold'
<1> DEFINE x == w[1]
           s == wf[w].stage
           t == wf'[w].stage
<1>1. /\ RetryTypes /\ x \in Txs /\ Moves(w) /\ Follows(s, t) /\ Remembers(w) /\ Sends(w)
      /\ UNCHANGED <<bridgeWallet, allowance, arbWallet, queueVars, burns, remint, resume,
                     reattest>>
  BY RunShape DEF RetryTypesHold, CommonForm, WorkflowForm
<1>s. s \in WfStages
  BY RunShape, RetryConstants DEF CommonForm, RunFits, WfStages
<1>2. Writes(rows, rows', x) /\ RowMove(w) /\ RunFits(w)'
  BY CommonRow, CommonRun, <1>1
<1>3. \A r \in Runs \ {w} : wf'[r] = wf[r] /\ burnTx'[r] = burnTx[r] /\ mintTx'[r] = mintTx[r]
  BY <1>1 DEF Moves, Sends, RetryTypes
<1>4. invested' \in [Txs -> Nat] /\ (\A y \in Txs \ {x} : invested'[y] = invested[y])
      /\ IF s = "giza" THEN invested'[x] = invested[x] + 1 ELSE invested'[x] = invested[x]
  <2>1. invested \in [Txs -> Nat]
    BY <1>1 DEF RetryTypes
  <2>2. CASE s = "giza"
    BY <1>1, <2>1, <2>2 DEF CommonForm
  <2>3. CASE s # "giza"
    BY <2>1, <2>3 DEF CommonForm
  <2>4. QED
    BY <2>2, <2>3
<1>5. OnlyRun(w)
  BY <1>1, <1>2, <1>3, <1>4 DEF OnlyRun, DepositKept, RunKept, Writes, queueVars
<1>6. /\ burnTx[w] = "mined" => burnTx'[w] = "mined"
      /\ mintTx[w] = "mined" => mintTx'[w] = "mined"
  <2>1. t = "burning" => s = "burn"
    BY <1>1, <1>s DEF Follows, WfStages, BeforeBurn, AfterSave
  <2>2. t = "burning" => burnTx[w] = "none"
    BY <2>1 DEF RunFits, BeforeBurn
  <2>3. t = "minting" => mintTx[w] # "mined"
    BY <1>1 DEF RunFits, Follows, Over
  <2>4. QED
    BY <1>1, <2>2, <2>3 DEF Sends
<1>7. RecordMove(w)
  <2>1. t # "markFailed"
    BY <1>1 DEF Moves, WfStages, BeforeBurn, AfterSave
  <2>2. QED
    BY <1>1, <2>1 DEF RecordMove
<1>8. RunStep(w)
  <2>1. s \notin {"none"} \union Over /\ t # "none"
    <3>1. s \notin {"none"} \union Over
      BY <1>1 DEF Follows, Over
    <3>2. QED
      BY <1>1, <1>s, <3>1 DEF Follows, WfStages, BeforeBurn, AfterSave, Over
  <2>2. /\ s = "complete" => t \in {"giza", "mintFailed"}
        /\ s = "mintFailed" => t = "done"
        /\ s = "giza" => t = "done"
    BY <1>1 DEF Follows
  <2>3. QED
    BY <1>1, <1>2, <1>4, <1>5, <1>6, <1>7, <2>1, <2>2 DEF RunStep
<1>9. wf'[w] \in RunRecords
  <2>1. wf[w] \in RunRecords /\ t \in RetryStages
    BY <1>1 DEF RetryTypes, Moves, RetryStages
  <2>2. wf'[w].pre \in Nat
    BY <1>1, <2>1 DEF RunRecords, Remembers, RetryTypes
  <2>3. wf'[w].minted \in Nat
    <3>1. CASE wf'[w].minted \in {wf[w].minted, 0}
      BY <2>1, <3>1 DEF RunRecords
    <3>2. CASE wf'[w].minted \notin {wf[w].minted, 0}
      <4>1. wf'[w].minted = arbWallet - wf[w].pre /\ wf[w].pre <= arbWallet
        BY <1>1, <3>2 DEF Remembers, RetryTypesHold, RetryBelow
      <4>2. QED
        BY <1>1, <2>1, <4>1 DEF RunRecords, RetryTypes
    <3>3. QED
      BY <3>1, <3>2
  <2>4. QED
    BY <1>1, <2>1, <2>2, <2>3 DEF Moves, RunRecords
<1>10. wf' \in [Runs -> RunRecords]
  BY <1>1, <1>9 DEF Moves, RetryTypes
<1>11. RetryBelow'
  <2>1. t \in {"receive", "minting"} => wf'[w].pre <= arbWallet'
    <3>1. t = "receive" => wf'[w].pre <= arbWallet'
      BY <1>1, <1>10 DEF Remembers, RetryTypes, RunRecords
    <3>2. t = "minting" => s = "receive"
      BY <1>1, <1>s DEF Follows, WfStages, BeforeBurn, AfterSave
    <3>3. t = "minting" => wf'[w].pre <= arbWallet'
      BY <1>1, <3>2 DEF Remembers, RetryTypesHold, RetryBelow
    <3>4. QED
      BY <3>1, <3>3
  <2>2. QED
    BY <1>1, <1>3, <2>1 DEF RetryTypesHold, RetryBelow
<1>12. /\ approveTx' \in [Runs -> TxStates] /\ burnTx' \in [Runs -> TxStates]
       /\ mintTx' \in [Runs -> TxStates] /\ principal' \in [Txs -> Nat]
  <2>1. /\ approveTx' \in [Runs -> TxStates] /\ burnTx' \in [Runs -> TxStates]
        /\ mintTx' \in [Runs -> TxStates]
    BY <1>1 DEF RetryTypes, Sends, TxStates
  <2>2. Invests(w) /\ wf[w].minted \in Nat
    BY <1>1 DEF CommonForm, WorkflowForm, RetryTypes, RunRecords
  <2>3. principal' \in [Txs -> Nat]
    BY <1>1, <2>2 DEF Invests, RetryTypes
  <2>4. QED
    BY <2>1, <2>3
<1>13. rows' \in Rows(Txs) /\ \A y \in Txs : Exists(rows, y)'
  BY <1>1, <1>2 DEF RetryTypes, Writes, Exists
<1>14. QED
  BY <1>1, <1>4, <1>8, <1>10, <1>11, <1>12, <1>13
     DEF RetryTypesHold, RetryTypes, queueVars

LEMMA BurnOnlySteps ==
    ASSUME RetryTypesHold, NEW w \in Runs, RunFits(w), BurnOnlyForm(w)
    PROVE  RunStep(w) /\ RetryTypesHold'
<1> DEFINE x == w[1]
           s == wf[w].stage
           t == wf'[w].stage
<1>1. /\ RetryTypes /\ x \in Txs /\ wf' = [wf EXCEPT ![w] = wf'[w]]
      /\ wf'[w] \in RunRecords
      /\ UNCHANGED <<bridgeWallet, allowance, arbWallet, approveTx, burnTx, mintTx, principal,
                     queueVars, remint, resume, reattest, invested>>
  BY RunShape DEF RetryTypesHold, BurnOnlyForm, chainState
<1>2. /\ Writes(rows, rows', x) /\ RowMove(w) /\ RunFits(w)' /\ RecordMove(w)
      /\ burns' \in BurnRecords(Txs) /\ \A y \in Txs \ {x} : burns'[y] = burns[y]
      /\ s \notin {"none", "giza", "complete", "mintFailed"} \union Over /\ t # "none"
  BY <1>1, BurnOnlyRow, BurnOnlyRun, RecordMoves
<1>3. wf' \in [Runs -> RunRecords] /\ \A r \in Runs \ {w} : wf'[r] = wf[r]
  BY <1>1 DEF RetryTypes
<1>4. OnlyRun(w)
  BY <1>1, <1>2, <1>3 DEF OnlyRun, DepositKept, RunKept, Writes, queueVars
<1>5. RunStep(w)
  BY <1>1, <1>2, <1>4 DEF RunStep
<1>6. rows' \in Rows(Txs) /\ \A y \in Txs : Exists(rows, y)'
  BY <1>1, <1>2 DEF RetryTypes, Writes, Exists
<1>7. RetryBelow'
  <2>1. t \notin {"receive", "minting"}
    BY BurnOnlyStages DEF BurnOnlyForm, BurnOnlyMove
  <2>2. QED
    BY <1>1, <1>3, <2>1 DEF RetryTypesHold, RetryBelow
<1>8. QED
  BY <1>1, <1>2, <1>3, <1>5, <1>6, <1>7 DEF RetryTypesHold, RetryTypes, queueVars

LEMMA KeptRunFits ==
    ASSUME NEW w \in Runs, RunFits(w), RunKept(w)
    PROVE  RunFits(w)'
  BY DEF RunFits, RunKept, Received

\* The runs of a job: a run that began is the first one unless the job has stalled.
LEMMA OneRunUnlessStalled ==
    ASSUME RetryTypes, NEW x \in Txs, JobFits(x), NEW k \in 1 .. MaxRuns,
           wf[<<x, k>>].stage # "none", stalls[x] = 0
    PROVE  k = 1
<1>1. Way[x] \in {"queue", "burnOnly"} /\ delivery[x] \in Nat
      /\ job[x] \in {"none", "waiting", "active", "removed", "failed"} /\ k \in Nat /\ 1 <= k
  BY RetryConstants DEF RetryTypes
<1>2. delivery[x] <= 1
  BY <1>1 DEF JobFits
<1>3. Way[x] = "queue" => k <= delivery[x]
  BY <1>1 DEF JobFits
<1>4. QED
  BY <1>1, <1>2, <1>3 DEF JobFits


\* What a step may do to a final status (the body of FinalUnlessStalled).
FinalKept(x) ==
    stalls[x] = 0 =>
        /\ rows[x].status = "TRANSFER_FAILED" => rows'[x].status = "TRANSFER_FAILED"
        /\ rows[x].status = "TRANSFER_COMPLETED" =>
               rows'[x].status \in {"TRANSFER_COMPLETED", "MINT_PENDING"}

LEMMA RunStepFits ==
    ASSUME RetryInv, NEW w \in Runs, RunStep(w)
    PROVE  Fits(w[1])' /\ FinalKept(w[1])
<1> DEFINE x == w[1]
           k == w[2]
           s == wf[w].stage
           t == wf'[w].stage
           r == rows[x]
           q == rows'[x]
<1>0. /\ x \in Txs /\ k \in 1 .. MaxRuns /\ w = <<x, k>> /\ Fits(x) /\ RetryTypes
      /\ k # 0 /\ Way[x] \in {"queue", "burnOnly"}
  BY RunShape, RetryConstants DEF RetryInv, RetryTypesHold
<1>1. /\ OnlyRun(w) /\ RunFits(w) /\ RunFits(w)' /\ JobFits(x) /\ RowFits(x) /\ SoloFits(x)
      /\ UNCHANGED <<job, delivery, stalls, remint, resume, reattest>>
      /\ s \notin {"none"} \union Over /\ t # "none"
      /\ RowMove(w) /\ RecordMove(w)
  BY <1>0 DEF RunStep, Fits, queueVars
<1>2. \A j \in 1 .. MaxRuns : j # k => RunKept(<<x, j>>)
  BY <1>0, <1>1, RunIs DEF OnlyRun
<1>3. \A j \in 1 .. MaxRuns : RunFits(<<x, j>>)'
  <2>1. ASSUME NEW j \in 1 .. MaxRuns, j # k PROVE RunFits(<<x, j>>)'
    BY <1>0, <1>2, <2>1, KeptRunFits, RunIs DEF Fits
  <2>2. QED
    BY <1>0, <1>1, <2>1
<1>4. JobFits(x)'
  <2>1. /\ Way[x] = "burnOnly" => k = 1
        /\ Way[x] = "queue" => job[x] = "active" /\ ~(k > delivery[x]) /\ ~(k < delivery[x])
    BY <1>0, <1>1 DEF JobFits
  <2>2. \A j \in 1 .. MaxRuns :
            /\ j # k => wf'[<<x, j>>].stage = wf[<<x, j>>].stage
            /\ j = k => wf'[<<x, j>>].stage = t
    BY <1>0, <1>2 DEF RunKept
  <2>3. QED
    BY <1>0, <1>1, <2>1, <2>2 DEF JobFits
<1>5. \A j \in 1 .. MaxRuns : /\ burnTx[<<x, j>>] = "mined" => burnTx'[<<x, j>>] = "mined"
                              /\ Received(<<x, j>>) => Received(<<x, j>>)'
  <2>1. burnTx[w] = "mined" => burnTx'[w] = "mined"
    BY DEF RunStep
  <2>2. Received(w) => Received(w)'
    BY DEF RunStep, Received
  <2>3. QED
    BY <1>0, <1>2, <2>1, <2>2 DEF RunKept, Received
<1>6. /\ MinedFor(burnTx, x) => MinedFor(burnTx, x)'
      /\ ReceivedFor(x) # {} => ReceivedFor(x)' # {}
      /\ burnTx[w] = "mined" => Names(k, x)' /\ MinedFor(burnTx, x)'
      /\ \A col : Names(col, x) => Names(col, x)'
  BY <1>0, <1>5 DEF MinedFor, ReceivedFor, Names
<1>7. s \in {"giza", "complete"} => ReceivedFor(x)' # {}
  <2>1. s \in {"giza", "complete"} => Received(w)
    BY <1>1 DEF RunFits, Received
  <2>2. QED
    BY <1>0, <1>5, <2>1 DEF ReceivedFor
<1>8. /\ s = "giza" => t = "done" /\ invested'[x] = invested[x] + 1
      /\ s # "giza" => invested'[x] = invested[x]
      /\ s = "complete" => t \in {"giza", "mintFailed"}
      /\ s = "mintFailed" => t = "done"
  BY DEF RunStep
<1>9. RowFits(x)'
  <2>1. Names(rows[x].burnTx, x)' /\ (q.hash # NoHash => q.burnTx # 0)
    BY <1>0, <1>1, <1>6 DEF RowFits, RowMove, Names
  <2>2. q.attested \/ reattest'[x] = "polling" => MinedFor(burnTx, x)'
    BY <1>1, <1>6 DEF RowFits, RowMove
  <2>3. q.status = "TRANSFER_COMPLETED" \/ invested'[x] # 0 => ReceivedFor(x)' # {}
    <3>1. q.status = "TRANSFER_COMPLETED" => r.status = "TRANSFER_COMPLETED" \/ s = "complete"
      BY <1>1 DEF RowMove
    <3>2. QED
      BY <1>1, <1>6, <1>7, <1>8, <3>1 DEF RowFits
  <2>4. Names(burns[x].burnTx, x)'
    BY <1>0, <1>1, <1>6 DEF RowFits, RecordMove, Names
  <2>5. (burns[x].failed \/ t = "markFailed") => burns'[x].failed
    BY <1>1 DEF RecordMove
  <2>6. Way[x] = "burnOnly" => w = <<x, 1>>
    BY <1>0, <1>1 DEF JobFits
  <2>7. Way[x] = "burnOnly" /\ q.status = "TRANSFER_FAILED" => burns'[x].failed
    <3>1. Way[x] = "burnOnly" /\ q.status = "TRANSFER_FAILED" =>
              r.status = "TRANSFER_FAILED" \/ s = "markFailed"
      BY <1>1 DEF RowMove
    <3>2. QED
      BY <1>1, <2>5, <2>6, <3>1 DEF RowFits
  <2>8. Way[x] = "burnOnly" /\ wf'[<<x, 1>>].stage = "markFailed" => burns'[x].failed
    BY <2>5, <2>6
  <2>9. QED
    BY <2>1, <2>2, <2>3, <2>4, <2>7, <2>8 DEF RowFits
<1>10. ASSUME stalls[x] = 0
       PROVE  /\ w = <<x, 1>> /\ reattest[x] # "polling" /\ resume[w].stage = "none"
              /\ r.status # "TRANSFER_FAILED" /\ invested[x] = 0
              /\ r.status = "TRANSFER_COMPLETED" => s \in {"giza", "mintFailed"}
              /\ s = "giza" => r.status = "TRANSFER_COMPLETED"
  <2>1. w = <<x, 1>>
    BY <1>0, <1>1, <1>10, OneRunUnlessStalled
  <2>2. resume[w].stage = "none"
    BY <1>1 DEF RunFits
  <2>3. QED
    BY <1>1, <1>10, <2>1, <2>2 DEF SoloFits
<1>11. ASSUME stalls[x] = 0
       PROVE  /\ q.status = "TRANSFER_FAILED" => t = "done"
              /\ q.status = "TRANSFER_COMPLETED" => t \in Over \union {"giza", "mintFailed"}
              /\ t = "giza" => q.status = "TRANSFER_COMPLETED"
              /\ s = "giza" => q.status = "TRANSFER_COMPLETED"
              /\ r.status = "TRANSFER_COMPLETED" =>
                     q.status \in {"TRANSFER_COMPLETED", "MINT_PENDING"}
  BY <1>1, <1>8, <1>10, <1>11 DEF RowMove, Over
<1>12. SoloFits(x)'
  <2>1. SUFFICES ASSUME stalls[x] = 0 PROVE SoloFits(x)'
    BY <1>1 DEF SoloFits
  <2>2. invested'[x] \in {0, 1} /\ (invested'[x] # 0 => s = "giza" /\ t \in Over)
    BY <1>8, <1>10, <2>1 DEF Over
  <2>3. QED
    BY <1>1, <1>10, <1>11, <2>1, <2>2 DEF SoloFits, Over
<1>13. FinalKept(x)
  BY <1>10, <1>11 DEF FinalKept
<1>14. QED
  BY <1>3, <1>4, <1>9, <1>12, <1>13 DEF Fits


-----------------------------------------------------------------------------
(* The queue, and the calls that begin something.                          *)

\* What RowFits looks at besides the row and the record of deposit x.
RowsAlone(x) ==
    /\ rows'[x] = rows[x] /\ burns'[x] = burns[x] /\ invested'[x] = invested[x]
    /\ UNCHANGED <<burnTx, mintTx, remint>>

\* A run that begins: run w of its deposit, which was not there.
LEMMA RunBegins ==
    ASSUME RetryInv, NEW w \in Runs, wf[w].stage = "none",
           \A r \in Runs \ {w} : wf'[r] = wf[r],
           Way[w[1]] = "queue" => wf'[w].stage = "balance",
           Way[w[1]] = "burnOnly" => wf'[w].stage = "approval",
           RowsAlone(w[1]), UNCHANGED <<resume, reattest, stalls>>,
           stalls[w[1]] = 0 => w[2] = 1
    PROVE  /\ \A j \in 1 .. MaxRuns : RunFits(<<w[1], j>>)'
           /\ RowFits(w[1])' /\ SoloFits(w[1])'
<1> DEFINE x == w[1]
           t == wf'[w].stage
<1> USE DEF RowsAlone
<1>0. /\ x \in Txs /\ w[2] \in 1 .. MaxRuns /\ w = <<x, w[2]>> /\ Fits(x)
      /\ Way[x] \in {"queue", "burnOnly"} /\ t \in {"balance", "approval"}
  BY RunShape, RetryConstants DEF RetryInv
<1>1. burnTx[w] = "none" /\ mintTx[w] = "none" /\ resume[w].stage = "none"
      /\ \A n \in 1 .. MaxResumes : remint[w][n] = "none"
  BY <1>0 DEF Fits, RunFits, Over
<1>2. RunFits(w)'
  BY <1>0, <1>1 DEF Fits, RunFits, WfStages, OnlyStages, BeforeBurn, AfterBurn, AfterSave, Over
<1>3. \A j \in 1 .. MaxRuns : RunFits(<<x, j>>)'
  <2>1. ASSUME NEW j \in 1 .. MaxRuns, j # w[2] PROVE RunFits(<<x, j>>)'
    <3>1. <<x, j>> \in Runs /\ <<x, j>> # w
      BY <1>0, <2>1, RunIs
    <3>2. QED
      BY <1>0, <3>1, KeptRunFits DEF Fits, RunKept
  <2>2. QED
    BY <1>0, <1>2, <2>1
<1>4. wf'[<<x, 1>>].stage \in {wf[<<x, 1>>].stage, t}
  BY <1>0, RunIs, RetryConstants
<1>5. RowFits(x)'
  <2>1. ReceivedFor(x)' = ReceivedFor(x) /\ MinedFor(burnTx, x)' = MinedFor(burnTx, x)
    BY DEF ReceivedFor, Received, MinedFor
  <2>2. QED
    BY <1>0, <1>4, <2>1 DEF Fits, RowFits, Names
<1>6. SoloFits(x)'
  <2>1. SUFFICES ASSUME stalls[x] = 0 PROVE SoloFits(x)'
    BY DEF SoloFits
  <2>2. w = <<x, 1>>
    BY <1>0, <2>1
  <2>3. QED
    BY <1>0, <1>1, <2>1, <2>2 DEF Fits, SoloFits, Over
<1>7. QED
  BY <1>3, <1>5, <1>6

LEMMA addBurnJobFits ==
    ASSUME RetryInv, NEW x \in Txs, addBurnJob(x)
    PROVE  RetryTypesHold' /\ OnlyRun(<<x, 1>>) /\ Fits(x)' /\ FinalKept(x)
<1>1. /\ UNCHANGED <<wf, delivery, stalls, rows, chainState, principal, burns, remint, resume,
                     reattest, invested>>
      /\ job[x] = "none" /\ Way[x] = "queue" /\ job' = [job EXCEPT ![x] = "waiting"]
  BY DEF addBurnJob, OnlyJob
<1>2. /\ RetryTypes /\ RetryBelow /\ Fits(x) /\ <<x, 1>>[1] = x
  BY DEF RetryInv, RetryTypesHold
<1>3. RetryTypesHold'
  BY <1>1, <1>2 DEF RetryTypesHold, RetryTypes, RetryBelow, chainState, Exists
<1>4. OnlyRun(<<x, 1>>)
  BY <1>1, <1>2 DEF RetryTypes, OnlyRun, DepositKept, RunKept, chainState
<1>5. \A k \in 1 .. MaxRuns : RunFits(<<x, k>>)'
  BY <1>1, <1>2, RunIs, KeptRunFits DEF Fits, RunKept, chainState
<1>6. JobFits(x)'
  <2>1. job'[x] = "waiting" /\ MaxStalls \in Nat
    BY <1>1, <1>2, RetryConstants DEF RetryTypes
  <2>2. QED
    BY <1>1, <1>2, <2>1 DEF Fits, JobFits
<1>7. RowFits(x)' /\ SoloFits(x)'
  <2>1. ReceivedFor(x)' = ReceivedFor(x) /\ MinedFor(burnTx, x)' = MinedFor(burnTx, x)
    BY <1>1 DEF ReceivedFor, Received, MinedFor, chainState
  <2>2. QED
    BY <1>1, <1>2, <2>1 DEF Fits, RowFits, SoloFits, Names, chainState
<1>8. QED
  BY <1>1, <1>3, <1>4, <1>5, <1>6, <1>7 DEF Fits, FinalKept

LEMMA processJobFits ==
    ASSUME RetryInv, NEW x \in Txs, processJob(x)
    PROVE  /\ RetryTypesHold' /\ Fits(x)' /\ FinalKept(x)
           /\ <<x, delivery[x] + 1>> \in Runs /\ OnlyRun(<<x, delivery[x] + 1>>)
<1> DEFINE k == delivery[x] + 1
           w == <<x, k>>
<1>1. /\ UNCHANGED <<stalls, rows, chainState, principal, burns, remint, resume,
                     reattest, invested>>
      /\ job[x] = "waiting" /\ job' = [job EXCEPT ![x] = "active"]
      /\ delivery' = [delivery EXCEPT ![x] = k] /\ wf' = [wf EXCEPT ![w] = Started]
  BY DEF processJob, OnlyJob
<1>2. /\ RetryTypes /\ RetryBelow /\ Fits(x) /\ w[1] = x /\ w[2] = k
      /\ delivery[x] \in Nat /\ stalls[x] \in Nat
  BY DEF RetryInv, RetryTypesHold, RetryTypes
<1>3. /\ Way[x] = "queue" /\ delivery[x] = stalls[x] /\ stalls[x] <= MaxStalls
      /\ k \in 1 .. MaxRuns /\ wf[w].stage = "none"
  BY <1>1, <1>2, RetryConstants DEF Fits, JobFits
<1>4. w \in Runs
  BY <1>3, RunIs
<1>5. /\ wf'[w] = Started /\ Started.stage = "balance" /\ Started \in RunRecords
      /\ wf' \in [Runs -> RunRecords] /\ \A r \in Runs \ {w} : wf'[r] = wf[r]
  <2>1. Started.stage = "balance" /\ Started \in RunRecords
    BY DEF Started, NotStarted, RunRecords, RetryStages, WfStages, BeforeBurn
  <2>2. wf \in [Runs -> RunRecords]
    BY <1>2 DEF RetryTypes
  <2>3. QED
    BY <1>1, <1>4, <2>1, <2>2
<1>6. /\ job'[x] = "active" /\ delivery'[x] = k /\ delivery' \in [Txs -> Nat]
      /\ job' \in [Txs -> {"none", "waiting", "active", "removed", "failed"}]
      /\ \A y \in Txs \ {x} : job'[y] = job[y] /\ delivery'[y] = delivery[y]
  BY <1>1, <1>2 DEF RetryTypes
<1>7. RetryTypesHold'
  <2>1. RetryBelow'
    BY <1>1, <1>2, <1>5 DEF RetryBelow, chainState
  <2>2. QED
    BY <1>1, <1>2, <1>5, <1>6, <2>1 DEF RetryTypesHold, RetryTypes, chainState, Exists
<1>8. OnlyRun(w)
  BY <1>1, <1>2, <1>5, <1>6 DEF OnlyRun, DepositKept, RunKept, chainState
<1>9. (\A j \in 1 .. MaxRuns : RunFits(<<x, j>>)') /\ RowFits(x)' /\ SoloFits(x)'
  <2>1. RowsAlone(w[1]) /\ (stalls[w[1]] = 0 => w[2] = 1)
    BY <1>1, <1>2, <1>3 DEF RowsAlone, chainState
  <2>2. /\ Way[w[1]] = "queue" => wf'[w].stage = "balance"
        /\ Way[w[1]] = "burnOnly" => wf'[w].stage = "approval"
    BY <1>2, <1>3, <1>5
  <2> HIDE DEF w
  <2>3. QED
    BY <1>1, <1>2, <1>3, <1>4, <1>5, <2>1, <2>2, RunBegins
<1>10. JobFits(x)'
  <2>1. \A j \in 1 .. MaxRuns :
            /\ j # k => wf'[<<x, j>>].stage = wf[<<x, j>>].stage
            /\ j = k => wf'[<<x, j>>].stage = "balance"
    BY <1>5, RunIs
  <2>2. \A j \in 1 .. MaxRuns : (j > k => j > delivery[x]) /\ (j > delivery[x] => j >= k)
    BY <1>2, <1>3
  <2>3. \A j \in 1 .. MaxRuns : wf'[<<x, j>>].stage = "none" <=> j > k
    BY <1>2, <1>3, <2>1, <2>2 DEF Fits, JobFits
  <2>4. \A j \in 1 .. MaxRuns : j < k => wf'[<<x, j>>].stage \in {"none"} \union Over
    BY <1>1, <1>2, <1>3, <2>1 DEF Fits, JobFits
  <2>5. QED
    BY <1>1, <1>2, <1>3, <1>6, <2>3, <2>4 DEF JobFits
<1>11. QED
  BY <1>1, <1>4, <1>7, <1>8, <1>9, <1>10 DEF Fits, FinalKept


\* A job that leaves its slot takes its run with it.
LEMMA jobLeavesFits ==
    ASSUME RetryInv, NEW x \in Txs, jobReturns(x) \/ jobStalls(x)
    PROVE  RetryTypesHold' /\ OnlyRun(<<x, 1>>) /\ Fits(x)' /\ FinalKept(x)
<1>1. /\ UNCHANGED <<wf, delivery, rows, chainState, principal, burns, remint, resume,
                     reattest, invested>>
      /\ job[x] = "active" /\ wf[<<x, delivery[x]>>].stage \in Over
      /\ \/ job' = [job EXCEPT ![x] = "removed"] /\ stalls' = stalls
         \/ /\ stalls[x] < MaxStalls /\ job' = [job EXCEPT ![x] = "waiting"]
            /\ stalls' = [stalls EXCEPT ![x] = @ + 1]
         \/ /\ ~(stalls[x] < MaxStalls) /\ job' = [job EXCEPT ![x] = "failed"]
            /\ stalls' = [stalls EXCEPT ![x] = @ + 1]
  BY DEF jobReturns, jobStalls, OnlyJob, At, Over
<1>2. /\ RetryTypes /\ RetryBelow /\ Fits(x) /\ <<x, 1>>[1] = x /\ MaxStalls \in Nat
      /\ delivery[x] \in Nat /\ stalls[x] \in Nat /\ stalls \in [Txs -> Nat]
      /\ job \in [Txs -> {"none", "waiting", "active", "removed", "failed"}]
  BY RetryConstants DEF RetryInv, RetryTypesHold, RetryTypes
<1>3. /\ job' \in [Txs -> {"none", "waiting", "active", "removed", "failed"}]
      /\ stalls' \in [Txs -> Nat]
      /\ \A y \in Txs \ {x} : job'[y] = job[y] /\ stalls'[y] = stalls[y]
      /\ \/ job'[x] = "removed" /\ stalls'[x] = stalls[x]
         \/ stalls[x] < MaxStalls /\ job'[x] = "waiting" /\ stalls'[x] = stalls[x] + 1
         \/ ~(stalls[x] < MaxStalls) /\ job'[x] = "failed" /\ stalls'[x] = stalls[x] + 1
  BY <1>1, <1>2
<1>4. RetryTypesHold'
  <2>1. RetryBelow'
    BY <1>1, <1>2 DEF RetryBelow, chainState
  <2>2. QED
    BY <1>1, <1>2, <1>3, <2>1 DEF RetryTypesHold, RetryTypes, chainState, Exists
<1>5. OnlyRun(<<x, 1>>)
  BY <1>1, <1>2, <1>3 DEF OnlyRun, DepositKept, RunKept, chainState
<1>6. \A k \in 1 .. MaxRuns : RunFits(<<x, k>>)'
  BY <1>1, <1>2, RunIs, KeptRunFits DEF Fits, RunKept, chainState
<1>7. JobFits(x)'
  <2>1. /\ Way[x] # "burnOnly" /\ delivery[x] = stalls[x] + 1 /\ stalls[x] <= MaxStalls
        /\ \A k \in 1 .. MaxRuns :
               /\ wf[<<x, k>>].stage = "none" <=> k > delivery[x]
               /\ k < delivery[x] => wf[<<x, k>>].stage \in {"none"} \union Over
    BY <1>1, <1>2, RetryConstants DEF Fits, JobFits
  <2>2. \A k \in 1 .. MaxRuns : wf[<<x, k>>].stage \in {"none"} \union Over
    BY <1>1, <1>2, <2>1
  <2>3. QED
    BY <1>1, <1>2, <1>3, <2>1, <2>2 DEF JobFits
<1>8. RowFits(x)'
  <2>1. ReceivedFor(x)' = ReceivedFor(x) /\ MinedFor(burnTx, x)' = MinedFor(burnTx, x)
    BY <1>1 DEF ReceivedFor, Received, MinedFor, chainState
  <2>2. QED
    BY <1>1, <1>2, <2>1 DEF Fits, RowFits, Names, chainState
<1>9. SoloFits(x)'
  <2>1. stalls'[x] = 0 => stalls[x] = 0
    BY <1>2, <1>3
  <2>2. QED
    BY <1>1, <1>2, <2>1 DEF Fits, SoloFits
<1>10. QED
  BY <1>1, <1>4, <1>5, <1>6, <1>7, <1>8, <1>9 DEF Fits, FinalKept

LEMMA executeBurnOnlyFits ==
    ASSUME RetryInv, NEW x \in Txs, executeBurnOnly(x)
    PROVE  RetryTypesHold' /\ OnlyRun(<<x, 1>>) /\ Fits(x)' /\ FinalKept(x)
<1> DEFINE w == <<x, 1>>
           begun == [NotStarted EXCEPT !.stage = "approval"]
<1>1. /\ UNCHANGED <<job, delivery, stalls, rows, chainState, principal, burns, remint,
                     resume, reattest, invested>>
      /\ Way[x] = "burnOnly" /\ wf[w].stage = "none" /\ wf' = [wf EXCEPT ![w] = begun]
  BY DEF executeBurnOnly, At, retryVars, queueVars
<1>2. RetryTypes /\ RetryBelow /\ Fits(x) /\ w[1] = x /\ w[2] = 1 /\ w \in Runs
  BY RunIs, RetryConstants DEF RetryInv, RetryTypesHold
<1>3. /\ wf'[w] = begun /\ begun.stage = "approval"
      /\ wf' \in [Runs -> RunRecords] /\ \A r \in Runs \ {w} : wf'[r] = wf[r]
  <2>1. begun.stage = "approval" /\ begun \in RunRecords
    BY DEF NotStarted, RunRecords, RetryStages, OnlyStages
  <2>2. wf \in [Runs -> RunRecords]
    BY <1>2 DEF RetryTypes
  <2>3. QED
    BY <1>1, <1>2, <2>1, <2>2
<1> HIDE DEF begun
<1>4. RetryTypesHold'
  <2>1. RetryBelow'
    BY <1>1, <1>2, <1>3 DEF RetryBelow, chainState
  <2>2. QED
    BY <1>1, <1>2, <1>3, <2>1 DEF RetryTypesHold, RetryTypes, chainState, Exists
<1>5. OnlyRun(w)
  BY <1>1, <1>2, <1>3 DEF OnlyRun, DepositKept, RunKept, chainState
<1>6. (\A j \in 1 .. MaxRuns : RunFits(<<x, j>>)') /\ RowFits(x)' /\ SoloFits(x)'
  <2>1. RowsAlone(w[1])
    BY <1>1, <1>2 DEF RowsAlone, chainState
  <2>2. /\ Way[w[1]] = "queue" => wf'[w].stage = "balance"
        /\ Way[w[1]] = "burnOnly" => wf'[w].stage = "approval"
    BY <1>1, <1>2, <1>3
  <2> HIDE DEF w
  <2>3. QED
    BY <1>1, <1>2, <1>3, <2>1, <2>2, RunBegins
<1>7. JobFits(x)'
  <2>1. \A j \in 1 .. MaxRuns : j # 1 => wf'[<<x, j>>].stage = wf[<<x, j>>].stage
    BY <1>3, RunIs
  <2>2. QED
    BY <1>1, <1>2, <2>1 DEF Fits, JobFits
<1>8. QED
  BY <1>1, <1>4, <1>5, <1>6, <1>7 DEF Fits, FinalKept

-----------------------------------------------------------------------------
(* resumeAttestationPolling.                                               *)

LEMMA PollingKeeps ==
    ASSUME RetryInv, NEW x \in Txs, OnlyReattest,
           NEW p \in {"none", "polling", "done"}, reattest' = [reattest EXCEPT ![x] = p],
           Writes(rows, rows', x)
    PROVE  /\ RetryTypesHold' /\ OnlyRun(<<x, 1>>) /\ reattest'[x] = p
           /\ (\A k \in 1 .. MaxRuns : RunFits(<<x, k>>)') /\ JobFits(x)'
           /\ ReceivedFor(x)' = ReceivedFor(x)
           /\ MinedFor(burnTx, x)' = MinedFor(burnTx, x)
<1>1. /\ UNCHANGED <<job, delivery, stalls, chainState, wf, principal, burns, remint, resume,
                     invested>>
      /\ RetryTypes /\ RetryBelow /\ Fits(x) /\ <<x, 1>>[1] = x
  BY DEF RetryInv, RetryTypesHold, OnlyReattest, queueVars
<1>2. /\ reattest'[x] = p /\ reattest' \in [Txs -> {"none", "polling", "done"}]
      /\ \A y \in Txs \ {x} : reattest'[y] = reattest[y]
  BY <1>1 DEF RetryTypes
<1>3. rows' \in Rows(Txs) /\ (\A y \in Txs : Exists(rows, y)')
      /\ \A y \in Txs \ {x} : rows'[y] = rows[y]
  BY <1>1 DEF Writes, RetryTypes, Exists
<1>4. RetryTypesHold'
  <2>1. RetryBelow'
    BY <1>1 DEF RetryBelow, chainState
  <2>2. QED
    BY <1>1, <1>2, <1>3, <2>1 DEF RetryTypesHold, RetryTypes, chainState
<1>5. OnlyRun(<<x, 1>>)
  BY <1>1, <1>2, <1>3 DEF OnlyRun, DepositKept, RunKept, chainState
<1>6. (\A k \in 1 .. MaxRuns : RunFits(<<x, k>>)') /\ JobFits(x)'
  BY <1>1, RunIs, KeptRunFits DEF Fits, RunKept, JobFits, chainState
<1>7. ReceivedFor(x)' = ReceivedFor(x) /\ MinedFor(burnTx, x)' = MinedFor(burnTx, x)
  BY <1>1 DEF ReceivedFor, Received, MinedFor, chainState
<1>8. QED
  BY <1>2, <1>4, <1>5, <1>6, <1>7

LEMMA resumePollingFits ==
    ASSUME RetryInv, NEW x \in Txs, resumeAttestationPolling(x)
    PROVE  RetryTypesHold' /\ OnlyRun(<<x, 1>>) /\ Fits(x)' /\ FinalKept(x)
<1>1. /\ rows' = rows /\ OnlyReattest /\ reattest' = [reattest EXCEPT ![x] = "polling"]
      /\ rows[x].status \in {"ATTESTATION_PENDING", "MESSAGE_EXTRACTED"}
      /\ rows[x].hash # NoHash
      /\ \A k \in 1 .. MaxRuns : wf[<<x, k>>].stage \in {"none"} \union Over
      /\ UNCHANGED <<stalls, wf, burnTx, burns, resume, invested>>
  BY DEF resumeAttestationPolling, OnlyReattest, chainState, queueVars, Over
<1>2. /\ RetryTypes /\ Fits(x) /\ Writes(rows, rows', x) /\ 1 \in 1 .. MaxRuns
  BY <1>1, RetryConstants DEF RetryInv, RetryTypesHold, RetryTypes, Writes
<1>3. PICK p \in {"none", "polling", "done"} : p = "polling"
  OBVIOUS
<1>4. /\ RetryTypesHold' /\ OnlyRun(<<x, 1>>) /\ reattest'[x] = "polling"
      /\ (\A k \in 1 .. MaxRuns : RunFits(<<x, k>>)') /\ JobFits(x)'
      /\ ReceivedFor(x)' = ReceivedFor(x) /\ MinedFor(burnTx, x)' = MinedFor(burnTx, x)
  BY <1>1, <1>2, <1>3, PollingKeeps
<1>5. /\ rows[x].burnTx \in 1 .. MaxRuns /\ burnTx[<<x, rows[x].burnTx>>] = "mined"
  BY <1>1, <1>2 DEF Fits, RowFits, Names
<1>6. RowFits(x)'
  BY <1>1, <1>2, <1>4, <1>5 DEF Fits, RowFits, Names, MinedFor
<1>7. stalls[x] = 0 => wf[<<x, 1>>].stage \in Over
  <2>1. SUFFICES ASSUME stalls[x] = 0, wf[<<x, 1>>].stage = "none" PROVE FALSE
    BY <1>1, <1>2
  <2>2. wf[<<x, rows[x].burnTx>>].stage # "none"
    BY <1>2, <1>5 DEF Fits, RunFits
  <2>3. QED
    BY <1>2, <1>5, <2>1, <2>2, OneRunUnlessStalled DEF Fits
<1>8. SoloFits(x)'
  BY <1>1, <1>2, <1>4, <1>7 DEF Fits, SoloFits
<1>9. QED
  BY <1>1, <1>4, <1>6, <1>8 DEF Fits, FinalKept

LEMMA reattestedFits ==
    ASSUME RetryInv, NEW x \in Txs, reattested(x)
    PROVE  RetryTypesHold' /\ OnlyRun(<<x, 1>>) /\ Fits(x)' /\ FinalKept(x)
<1>1. /\ OnlyReattest /\ reattest' = [reattest EXCEPT ![x] = "done"]
      /\ reattest[x] = "polling" /\ rows' \in {rows, updateAttestationReceived(rows, x)}
      /\ UNCHANGED <<stalls, wf, burnTx, burns, resume, invested>>
  BY DEF reattested, OnlyReattest, chainState, queueVars
<1>2. /\ RetryTypes /\ Fits(x) /\ rows \in Rows(Txs) /\ Exists(rows, x)
  BY DEF RetryInv, RetryTypesHold, RetryTypes
<1>3. /\ Writes(rows, rows', x) /\ rows'[x].burnTx = rows[x].burnTx
      /\ rows'[x].hash = rows[x].hash
      /\ rows' = rows \/ rows'[x].status = "ATTESTATION_RECEIVED"
  <2>1. CASE rows' = rows
    BY <1>2, <2>1 DEF Writes
  <2>2. CASE rows' = updateAttestationReceived(rows, x)
    <3>1. /\ Writes(rows, rows', x)
          /\ rows'[x] = [rows[x] EXCEPT !.status = "ATTESTATION_RECEIVED",
                                        !.attested = TRUE]
      BY <1>2, <2>2, WritesAttested
    <3>2. QED
      BY <1>2, <3>1 DEF Rows
  <2>3. QED
    BY <1>1, <2>1, <2>2
<1>4. PICK p \in {"none", "polling", "done"} : p = "done"
  OBVIOUS
<1>5. /\ RetryTypesHold' /\ OnlyRun(<<x, 1>>) /\ reattest'[x] = "done"
      /\ (\A k \in 1 .. MaxRuns : RunFits(<<x, k>>)') /\ JobFits(x)'
      /\ ReceivedFor(x)' = ReceivedFor(x) /\ MinedFor(burnTx, x)' = MinedFor(burnTx, x)
  BY <1>1, <1>3, <1>4, PollingKeeps
<1>6. RowFits(x)'
  BY <1>1, <1>2, <1>3, <1>5 DEF Fits, RowFits, Names
<1>7. SoloFits(x)' /\ FinalKept(x)
  BY <1>1, <1>2, <1>3, <1>5 DEF Fits, SoloFits, FinalKept, Over
<1>8. QED
  BY <1>5, <1>6, <1>7 DEF Fits


-----------------------------------------------------------------------------
(* resumeMint.                                                             *)

\* Every step of the resumed mint of run w in one form.
ResumeMove(w) ==
    LET u == resume[w].stage
        v == resume'[w].stage
        n == resume[w].calls
    IN  /\ UNCHANGED <<chainState, wf, queueVars, burns, reattest>>
        /\ resume' = [resume EXCEPT ![w] = resume'[w]] /\ resume'[w] \in ResumeRecords
        /\ \/ /\ u = "none" /\ v = "check" /\ resume'[w].calls = n + 1
              /\ wf[w].stage \in Over /\ burnTx[w] = "mined"
              /\ rows[w[1]].status \in {"MINT_PENDING", "ATTESTATION_RECEIVED"}
           \/ u # "none" /\ v # "check" /\ resume'[w].calls = n
        /\ v = "initial" => u = "check"
        /\ v = "receive" => u = "initial" /\ resume'[w].pre = arbWallet
        /\ v = "minting" => u = "receive" /\ resume'[w].pre = resume[w].pre
        /\ v \in {"proxy", "complete"} => Received(w)
        /\ v = "giza" => u \in {"proxy", "complete"}
        /\ \/ remint' = remint
           \/ /\ v = "minting" /\ ~Received(w)
              /\ remint' = [remint EXCEPT ![w][n] = "pending"]
        /\ \/ rows' = rows /\ v # "giza"
           \/ /\ u \in {"proxy", "complete"} /\ v \in {"none", "giza"}
              /\ rows' = markTransferCompleted(rows, w[1], w[2])
        /\ IF u = "giza"
             THEN /\ v = "none" /\ invested' = [invested EXCEPT ![w[1]] = @ + 1]
                  /\ principal' = [principal EXCEPT ![w[1]] = resume[w].minted]
             ELSE invested' = invested /\ principal' = principal

LEMMA ResumeToMoves ==
    ASSUME RetryTypes, NEW w \in Runs, NEW s \in ResumeStages, ResumeTo(w, s)
    PROVE  /\ resume' = [resume EXCEPT ![w] = resume'[w]] /\ resume'[w] \in ResumeRecords
           /\ resume'[w].stage = s /\ resume'[w].pre = resume[w].pre
           /\ resume'[w].calls = resume[w].calls
  BY DEF RetryTypes, ResumeRecords, ResumeTo

LEMMA EndResumeMoves ==
    ASSUME RetryTypes, NEW w \in Runs, EndResume(w)
    PROVE  /\ resume' = [resume EXCEPT ![w] = resume'[w]] /\ resume'[w] \in ResumeRecords
           /\ resume'[w].stage = "none" /\ resume'[w].calls = resume[w].calls
  BY DEF RetryTypes, ResumeRecords, EndResume, NoResume, ResumeStages

LEMMA ResumeMoves ==
    ASSUME RetryInv, NEW w \in Runs, resumeMint(w) \/ resumeStep(w)
    PROVE  ResumeMove(w)
<1> DEFINE x == w[1]
           u == resume[w].stage
           v == resume'[w].stage
           n == resume[w].calls
<1>0. /\ RetryTypes /\ RunFits(w) /\ RowFits(x) /\ x \in Txs /\ w = <<x, w[2]>>
      /\ w[2] \in 1 .. MaxRuns /\ w[2] # 0
      /\ resume \in [Runs -> ResumeRecords] /\ resume[w] \in ResumeRecords /\ arbWallet \in Nat
      /\ MaxResumes \in Nat
      /\ {"check", "proxy", "initial", "receive", "minting", "complete", "giza"}
             \subseteq ResumeStages
  <2>1. w[1] \in Txs /\ w[2] \in 1 .. MaxRuns /\ w = <<w[1], w[2]>>
    BY RunShape
  <2>2. RetryTypes /\ Fits(w[1])
    BY <2>1 DEF RetryInv, RetryTypesHold
  <2>3. RunFits(<<w[1], w[2]>>) /\ RowFits(w[1])
    BY <2>1, <2>2 DEF Fits
  <2>4. RunFits(w)
    BY <2>1, <2>3
  <2>5. resume \in [Runs -> ResumeRecords] /\ arbWallet \in Nat
    BY <2>2 DEF RetryTypes
  <2>6. {"check", "proxy", "initial", "receive", "minting", "complete", "giza"}
            \subseteq ResumeStages
    BY DEF ResumeStages
  <2>7. w[2] # 0 /\ MaxResumes \in Nat
    BY <2>1, RetryConstants
  <2>8. QED
    BY <2>1, <2>2, <2>3, <2>4, <2>5, <2>6, <2>7
<1> USE <1>0 DEF Resuming
<1>1. CASE resumeMint(w)
  <2>1. /\ resume'[w] = [resume[w] EXCEPT !.stage = "check", !.calls = n + 1]
        /\ resume' = [resume EXCEPT ![w] = resume'[w]]
    <3>1. resume' = [resume EXCEPT ![w].stage = "check", ![w].calls = n + 1]
      BY <1>1 DEF resumeMint
    <3>2. QED
      BY <3>1 DEF ResumeRecords
  <2>2. n + 1 \in 0 .. MaxResumes
    BY <1>1 DEF resumeMint, ResumeRecords
  <2>3. resume'[w] \in ResumeRecords /\ v = "check" /\ resume'[w].calls = n + 1
    BY <2>1, <2>2 DEF ResumeRecords
  <2>4. burnTx[w] = "mined"
    BY <1>1 DEF resumeMint, RowFits, Names
  <2>5. QED
    BY <1>1, <2>1, <2>3, <2>4 DEF resumeMint, OnlyResume, ResumeMove, Over
<1>2. CASE isMessageAlreadyExecuted(w)
  <2>1. PICK s \in {"proxy", "initial"} : ResumeTo(w, s) /\ (s = "proxy" => Received(w))
    BY <1>2 DEF isMessageAlreadyExecuted
  <2>2. s \in ResumeStages
    OBVIOUS
  <2>3. QED
    BY <1>2, <2>1, <2>2, ResumeToMoves DEF isMessageAlreadyExecuted, OnlyResume, ResumeMove
<1>3. CASE resumeInitialBalance(w)
  <2>1. /\ resume'[w] = [resume[w] EXCEPT !.stage = "receive", !.pre = arbWallet]
        /\ resume' = [resume EXCEPT ![w] = resume'[w]]
    <3>1. resume' = [resume EXCEPT ![w].stage = "receive", ![w].pre = arbWallet]
      BY <1>3 DEF resumeInitialBalance
    <3>2. QED
      BY <3>1 DEF ResumeRecords
  <2>2. /\ resume'[w] \in ResumeRecords /\ v = "receive" /\ resume'[w].calls = n
        /\ resume'[w].pre = arbWallet
    BY <2>1 DEF ResumeRecords
  <2>3. QED
    BY <1>3, <2>1, <2>2 DEF resumeInitialBalance, OnlyResume, ResumeMove
<1>4. CASE resumeReceive(w)
  <2>1. /\ resume' = [resume EXCEPT ![w] = resume'[w]] /\ resume'[w] \in ResumeRecords
        /\ v = "minting" /\ resume'[w].pre = resume[w].pre /\ resume'[w].calls = n
    BY <1>4, ResumeToMoves DEF resumeReceive
  <2>2. QED
    BY <1>4, <2>1 DEF resumeReceive, ResumeMove
<1>5. CASE resumeRefused(w)
  <2>1. u \notin {"none", "giza"}
    BY <1>5 DEF resumeRefused
  <2>2. QED
    BY <1>5, <2>1, EndResumeMoves DEF resumeRefused, OnlyResume, ResumeMove
<1>6. CASE resumeFinalBalance(w)
  <2>1. resume[w].pre <= arbWallet /\ resume[w].pre \in Nat
    BY <1>6 DEF resumeFinalBalance, RetryInv, RetryTypesHold, RetryBelow, ResumeRecords
  <2>2. arbWallet - resume[w].pre \in Nat
    BY <2>1
  <2>3. /\ resume'[w] = [resume[w] EXCEPT !.stage = "complete",
                                          !.minted = arbWallet - resume[w].pre]
        /\ resume' = [resume EXCEPT ![w] = resume'[w]]
    <3>1. resume' = [resume EXCEPT ![w].stage = "complete",
                                   ![w].minted = arbWallet - resume[w].pre]
      BY <1>6 DEF resumeFinalBalance
    <3>2. QED
      BY <3>1 DEF ResumeRecords
  <2>4. resume'[w] \in ResumeRecords /\ v = "complete" /\ resume'[w].calls = n
    BY <2>2, <2>3 DEF ResumeRecords
  <2>5. n \in 1 .. MaxResumes
    BY <1>6 DEF resumeFinalBalance, RunFits, ResumeRecords
  <2>6. Received(w)
    BY <1>6, <2>5 DEF resumeFinalBalance, Received
  <2>7. QED
    BY <1>6, <2>3, <2>4, <2>6 DEF resumeFinalBalance, OnlyResume, ResumeMove
<1>7. CASE completeResumed(w)
  <2>0. /\ u \in {"complete", "proxy"}
        /\ UNCHANGED <<chainState, wf, principal, queueVars, burns, remint, reattest, invested>>
    BY <1>7 DEF completeResumed
  <2>1. CASE EndResume(w) /\ rows' \in {rows, markTransferCompleted(rows, x, w[2])}
    BY <2>0, <2>1, EndResumeMoves DEF ResumeMove
  <2>2. ASSUME rows' = markTransferCompleted(rows, x, w[2]), NEW m \in Nat,
               resume' = [resume EXCEPT ![w].stage = "giza", ![w].minted = m]
        PROVE  ResumeMove(w)
    <3>1. /\ resume'[w] = [resume[w] EXCEPT !.stage = "giza", !.minted = m]
          /\ resume' = [resume EXCEPT ![w] = resume'[w]]
      BY <2>2 DEF ResumeRecords
    <3>2. resume'[w] \in ResumeRecords /\ v = "giza" /\ resume'[w].calls = n
      BY <3>1 DEF ResumeRecords
    <3>3. QED
      BY <2>0, <2>2, <3>1, <3>2 DEF ResumeMove
  <2>3. ASSUME rows' = markTransferCompleted(rows, x, w[2]),
               resume' = [resume EXCEPT
                   ![w].stage = "giza",
                   ![w].minted = IF Resuming(w, "proxy") THEN Amount[w[1]] ELSE @]
        PROVE  \E m \in Nat : resume' = [resume EXCEPT ![w].stage = "giza", ![w].minted = m]
    <3>1. resume[w].minted \in Nat /\ Amount[w[1]] \in Nat
      BY AmountsAreNat DEF ResumeRecords
    <3>2. CASE u = "proxy"
      <4>1. resume' = [resume EXCEPT ![w].stage = "giza", ![w].minted = Amount[w[1]]]
        BY <2>3, <3>2
      <4>2. QED
        BY <3>1, <4>1
    <3>3. CASE u # "proxy"
      <4>1. resume' = [resume EXCEPT ![w].stage = "giza", ![w].minted = resume[w].minted]
        BY <2>3, <3>3 DEF ResumeRecords
      <4>2. QED
        BY <3>1, <4>1
    <3>4. QED
      BY <3>2, <3>3
  <2>4. QED
    BY <1>7, <2>1, <2>2, <2>3 DEF completeResumed
<1>8. CASE investResumed(w)
  BY <1>8, EndResumeMoves DEF investResumed, ResumeMove
<1>9. QED
  BY <1>1, <1>2, <1>3, <1>4, <1>5, <1>6, <1>7, <1>8 DEF resumeStep


\* What a step of a resumed mint comes to.
ResumeStep(w) ==
    LET x == w[1]
        u == resume[w].stage
        v == resume'[w].stage
        r == rows[x]
        q == rows'[x]
    IN  /\ OnlyRun(w) /\ RunFits(w)'
        /\ UNCHANGED <<queueVars, burns, reattest, wf, burnTx, mintTx>>
        /\ Received(w) => Received(w)'
        /\ \/ /\ u = "none" /\ v = "check" /\ wf[w].stage \in Over
              /\ r.status \in {"MINT_PENDING", "ATTESTATION_RECEIVED"}
           \/ u # "none"
        /\ q.burnTx = r.burnTx /\ q.hash = r.hash /\ q.attested = r.attested
        /\ \/ q.status = r.status /\ v # "giza"
           \/ /\ u \in {"proxy", "complete"} /\ v \in {"none", "giza"}
              /\ q.status = "TRANSFER_COMPLETED"
        /\ IF u = "giza" THEN v = "none" /\ invested'[x] = invested[x] + 1
                         ELSE invested'[x] = invested[x]

LEMMA ResumeRow ==
    ASSUME RetryTypes, NEW w \in Runs, ResumeMove(w)
    PROVE  LET u == resume[w].stage
               v == resume'[w].stage
               r == rows[w[1]]
               q == rows'[w[1]]
           IN  /\ Writes(rows, rows', w[1])
               /\ q.burnTx = r.burnTx /\ q.hash = r.hash /\ q.attested = r.attested
               /\ \/ q.status = r.status /\ v # "giza"
                  \/ /\ u \in {"proxy", "complete"} /\ v \in {"none", "giza"}
                     /\ q.status = "TRANSFER_COMPLETED"
<1>0. rows \in Rows(Txs) /\ w[1] \in Txs /\ w[2] \in Nat /\ Exists(rows, w[1])
  BY RunShape DEF RetryTypes
<1>1. CASE rows' = rows /\ resume'[w].stage # "giza"
  BY <1>0, <1>1 DEF Writes
<1>2. CASE /\ resume[w].stage \in {"proxy", "complete"}
           /\ resume'[w].stage \in {"none", "giza"}
           /\ rows' = markTransferCompleted(rows, w[1], w[2])
  BY <1>0, <1>2, WritesCompleted
<1>3. QED
  BY <1>1, <1>2 DEF ResumeMove

LEMMA ResumeSteps ==
    ASSUME RetryTypesHold, NEW w \in Runs, RunFits(w), ResumeMove(w)
    PROVE  ResumeStep(w) /\ RetryTypesHold'
<1> DEFINE x == w[1]
           u == resume[w].stage
           v == resume'[w].stage
           n == resume[w].calls
           m == resume'[w].calls
<1>1. /\ RetryTypes /\ x \in Txs /\ UNCHANGED <<chainState, wf, queueVars, burns, reattest>>
      /\ resume' = [resume EXCEPT ![w] = resume'[w]] /\ resume'[w] \in ResumeRecords
      /\ n \in 0 .. MaxResumes /\ MaxResumes \in Nat
  BY RunShape, RetryConstants
     DEF RetryTypesHold, RetryTypes, ResumeMove, ResumeRecords
<1>2. resume' \in [Runs -> ResumeRecords] /\ \A r \in Runs \ {w} : resume'[r] = resume[r]
  BY <1>1 DEF RetryTypes
<1>3. /\ remint' \in [Runs -> [1 .. MaxResumes -> TxStates]]
      /\ \A r \in Runs \ {w} : remint'[r] = remint[r]
      /\ \A j \in 1 .. MaxResumes : j # n => remint'[w][j] = remint[w][j]
      /\ v # "minting" => remint'[w] = remint[w]
      /\ remint'[w] = remint[w] \/ ~Received(w)
  <2>0. remint \in [Runs -> [1 .. MaxResumes -> TxStates]]
    BY <1>1 DEF RetryTypes
  <2>1. CASE remint' = remint
    BY <2>0, <2>1
  <2>2. CASE /\ v = "minting" /\ ~Received(w)
             /\ remint' = [remint EXCEPT ![w][n] = "pending"]
    BY <2>0, <2>2 DEF TxStates
  <2>3. QED
    BY <2>1, <2>2 DEF ResumeMove
<1>4. /\ Writes(rows, rows', x) /\ rows'[x].burnTx = rows[x].burnTx
      /\ rows'[x].hash = rows[x].hash /\ rows'[x].attested = rows[x].attested
      /\ \/ rows'[x].status = rows[x].status /\ v # "giza"
         \/ /\ u \in {"proxy", "complete"} /\ v \in {"none", "giza"}
            /\ rows'[x].status = "TRANSFER_COMPLETED"
  BY <1>1, ResumeRow
<1>5. /\ invested' \in [Txs -> Nat] /\ principal' \in [Txs -> Nat]
      /\ \A y \in Txs \ {x} : invested'[y] = invested[y]
      /\ IF u = "giza" THEN v = "none" /\ invested'[x] = invested[x] + 1
                       ELSE invested'[x] = invested[x]
  <2>1. resume[w].minted \in Nat /\ invested \in [Txs -> Nat] /\ principal \in [Txs -> Nat]
    BY <1>1 DEF RetryTypes, ResumeRecords
  <2>2. CASE u = "giza"
    BY <1>1, <2>1, <2>2 DEF ResumeMove
  <2>3. CASE u # "giza"
    BY <2>1, <2>3 DEF ResumeMove
  <2>4. QED
    BY <2>2, <2>3
<1>6. OnlyRun(w)
  BY <1>1, <1>2, <1>3, <1>4, <1>5
     DEF OnlyRun, DepositKept, RunKept, Writes, queueVars, chainState
<1>7. Received(w) => Received(w)'
  BY <1>1, <1>3 DEF Received, chainState
<1>8. RunFits(w)'
  <2>1. wf[w].stage \in Over /\ burnTx[w] = "mined"
    BY DEF ResumeMove, RunFits
  <2>2. /\ m # 0 /\ n <= m
        /\ v = "check" => m = n + 1
        /\ v # "check" => m = n
    BY <1>1 DEF ResumeMove, RunFits
  <2>3. \A j \in 1 .. MaxResumes :
            /\ j > m => remint'[w][j] = "none"
            /\ j = m /\ v \in {"check", "initial", "receive"} => remint'[w][j] = "none"
    <3>1. ASSUME NEW j \in 1 .. MaxResumes, j > m PROVE remint'[w][j] = "none"
      <4>1. j > n
        BY <1>1, <2>2, <3>1
      <4>2. QED
        BY <1>1, <1>3, <4>1 DEF RunFits
    <3>2. ASSUME NEW j \in 1 .. MaxResumes, j = m, v = "check" PROVE remint'[w][j] = "none"
      <4>1. j > n
        BY <1>1, <2>2, <3>2
      <4>2. QED
        BY <1>3, <3>2, <4>1 DEF RunFits
    <3>3. ASSUME NEW j \in 1 .. MaxResumes, j = m, v \in {"initial", "receive"}
          PROVE  remint'[w][j] = "none"
      <4>1. j = n /\ u \in {"check", "initial"}
        BY <2>2, <3>3 DEF ResumeMove
      <4>2. QED
        BY <1>3, <3>3, <4>1 DEF RunFits
    <3>4. QED
      BY <3>1, <3>2, <3>3
  <2>4. v \in {"proxy", "complete", "giza"} => Received(w)'
    BY <1>7 DEF ResumeMove, RunFits
  <2>5. QED
    BY <1>1, <2>1, <2>2, <2>3, <2>4
       DEF RunFits, Over, BeforeBurn, AfterBurn, AfterSave, chainState
<1>9. ResumeStep(w)
  <2>1. \/ /\ u = "none" /\ v = "check" /\ wf[w].stage \in Over
           /\ rows[x].status \in {"MINT_PENDING", "ATTESTATION_RECEIVED"}
        \/ u # "none"
    BY DEF ResumeMove
  <2>2. QED
    BY <1>1, <1>4, <1>5, <1>6, <1>7, <1>8, <2>1 DEF ResumeStep, chainState
<1>10. RetryBelow'
  <2>1. v \in {"receive", "minting"} => resume'[w].pre <= arbWallet
    BY <1>1 DEF ResumeMove, RetryTypesHold, RetryTypes, RetryBelow, ResumeRecords
  <2>2. QED
    BY <1>1, <1>2, <2>1 DEF RetryTypesHold, RetryBelow, chainState
<1>11. rows' \in Rows(Txs) /\ \A y \in Txs : Exists(rows, y)'
  BY <1>1, <1>4 DEF RetryTypes, Writes, Exists
<1>12. QED
  BY <1>1, <1>2, <1>3, <1>5, <1>9, <1>10, <1>11
     DEF RetryTypesHold, RetryTypes, chainState, queueVars


LEMMA ResumeStepFits ==
    ASSUME RetryInv, NEW w \in Runs, ResumeStep(w)
    PROVE  Fits(w[1])' /\ FinalKept(w[1])
<1> DEFINE x == w[1]
           k == w[2]
           u == resume[w].stage
           v == resume'[w].stage
           r == rows[x]
           q == rows'[x]
<1>0. /\ x \in Txs /\ k \in 1 .. MaxRuns /\ w = <<x, k>> /\ Fits(x) /\ RetryTypes
  BY RunShape DEF RetryInv, RetryTypesHold
<1>1. /\ OnlyRun(w) /\ RunFits(w) /\ RunFits(w)' /\ JobFits(x) /\ RowFits(x) /\ SoloFits(x)
      /\ UNCHANGED <<job, delivery, stalls, burns, reattest, wf, burnTx, mintTx>>
      /\ wf[w].stage \in Over
  BY <1>0 DEF ResumeStep, Fits, RunFits, queueVars
<1>2. \A j \in 1 .. MaxRuns : j # k => RunKept(<<x, j>>)
  BY <1>0, <1>1, RunIs DEF OnlyRun
<1>3. \A j \in 1 .. MaxRuns : RunFits(<<x, j>>)'
  <2>1. ASSUME NEW j \in 1 .. MaxRuns, j # k PROVE RunFits(<<x, j>>)'
    BY <1>0, <1>2, <2>1, KeptRunFits, RunIs DEF Fits
  <2>2. QED
    BY <1>0, <1>1, <2>1
<1>4. JobFits(x)'
  BY <1>1 DEF JobFits
<1>5. \A j \in 1 .. MaxRuns : Received(<<x, j>>) => Received(<<x, j>>)'
  <2>1. Received(w) => Received(w)'
    BY DEF ResumeStep
  <2>2. QED
    BY <1>0, <1>2, <2>1 DEF RunKept, Received
<1>6. /\ ReceivedFor(x) # {} => ReceivedFor(x)' # {}
      /\ u \in {"proxy", "complete", "giza"} => ReceivedFor(x)' # {}
      /\ MinedFor(burnTx, x)' = MinedFor(burnTx, x)
  <2>1. u \in {"proxy", "complete", "giza"} => Received(w)
    BY <1>1 DEF RunFits
  <2>2. QED
    BY <1>0, <1>1, <1>5, <2>1 DEF ReceivedFor, MinedFor
<1>7. /\ q.burnTx = r.burnTx /\ q.hash = r.hash /\ q.attested = r.attested
      /\ \/ q.status = r.status /\ v # "giza"
         \/ /\ u \in {"proxy", "complete"} /\ v \in {"none", "giza"}
            /\ q.status = "TRANSFER_COMPLETED"
      /\ u = "giza" => v = "none" /\ invested'[x] = invested[x] + 1
      /\ u # "giza" => invested'[x] = invested[x]
      /\ u = "none" => /\ v = "check"
                       /\ r.status \in {"MINT_PENDING", "ATTESTATION_RECEIVED"}
  BY DEF ResumeStep
<1>8. RowFits(x)'
  <2>1. q.status = "TRANSFER_COMPLETED" \/ invested'[x] # 0 => ReceivedFor(x)' # {}
    BY <1>1, <1>6, <1>7 DEF RowFits
  <2>2. Names(rows[x].burnTx, x)' /\ Names(burns[x].burnTx, x)'
    BY <1>1, <1>7 DEF RowFits, Names
  <2>3. q.status = "TRANSFER_FAILED" => r.status = "TRANSFER_FAILED"
    BY <1>7
  <2>4. QED
    BY <1>1, <1>6, <1>7, <2>1, <2>2, <2>3 DEF RowFits
<1>9. ASSUME stalls[x] = 0
      PROVE  /\ w = <<x, 1>>
             /\ reattest[x] # "polling" /\ invested[x] = 0 /\ r.status # "TRANSFER_FAILED"
             /\ u = "giza" => r.status = "TRANSFER_COMPLETED"
             /\ u # "giza" => r.status \in {"MINT_PENDING", "ATTESTATION_RECEIVED"}
  <2>1. w = <<x, 1>>
    <3>1. wf[<<x, k>>].stage # "none"
      BY <1>0, <1>1 DEF Over
    <3>2. QED
      BY <1>0, <1>1, <1>9, <3>1, OneRunUnlessStalled
  <2>2. /\ u = "giza" => r.status = "TRANSFER_COMPLETED"
        /\ u # "giza" => r.status \in {"MINT_PENDING", "ATTESTATION_RECEIVED"}
    BY <1>1, <1>7, <1>9, <2>1 DEF SoloFits
  <2>3. invested[x] = 0
    <3>1. invested[x] # 0 => r.status = "TRANSFER_COMPLETED" /\ u = "none"
      BY <1>1, <1>9, <2>1 DEF SoloFits
    <3>2. QED
      BY <2>2, <3>1
  <2>4. reattest[x] # "polling"
    BY <1>1, <1>9, <2>2 DEF SoloFits
  <2>5. QED
    BY <2>1, <2>2, <2>3, <2>4
<1>10. SoloFits(x)'
  <2>1. SUFFICES ASSUME stalls[x] = 0 PROVE SoloFits(x)'
    BY <1>1 DEF SoloFits
  <2>2. /\ v = "giza" => q.status = "TRANSFER_COMPLETED"
        /\ v \notin {"none", "giza"} => q.status \in {"MINT_PENDING", "ATTESTATION_RECEIVED"}
        /\ q.status # "TRANSFER_FAILED"
        /\ invested'[x] \in {0, 1}
        /\ invested'[x] # 0 => q.status = "TRANSFER_COMPLETED" /\ v = "none"
    BY <1>7, <1>9, <2>1
  <2>3. QED
    BY <1>1, <1>9, <2>1, <2>2 DEF SoloFits, Over
<1>11. FinalKept(x)
  BY <1>7, <1>9 DEF FinalKept
<1>12. QED
  BY <1>3, <1>4, <1>8, <1>10, <1>11 DEF Fits

-----------------------------------------------------------------------------
(* The worker's end, which touches every deposit.                          *)

LEMMA CrashFits ==
    ASSUME RetryInv, workerCrash
    PROVE  RetryTypesHold' /\ \A x \in Txs : Fits(x)' /\ FinalKept(x)
<1> DEFINE lost == [NotStarted EXCEPT !.stage = "lost"]
           quiet(w) == [NoResume EXCEPT !.calls = resume[w].calls]
<1>1. /\ UNCHANGED <<rows, chainState, principal, job, delivery, stalls, burns, remint,
                     invested>>
      /\ wf' = [r \in Runs |-> IF wf[r].stage \in {"none", "done"} THEN wf[r] ELSE lost]
      /\ resume' = [r \in Runs |-> quiet(r)]
      /\ reattest' = [x \in Txs |-> IF reattest[x] = "polling" THEN "done" ELSE reattest[x]]
  BY DEF workerCrash, queueVars
<1>2. RetryTypes /\ RetryBelow
  BY DEF RetryInv, RetryTypesHold
<1>3. \A w \in Runs :
          /\ wf'[w].stage = wf[w].stage \/ (wf[w].stage # "none" /\ wf'[w].stage = "lost")
          /\ wf'[w].stage \in {"none"} \union Over /\ wf'[w] \in RunRecords
          /\ wf'[w].stage = "none" => wf[w].stage = "none"
  <2>1. lost.stage = "lost" /\ lost \in RunRecords
    BY DEF NotStarted, RunRecords, RetryStages, WfStages
  <2>2. \A w \in Runs : wf[w] \in RunRecords
    BY <1>2 DEF RetryTypes
  <2> HIDE DEF lost
  <2>3. QED
    BY <1>1, <2>1, <2>2 DEF Over
<1>4. \A w \in Runs : /\ resume'[w].stage = "none" /\ resume'[w].calls = resume[w].calls
                      /\ resume'[w] \in ResumeRecords
  <2>1. ASSUME NEW w \in Runs
        PROVE  /\ quiet(w).stage = "none" /\ quiet(w).calls = resume[w].calls
               /\ quiet(w) \in ResumeRecords
    <3>1. resume[w] \in ResumeRecords
      BY <1>2 DEF RetryTypes
    <3>2. QED
      BY <3>1 DEF NoResume, ResumeRecords, ResumeStages
  <2> HIDE DEF quiet
  <2>2. QED
    BY <1>1, <2>1
<1>5. \A x \in Txs : /\ reattest'[x] \in {"none", "done"}
  BY <1>1, <1>2 DEF RetryTypes
<1>6. RetryTypesHold'
  <2>1. wf' \in [Runs -> RunRecords] /\ resume' \in [Runs -> ResumeRecords]
        /\ reattest' \in [Txs -> {"none", "polling", "done"}]
    <3>1. wf' = [r \in Runs |-> wf'[r]] /\ resume' = [r \in Runs |-> resume'[r]]
          /\ reattest' = [x \in Txs |-> reattest'[x]]
      BY <1>1
    <3>2. QED
      BY <1>3, <1>4, <1>5, <3>1
  <2>2. RetryBelow'
    BY <1>3, <1>4 DEF RetryBelow, Over
  <2>3. QED
    BY <1>1, <1>2, <2>1, <2>2 DEF RetryTypesHold, RetryTypes, chainState, Exists
<1>7. ASSUME NEW x \in Txs PROVE Fits(x)' /\ FinalKept(x)
  <2>0. Fits(x) /\ \A k \in 1 .. MaxRuns : <<x, k>> \in Runs /\ <<x, k>>[1] = x
    BY RunIs DEF RetryInv
  <2>1. ASSUME NEW k \in 1 .. MaxRuns PROVE RunFits(<<x, k>>)'
    <3>1. RunFits(<<x, k>>) /\ <<x, k>> \in Runs
      BY <2>0 DEF Fits
    <3>2. QED
      BY <1>1, <1>3, <1>4, <3>1 DEF RunFits, WfStages, OnlyStages, Over, BeforeBurn,
         AfterBurn, AfterSave, chainState
  <2>2. JobFits(x)'
    <3>1. \A k \in 1 .. MaxRuns :
              /\ wf'[<<x, k>>].stage \in {"none"} \union Over
              /\ wf'[<<x, k>>].stage = "none" <=> wf[<<x, k>>].stage = "none"
      BY <1>3, <2>0
    <3>2. QED
      BY <1>1, <2>0, <3>1 DEF Fits, JobFits
  <2>3. ReceivedFor(x)' = ReceivedFor(x) /\ MinedFor(burnTx, x)' = MinedFor(burnTx, x)
    BY <1>1 DEF ReceivedFor, Received, MinedFor, chainState
  <2>4. <<x, 1>> \in Runs
    BY <2>0, RetryConstants
  <2>5. RowFits(x)'
    <3>1. wf'[<<x, 1>>].stage # "markFailed" /\ reattest'[x] # "polling"
      BY <1>3, <1>5, <2>4 DEF Over
    <3>2. QED
      BY <1>1, <2>0, <2>3, <3>1 DEF Fits, RowFits, Names, chainState
  <2>6. SoloFits(x)'
    <3>1. /\ reattest'[x] # "polling" /\ resume'[<<x, 1>>].stage = "none"
          /\ wf'[<<x, 1>>].stage \notin {"giza", "mintFailed"}
          /\ wf[<<x, 1>>].stage # "none" => wf'[<<x, 1>>].stage \in Over
          /\ wf'[<<x, 1>>].stage = "none" <=> wf[<<x, 1>>].stage = "none"
      BY <1>3, <1>4, <1>5, <2>4 DEF Over
    <3>2. QED
      BY <1>1, <2>0, <3>1 DEF Fits, SoloFits, Over
  <2>7. FinalKept(x)
    BY <1>1 DEF FinalKept
  <2>8. QED
    BY <2>1, <2>2, <2>5, <2>6, <2>7 DEF Fits
<1>8. QED
  BY <1>6, <1>7


-----------------------------------------------------------------------------
(* The invariant.                                                          *)

LEMMA OneDeposit ==
    ASSUME RetryInv, NEW w \in Runs, RetryTypesHold', OnlyRun(w),
           Fits(w[1])', FinalKept(w[1])
    PROVE  RetryInv' /\ \A x \in Txs : FinalKept(x)
<1>1. \A x \in Txs : Fits(x)'
  BY OthersFit
<1>2. \A x \in Txs : FinalKept(x)
  <2>1. ASSUME NEW x \in Txs, x # w[1] PROVE rows'[x] = rows[x]
    BY <2>1 DEF OnlyRun, DepositKept
  <2>2. QED
    BY <2>1 DEF FinalKept
<1>3. QED
  BY <1>1, <1>2 DEF RetryInv

LEMMA RetryStep ==
    RetryInv /\ [RetryNext]_allRetryVars => RetryInv' /\ \A x \in Txs : FinalKept(x)
<1> SUFFICES ASSUME RetryInv, [RetryNext]_allRetryVars
             PROVE  RetryInv' /\ \A x \in Txs : FinalKept(x)
  OBVIOUS
<1>1. RetryTypesHold /\ \A x \in Txs : Fits(x)
  BY DEF RetryInv
<1>2. ASSUME NEW w \in Runs PROVE RunFits(w)
  <2>1. w[1] \in Txs /\ w[2] \in 1 .. MaxRuns /\ w = <<w[1], w[2]>>
    BY RunShape
  <2>2. RunFits(<<w[1], w[2]>>)
    BY <1>1, <2>1 DEF Fits
  <2>3. QED
    BY <2>1, <2>2
<1>3. ASSUME NEW x \in Txs, entry(x) \/ queueStep(x) \/ reattested(x)
      PROVE  RetryInv' /\ \A y \in Txs : FinalKept(y)
  <2>0. <<x, 1>> \in Runs /\ <<x, 1>>[1] = x
    BY RunIs, RetryConstants
  <2>1. ASSUME RetryTypesHold', OnlyRun(<<x, 1>>), Fits(x)', FinalKept(x)
        PROVE  RetryInv' /\ \A y \in Txs : FinalKept(y)
    <3>1. PICK w \in Runs : w = <<x, 1>> /\ w[1] = x
      BY <2>0
    <3>2. QED
      BY <2>1, <3>1, OneDeposit
  <2>2. CASE processJob(x)
    <3>1. /\ RetryTypesHold' /\ Fits(x)' /\ FinalKept(x)
          /\ <<x, delivery[x] + 1>> \in Runs /\ OnlyRun(<<x, delivery[x] + 1>>)
      BY <2>2, processJobFits
    <3>2. PICK w \in Runs : w = <<x, delivery[x] + 1>> /\ w[1] = x
      BY <3>1
    <3>3. QED
      BY <3>1, <3>2, OneDeposit
  <2>3. CASE ~processJob(x)
    BY <1>3, <2>1, <2>3, addBurnJobFits, jobLeavesFits, executeBurnOnlyFits,
       resumePollingFits, reattestedFits DEF entry, queueStep
  <2>4. QED
    BY <2>2, <2>3
<1>4. ASSUME NEW w \in Runs, mineSent(w)
      PROVE  RetryInv' /\ \A y \in Txs : FinalKept(y)
  <2>1. ChainForm(w) /\ RetryTypesHold'
    BY <1>1, <1>4, ChainForms
  <2>2. Fits(w[1])'
    BY <2>1, ChainFits
  <2>3. OnlyRun(w) /\ FinalKept(w[1])
    BY <2>1 DEF ChainForm, FinalKept
  <2>4. QED
    BY <2>1, <2>2, <2>3, OneDeposit
<1>5. ASSUME NEW w \in Runs, workflowOf(w) \/ workflowFaults(w)
      PROVE  RetryInv' /\ \A y \in Txs : FinalKept(y)
  <2>1. CommonForm(w) \/ BurnOnlyForm(w)
    BY <1>1, <1>2, <1>5, RunForms
  <2>2. RunStep(w) /\ RetryTypesHold'
    BY <1>1, <1>2, <2>1, CommonSteps, BurnOnlySteps
  <2>3. Fits(w[1])' /\ FinalKept(w[1]) /\ OnlyRun(w)
    BY <2>2, RunStepFits DEF RunStep
  <2>4. QED
    BY <2>2, <2>3, OneDeposit
<1>6. ASSUME NEW w \in Runs, resumeMint(w) \/ resumeStep(w)
      PROVE  RetryInv' /\ \A y \in Txs : FinalKept(y)
  <2>1. ResumeMove(w)
    BY <1>6, ResumeMoves
  <2>2. ResumeStep(w) /\ RetryTypesHold'
    BY <1>1, <1>2, <2>1, ResumeSteps
  <2>3. Fits(w[1])' /\ FinalKept(w[1]) /\ OnlyRun(w)
    BY <2>2, ResumeStepFits DEF ResumeStep
  <2>4. QED
    BY <2>2, <2>3, OneDeposit
<1>7. CASE workerCrash
  BY <1>7, CrashFits DEF RetryInv
<1>8. CASE UNCHANGED allRetryVars
  <2>1. UNCHANGED <<rows, chainState, wf, principal, job, delivery, stalls, burns, remint,
                    resume, reattest, invested>>
    BY <1>8 DEF allRetryVars, allVars, pipelineVars, retryVars, queueVars
  <2>2. RetryTypesHold'
    BY <1>1, <2>1 DEF RetryTypesHold, RetryTypes, RetryBelow, chainState, Exists
  <2>3. ASSUME NEW x \in Txs PROVE Fits(x)' /\ FinalKept(x)
    <3>1. DepositKept(x) /\ \A k \in 1 .. MaxRuns : RunKept(<<x, k>>)
      BY <2>1 DEF DepositKept, RunKept, chainState
    <3>2. QED
      BY <1>1, <2>1, <3>1, KeptFits DEF FinalKept
  <2>4. QED
    BY <2>2, <2>3 DEF RetryInv
<1>9. QED
  BY <1>3, <1>4, <1>5, <1>6, <1>7, <1>8 DEF RetryNext

\* What every state of the queue and of the resumed calls satisfies: the balances
\* stay natural numbers, the calls keep to their stages, and each deposit's job,
\* runs, row and investments fit together.
THEOREM RetryInvariant == RetrySpec => []RetryInv
<1>1. RetryInv /\ [RetryNext]_allRetryVars => RetryInv'
  BY RetryStep
<1>2. QED
  BY RetryInitHolds, <1>1, PTL DEF RetrySpec

-----------------------------------------------------------------------------
(* What follows.                                                           *)

\* cctp-orchestrator.service.ts, burn.processor.ts: a job sends depositForBurn
\* again only after its worker was lost.
THEOREM BurnsOncePerStall == RetrySpec => []OneBurnPerStall
<1>1. RetryInv => OneBurnPerStall
  <2> SUFFICES ASSUME RetryInv, NEW x \in Txs
               PROVE  Cardinality(BurnedFor(x)) <= 1 + stalls[x]
    BY DEF OneBurnPerStall
  <2>1. /\ Fits(x) /\ stalls[x] \in Nat /\ delivery[x] \in Nat
        /\ job[x] \in {"none", "waiting", "active", "removed", "failed"}
        /\ Way[x] \in {"queue", "burnOnly"} /\ MaxRuns \in Nat
    BY RetryConstants DEF RetryInv, RetryTypesHold, RetryTypes
  <2>2. delivery[x] <= 1 + stalls[x]
    BY <2>1 DEF Fits, JobFits
  <2>3. ASSUME NEW k \in BurnedFor(x) PROVE k \in 1 .. 1 + stalls[x]
    <3>1. k \in 1 .. MaxRuns /\ burnTx[<<x, k>>] # "none"
      BY DEF BurnedFor
    <3>2. wf[<<x, k>>].stage # "none"
      BY <2>1, <3>1 DEF Fits, RunFits
    <3>3. CASE Way[x] = "queue"
      <4>1. k <= delivery[x]
        BY <2>1, <3>1, <3>2, <3>3 DEF Fits, JobFits
      <4>2. QED
        BY <2>1, <2>2, <3>1, <4>1
    <3>4. CASE Way[x] = "burnOnly"
      <4>1. k = 1
        BY <2>1, <3>1, <3>2, <3>4 DEF Fits, JobFits
      <4>2. QED
        BY <2>1, <4>1
    <3>5. QED
      BY <2>1, <3>3, <3>4
  <2>4. IsFiniteSet(1 .. 1 + stalls[x]) /\ Cardinality(1 .. 1 + stalls[x]) = 1 + stalls[x]
    <3>1. PICK n \in Nat : n = 1 + stalls[x]
      BY <2>1
    <3>2. IsFiniteSet(1 .. n) /\ Cardinality(1 .. n) = n
      BY FS_Interval
    <3>3. QED
      BY <3>1, <3>2
  <2>5. BurnedFor(x) \subseteq 1 .. 1 + stalls[x]
    BY <2>3
  <2>6. QED
    BY <2>4, <2>5, FS_Subset
<1>2. QED
  BY RetryInvariant, <1>1, PTL

\* Rows and burn records name transactions that were mined, whoever wrote them.
THEOREM ResumedRowsNeverLie == RetrySpec => []ResumedRowsTellTheTruth
<1>1. RetryInv => ResumedRowsTellTheTruth
  BY DEF RetryInv, Fits, RowFits, Names, ResumedRowsTellTheTruth
<1>2. QED
  BY RetryInvariant, <1>1, PTL

\* initializeGizaPosition is called for a deposit only after a message of it was
\* received, and as long as the job has not stalled no more often than that.
THEOREM InvestsOncePerMessage == RetrySpec => []InvestedOncePerMessage
<1>1. RetryInv => InvestedOncePerMessage
  <2> SUFFICES ASSUME RetryInv, NEW x \in Txs
               PROVE  /\ invested[x] # 0 => ReceivedFor(x) # {}
                      /\ stalls[x] = 0 => invested[x] <= Cardinality(ReceivedFor(x))
    BY DEF InvestedOncePerMessage
  <2>1. RowFits(x) /\ SoloFits(x) /\ invested[x] \in Nat /\ MaxRuns \in Nat
    BY RetryConstants DEF RetryInv, RetryTypesHold, RetryTypes, Fits
  <2>2. invested[x] # 0 => ReceivedFor(x) # {}
    BY <2>1 DEF RowFits
  <2>3. IsFiniteSet(ReceivedFor(x))
    <3>1. IsFiniteSet(1 .. MaxRuns) /\ ReceivedFor(x) \subseteq 1 .. MaxRuns
      BY <2>1, FS_Interval DEF ReceivedFor
    <3>2. QED
      BY <3>1, FS_Subset
  <2>4. /\ Cardinality(ReceivedFor(x)) \in Nat
        /\ ReceivedFor(x) # {} => Cardinality(ReceivedFor(x)) # 0
    BY <2>3, FS_CardinalityType, FS_EmptySet
  <2>5. stalls[x] = 0 => invested[x] <= 1
    BY <2>1 DEF SoloFits
  <2>6. QED
    BY <2>1, <2>2, <2>4, <2>5
<1>2. QED
  BY RetryInvariant, <1>1, PTL

\* A row that executeBurnOnly marked FAILED has its reason in the burn record.
THEOREM FailuresAreRecorded == RetrySpec => []FailureHasRecord
<1>1. RetryInv => FailureHasRecord
  BY DEF RetryInv, Fits, RowFits, FailureHasRecord
<1>2. QED
  BY RetryInvariant, <1>1, PTL

\* No resumed call and no second way in writes over a status that ends the transfer,
\* unless the job stalled and its second run does.
THEOREM FinalStaysUnlessStalled == RetrySpec => FinalUnlessStalled
<1>1. RetryInv /\ [RetryNext]_allRetryVars =>
        [\A x \in Txs : stalls[x] = 0 =>
            /\ rows[x].status = "TRANSFER_FAILED" => rows'[x].status = "TRANSFER_FAILED"
            /\ rows[x].status = "TRANSFER_COMPLETED" =>
                   rows'[x].status \in {"TRANSFER_COMPLETED", "MINT_PENDING"}]_rows
  BY RetryStep DEF FinalKept
<1>2. QED
  BY RetryInvariant, <1>1, PTL DEF RetrySpec, FinalUnlessStalled
=============================================================================
