--------------------------- MODULE DepositIndexer ---------------------------
(***************************************************************************)
(* The wired listener (listeners/deposit-events.listener.ts) over the      *)
(* chain's Deposited logs, the Deposit table (services/deposits.service.ts)*)
(* and the creation of CrossChainTransfer rows.                            *)
(*                                                                         *)
(* Deposit transactions are numbered in chain order; transaction x emits   *)
(* LogsOf[x] Deposited logs.  A Deposit row is keyed by transaction hash,  *)
(* so the table is a set of transaction numbers.  The listener is one      *)
(* asynchronous loop: a step of the model is the code between two awaits.  *)
(*                                                                         *)
(* The vault-to-bridge call is one step here, with either outcome; module  *)
(* CctpPipeline puts its real steps and the real row statuses in its place.*)
(***************************************************************************)
EXTENDS Integers, FiniteSets, TransferState

CONSTANTS
    NumTx,      \* deposit transactions there may be
    LogsOf,     \* LogsOf[x]: Deposited logs transaction x emits
    MaxBlock,   \* bound on the chain's length
    Lookback,   \* LOOKBACK_BLOCKS
    Batch,      \* BLOCK_BATCH_SIZE
    Faults,     \* subset of {"crash", "db", ...}: what may go wrong
    MaxCrashes, \* bound on the crashes of a behaviour
    MaxRuns     \* bound on the recoveries of one deposit

Txs == 1 .. NumTx

ASSUME SizesAssumption ==
    /\ NumTx \in Nat /\ MaxBlock \in Nat /\ Lookback \in Nat
    /\ Batch \in Nat \ {0} /\ MaxCrashes \in Nat /\ MaxRuns \in Nat
ASSUME LogsAssumption == LogsOf \in [Txs -> Nat \ {0}]

NoBlock == -1        \* lastProcessedBlock is null
NoLog == <<0, 0>>

Logs == UNION { {x} \X (1 .. LogsOf[x]) : x \in Txs }

VARIABLES
    head,           \* the chain's latest block
    blockOf,        \* block of each deposit transaction, 0 until mined
    stored,         \* transactions with a row in the Deposit table
    transfers,      \* those of them with a CrossChainTransfer row
    pc,             \* where the listener's loop is
    lastProcessed,  \* its lastProcessedBlock
    toBlock,        \* upper end of the window being processed
    todo,           \* logs of the window still to be handled
    cur,            \* log being handled
    seen,           \* row status read by the duplicate path
    bridgings,      \* history: vault-to-bridge calls made for a deposit
    spawned,        \* history: CCTP workflows launched for a deposit
    dropped,        \* history: deposits whose handling met a database error
    crashes         \* history: crashes so far

chainVars == <<head, blockOf>>
tableVars == <<stored, transfers>>
loopVars == <<pc, lastProcessed, toBlock, todo, cur, seen>>
historyVars == <<bridgings, spawned, dropped, crashes>>
indexerVars == <<chainVars, tableVars, loopVars, historyVars>>

IndexerInit ==
    /\ head = 1
    /\ blockOf = [x \in Txs |-> 0]
    /\ stored = {}
    /\ transfers = {}
    /\ pc = "down"
    /\ lastProcessed = NoBlock
    /\ toBlock = 0
    /\ todo = {}
    /\ cur = NoLog
    /\ seen = NoRow
    /\ bridgings = [x \in Txs |-> 0]
    /\ spawned = [x \in Txs |-> 0]
    /\ dropped = {}
    /\ crashes = 0

-----------------------------------------------------------------------------
(* The chain: a new block holds the next deposits up to number `last`.     *)

Mined(x) == blockOf[x] # 0

NewBlock(last) ==
    /\ head < MaxBlock
    /\ head' = head + 1
    /\ blockOf' = [x \in Txs |-> IF ~Mined(x) /\ x <= last THEN head + 1
                                                           ELSE blockOf[x]]
    /\ UNCHANGED <<tableVars, loopVars, historyVars>>

-----------------------------------------------------------------------------
(* start(): resume after the highest block that holds a stored deposit.    *)

IsLastStoredBlock(b) ==
    \/ stored = {} /\ b = NoBlock
    \/ /\ \E x \in stored : b = blockOf[x]
       /\ \A x \in stored : blockOf[x] <= b

\* Wrong variant: resumes at the head instead of after the last stored block.
startAtHead ==
    /\ pc = "down"
    /\ lastProcessed' = head
    /\ pc' = "idle"
    /\ UNCHANGED <<chainVars, tableVars, historyVars, toBlock, todo, cur, seen>>

start ==
    /\ pc = "down"
    /\ \E b \in {NoBlock} \union {blockOf[x] : x \in stored} :
          IsLastStoredBlock(b) /\ lastProcessed' = b
    /\ pc' = "idle"
    /\ UNCHANGED <<chainVars, tableVars, historyVars, toBlock, todo, cur, seen>>

(* getBlockWindow and getDepositedLogs: the chain only grows, so the logs   *)
(* of a window ending at or below the head read earlier are fixed.  A       *)
(* failing RPC call leaves everything as it is.                             *)

\* Wrong variant: the next window begins with the last block of the previous one.
FromBlockAgain ==
    IF lastProcessed = NoBlock
      THEN IF head > Lookback THEN head - Lookback ELSE 0
      ELSE lastProcessed

FromBlock ==
    IF lastProcessed = NoBlock
      THEN IF head > Lookback THEN head - Lookback ELSE 0
      ELSE lastProcessed + 1

ToBlock == IF FromBlock + Batch - 1 < head THEN FromBlock + Batch - 1 ELSE head

LogsIn(from, to) ==
    { l \in Logs : Mined(l[1]) /\ from <= blockOf[l[1]] /\ blockOf[l[1]] <= to }

queryWindow ==
    /\ pc = "idle"
    /\ FromBlock <= ToBlock
    /\ toBlock' = ToBlock
    /\ todo' = LogsIn(FromBlock, ToBlock)
    /\ pc' = "loop"
    /\ UNCHANGED <<chainVars, tableVars, historyVars, lastProcessed, cur, seen>>

-----------------------------------------------------------------------------
(* The loop over the window's logs.  An error that is not the duplicate    *)
(* error is logged and the loop goes on to the next log.                   *)

IsNextLog(l) ==
    /\ l \in todo
    /\ \A m \in todo : l[1] < m[1] \/ (l[1] = m[1] /\ l[2] <= m[2])

TakeLog(l, then) ==
    /\ pc = "loop"
    /\ IsNextLog(l)
    /\ todo' = todo \ {l}
    /\ cur' = l
    /\ pc' = then
    /\ UNCHANGED <<chainVars, transfers, historyVars, lastProcessed, toBlock, seen>>

\* Wrong variants: the row is not inserted; the transfer is forgotten.
createDepositUnsaved(l) ==
    /\ l[1] \notin stored
    /\ UNCHANGED stored
    /\ TakeLog(l, "stored")

createDepositOnly(l) ==
    /\ l[1] \notin stored
    /\ stored' = stored \union {l[1]}
    /\ TakeLog(l, "loop")

createDeposit(l) ==
    /\ l[1] \notin stored
    /\ stored' = stored \union {l[1]}
    /\ TakeLog(l, "stored")

\* Unique transaction hash: 'Deposit already exists'.
duplicateDeposit(l) ==
    /\ l[1] \in stored
    /\ UNCHANGED stored
    /\ TakeLog(l, "duplicate")

\* Any other database error, before or after the insert took effect; also when the
\* deposit was stored before, which then goes unnoticed.
createDepositFails(l) ==
    /\ "db" \in Faults
    /\ stored' \in {stored, stored \union {l[1]}}
    /\ pc = "loop"
    /\ IsNextLog(l)
    /\ todo' = todo \ {l}
    /\ dropped' = dropped \union {l[1]}
    /\ UNCHANGED <<chainVars, transfers, bridgings, spawned, crashes,
                   lastProcessed, toBlock, pc, cur, seen>>

NextLog ==
    /\ pc' = "loop"
    /\ cur' = NoLog
    /\ seen' = NoRow
    /\ UNCHANGED <<lastProcessed, toBlock, todo>>

\* An exception out of the duplicate path is caught outside the loop: the
\* window is given up and lastProcessedBlock stays.
AbandonWindow ==
    /\ pc' = "idle"
    /\ toBlock' = 0
    /\ todo' = {}
    /\ cur' = NoLog
    /\ seen' = NoRow
    /\ UNCHANGED lastProcessed

CallBridge(x, from) ==
    /\ pc' = from
    /\ bridgings' = [bridgings EXCEPT ![x] = @ + 1]
    /\ UNCHANGED <<spawned, dropped, crashes, lastProcessed, toBlock, todo, cur>>

createTransfer ==
    /\ pc = "stored"
    /\ transfers' = transfers \union {cur[1]}
    /\ CallBridge(cur[1], "bridge")
    /\ UNCHANGED <<chainVars, stored, seen>>

createTransferFails ==
    /\ pc = "stored"
    /\ "db" \in Faults
    /\ transfers' \in {transfers, transfers \union {cur[1]}}
    /\ dropped' = dropped \union {cur[1]}
    /\ NextLog
    /\ UNCHANGED <<chainVars, stored, bridgings, spawned, crashes>>

Spawn(x) == spawned' = [spawned EXCEPT ![x] = @ + 1]

\* processDuplicateDepositEvent up to the bridge call: the row, created now when
\* it is missing, has status st; that value is what later decides on the
\* workflow, however long the bridge call takes.
recoverDuplicate(st) ==
    /\ pc = "duplicate"
    /\ bridgings[cur[1]] < MaxRuns /\ spawned[cur[1]] < MaxRuns
    /\ transfers' = transfers \union {cur[1]}
    /\ IF st = "VAULT_TO_BRIDGE_TRANSFER_CONFIRMED"
         THEN NextLog /\ Spawn(cur[1]) /\ UNCHANGED <<bridgings, dropped, crashes>>
         ELSE CallBridge(cur[1], "rebridge") /\ seen' = st
    /\ UNCHANGED <<chainVars, stored>>

recoverDuplicateFails ==
    /\ pc = "duplicate"
    /\ "db" \in Faults
    /\ transfers' \in {transfers, transfers \union {cur[1]}}
    /\ AbandonWindow
    /\ UNCHANGED <<chainVars, stored, historyVars>>

\* The awaited transferAndVerify ends; only then is the workflow launched.
bridgeDone ==
    /\ \/ pc = "bridge" /\ Spawn(cur[1])
       \/ pc = "rebridge" /\ (IF seen \in PastBurn THEN UNCHANGED spawned
                                                   ELSE Spawn(cur[1]))
    /\ NextLog
    /\ UNCHANGED <<chainVars, tableVars, bridgings, dropped, crashes>>

bridgeThrows ==
    /\ \/ pc = "bridge" /\ NextLog
       \/ pc = "rebridge" /\ AbandonWindow
    /\ UNCHANGED <<chainVars, tableVars, historyVars>>

\* Wrong variant: the head, read again, counts as processed.
endWindowAtHead ==
    /\ pc = "loop"
    /\ todo = {}
    /\ lastProcessed' = head
    /\ pc' = "idle"
    /\ toBlock' = 0
    /\ UNCHANGED <<chainVars, tableVars, historyVars, todo, cur, seen>>

endWindow ==
    /\ pc = "loop"
    /\ todo = {}
    /\ lastProcessed' = toBlock
    /\ pc' = "idle"
    /\ toBlock' = 0
    /\ UNCHANGED <<chainVars, tableVars, historyVars, todo, cur, seen>>

\* The process ends (a crash, or onModuleDestroy): the loop's state is lost.
crash ==
    /\ "crash" \in Faults
    /\ crashes < MaxCrashes
    /\ pc # "down"
    /\ crashes' = crashes + 1
    /\ pc' = "down"
    /\ lastProcessed' = NoBlock
    /\ toBlock' = 0
    /\ todo' = {}
    /\ cur' = NoLog
    /\ seen' = NoRow
    /\ UNCHANGED <<chainVars, tableVars, bridgings, spawned, dropped>>

-----------------------------------------------------------------------------
handleLog ==
    \E l \in todo : createDeposit(l) \/ duplicateDeposit(l) \/ createDepositFails(l)

\* The listener's steps other than those that wait on the bridge transfer and on
\* the row the duplicate path reads.
ListenerNext ==
    \/ start
    \/ queryWindow
    \/ handleLog
    \/ createTransfer
    \/ createTransferFails
    \/ recoverDuplicateFails
    \/ endWindow

\* The status a row of this deposit may be found in: a row created just now is
\* DETECTED; before a workflow runs only the vault-to-bridge call has written it; and
\* a workflow is launched only once CONFIRMED was.  The rows' later life belongs to
\* CctpPipeline.
BeforeWorkflow == { "DEPOSIT_DETECTED", "VAULT_TO_BRIDGE_TRANSFER_INITIATED",
                    "VAULT_TO_BRIDGE_TRANSFER_CONFIRMED" }

StatusFound ==
    CASE cur[1] \notin transfers -> {"DEPOSIT_DETECTED"}
      [] cur[1] \in transfers /\ spawned[cur[1]] = 0 -> BeforeWorkflow
      [] OTHER -> Statuses \ {"DEPOSIT_DETECTED"}

IndexerNext ==
    \/ \E last \in 0 .. NumTx : NewBlock(last)
    \/ ListenerNext
    \/ \E st \in StatusFound : recoverDuplicate(st)
    \/ bridgeDone
    \/ bridgeThrows
    \/ crash

IndexerSpec == IndexerInit /\ [][IndexerNext]_indexerVars

\* The loop runs again 12 seconds after any error and awaits every call, so a
\* step of it that stays possible is taken.  A restart is the operator's doing.
\* Nothing obliges a new block.
IndexerFairness ==
    WF_indexerVars(\/ ListenerNext /\ ~(pc = "down" /\ crashes > 0)
                   \/ \E st \in StatusFound : recoverDuplicate(st)
                   \/ bridgeDone \/ bridgeThrows)

FairIndexerSpec == IndexerSpec /\ IndexerFairness

-----------------------------------------------------------------------------
IndexerTypeOK ==
    /\ head \in Nat
    /\ blockOf \in [Txs -> Nat]
    /\ stored \subseteq Txs
    /\ transfers \subseteq stored
    /\ pc \in {"down", "idle", "loop", "stored", "duplicate", "bridge", "rebridge"}
    /\ lastProcessed \in Nat \union {NoBlock}
    /\ toBlock \in Nat
    /\ todo \subseteq Logs
    /\ cur \in Logs \union {NoLog}
    /\ seen \in Statuses \union {NoRow}
    /\ bridgings \in [Txs -> Nat]
    /\ spawned \in [Txs -> Nat]
    /\ dropped \subseteq Txs
    /\ crashes \in Nat

\* When every transaction emits one Deposited log, no deposit is bridged twice
\* and no second workflow is launched for it, whatever crashes, restarts and
\* database errors happen in between: the windows of two incarnations never
\* overlap on a stored deposit.
HandledAtMostOnce == \A x \in Txs : bridgings[x] <= 1 /\ spawned[x] <= 1

\* The table mirrors the chain up to lastProcessedBlock.
MirrorsChain ==
    \A x \in Txs : Mined(x) /\ blockOf[x] <= lastProcessed => x \in stored

\* A deposit the listener has gone past without storing it met a database error,
\* or a crash happened and its block holds a deposit that was stored: a restart
\* loses the rest of a block, never a whole block (as long as the first window
\* reaches back far enough).
LossExplained ==
    \A x \in Txs :
        Mined(x) /\ blockOf[x] <= lastProcessed /\ x \notin stored =>
            \/ x \in dropped
            \/ crashes > 0 /\ \E y \in stored : blockOf[y] = blockOf[x]

\* A stored deposit without a transfer row met a database error, or else costs a
\* crash: at most one such deposit per crash, besides the one being handled.
OrphansExplained ==
    Cardinality((stored \ transfers) \ dropped)
        <= crashes + (IF pc = "stored" THEN 1 ELSE 0)

\* A duplicate is to be recovered once more, beyond the bound of the model.
BeyondRuns ==
    pc = "duplicate" /\ (bridgings[cur[1]] = MaxRuns \/ spawned[cur[1]] = MaxRuns)

\* The loop reaches every deposit, behind any number of failing bridge calls of
\* others.  What can keep it from that: nobody restarts the process after a crash; a
\* duplicate whose recovery fails again and again (in the database, or in the bridge,
\* which the model follows up to its bound); a database error with the deposit itself;
\* and, after a crash, a stored deposit of the same block.
EveryDepositPickedUp ==
    \/ <>[](pc = "down" /\ crashes > 0)
    \/ []<><<recoverDuplicateFails>>_indexerVars
    \/ <>[]BeyondRuns
    \/ \A x \in Txs : Mined(x) ~>
          \/ bridgings[x] >= 1
          \/ x \in dropped
          \/ crashes > 0 /\ \E y \in stored : blockOf[y] = blockOf[x]
=============================================================================
