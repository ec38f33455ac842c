--------------------------- MODULE LegacyListener ---------------------------
(***************************************************************************)
(* The other listener of the repository                                    *)
(* (listeners/deposit-event.listener.ts), which no module provides today:  *)
(* a subscription to the vault's Deposited logs and a timer that polls the *)
(* last blocks, both handing logs to the same handler.                     *)
(*                                                                         *)
(* It takes the place of DepositIndexer over the same chain, so of that    *)
(* module only the chain and the count of crashes move.  Its deposits are  *)
(* kept by log, since its event signature names the log; the table's       *)
(* transaction hash is unique all the same.                                *)
(*                                                                         *)
(* The timer does not wait for the poll before it, and a pushed log does   *)
(* not wait at all: several handlers run at once.  A handler has the logs  *)
(* it still has to look at, the one it is at, and how far it is with it.   *)
(***************************************************************************)
EXTENDS DepositIndexer

CONSTANTS
    PollLookback,  \* lookbackBlocks of a poll (50)
    Handlers       \* the handlers that may run at once

ASSUME LegacyAssumption == PollLookback \in Nat /\ IsFiniteSet(Handlers)

VARIABLES
    running,     \* "down", "listening", or "stopped" (the timer is still alive)
    startBlock,  \* where startListening began
    handlers,    \* the handlers
    deposits,    \* logs with a row in the Deposit table
    withRow,     \* logs with a CrossChainTransfer row
    processed,   \* logs whose deposit is marked isProcessed
    failedLogs,  \* history: logs a handler met a database error with
    attempts     \* history: calls of createTransferFromDeposit for each transaction

historyOfLogs == <<failedLogs, attempts>>
legacyTables == <<deposits, withRow, processed, historyOfLogs>>
legacyVars == <<running, startBlock, handlers, legacyTables>>
listenerVars == <<indexerVars, legacyVars>>

Idle == [todo |-> {}, log |-> NoLog, stage |-> "next"]

LegacyInit ==
    /\ IndexerInit
    /\ running = "down" /\ startBlock = 0
    /\ handlers = [h \in Handlers |-> Idle]
    /\ deposits = {} /\ withRow = {} /\ processed = {} /\ failedLogs = {}
    /\ attempts = [x \in Txs |-> 0]

Below(b, n) == IF b > n THEN b - n ELSE 0
Later(b, c) == IF b > c THEN b ELSE c

-----------------------------------------------------------------------------
startListening ==
    /\ running = "down"
    /\ running' = "listening" /\ startBlock' = Below(head, Lookback)
    /\ UNCHANGED <<indexerVars, handlers, legacyTables>>

\* The subscription goes; nothing clears the timer, so polls go on.
stopListening ==
    /\ running = "listening"
    /\ running' = "stopped"
    /\ UNCHANGED <<indexerVars, startBlock, handlers, legacyTables>>

Take(h, logs) ==
    /\ handlers[h] = Idle
    /\ handlers' = [handlers EXCEPT ![h].todo = logs]
    /\ UNCHANGED <<indexerVars, running, startBlock, legacyTables>>

\* A log of the newest block is pushed, perhaps more than once.  That a log is
\* never pushed needs no step.
logPushed(h) ==
    /\ running = "listening"
    /\ \E l \in LogsIn(head, head) : Take(h, {l})

pollForMissedEvents(h) ==
    /\ running # "down"
    /\ LET logs == LogsIn(Later(startBlock, Below(head, PollLookback)), head)
       IN  logs # {} /\ Take(h, logs)

-----------------------------------------------------------------------------
(* handleDepositedEvent.  Every error ends the handling of the log, never  *)
(* the poll it belongs to.                                                 *)

Stage(h, s) == handlers[h].stage = s
LogOf(h) == handlers[h].log
ToStage(h, s) == handlers' = [handlers EXCEPT ![h].stage = s]
NextOf(h) == handlers' = [handlers EXCEPT ![h].stage = "next", ![h].log = NoLog]
NotTheTables == UNCHANGED <<indexerVars, running, startBlock>>

FirstOf(logs, l) ==
    l \in logs /\ \A m \in logs : l[1] < m[1] \/ (l[1] = m[1] /\ l[2] <= m[2])

\* The event signature is looked up: a log that has its deposit is passed over.
lookUp(h) ==
    /\ Stage(h, "next")
    /\ \E l \in handlers[h].todo :
          /\ FirstOf(handlers[h].todo, l)
          /\ handlers' = [handlers EXCEPT ![h] =
                [todo  |-> @.todo \ {l},
                 log   |-> IF l \in deposits THEN NoLog ELSE l,
                 stage |-> IF l \in deposits THEN "next" ELSE "insert"]]
    /\ NotTheTables /\ UNCHANGED legacyTables

\* Wrong variant: the insert overwrites.
upsertLegacyDeposit(h) ==
    /\ Stage(h, "insert")
    /\ deposits' = deposits \union {LogOf(h)}
    /\ ToStage(h, "transfer")
    /\ NotTheTables /\ UNCHANGED <<withRow, processed, historyOfLogs>>

\* Signature and transaction hash are unique: another handler may have been first,
\* and of the logs of one transaction only one gets a row.
createLegacyDeposit(h) ==
    /\ Stage(h, "insert")
    /\ IF \E m \in deposits : m[1] = LogOf(h)[1]
         THEN NextOf(h) /\ UNCHANGED deposits
         ELSE ToStage(h, "transfer") /\ deposits' = deposits \union {LogOf(h)}
    /\ NotTheTables /\ UNCHANGED <<withRow, processed, historyOfLogs>>

Attempt(h) == attempts' = [attempts EXCEPT ![LogOf(h)[1]] = @ + 1]

createLegacyTransfer(h) ==
    /\ Stage(h, "transfer")
    /\ withRow' = withRow \union {LogOf(h)} /\ Attempt(h)
    /\ ToStage(h, "mark")
    /\ NotTheTables /\ UNCHANGED <<deposits, processed, failedLogs>>

\* Wrong variant: the deposit is marked before its transfer exists.
markProcessedFirst(h) ==
    /\ Stage(h, "mark") \/ Stage(h, "transfer")
    /\ processed' = processed \union {LogOf(h)}
    /\ NextOf(h)
    /\ NotTheTables /\ UNCHANGED <<deposits, withRow, historyOfLogs>>

markProcessed(h) ==
    /\ Stage(h, "mark")
    /\ processed' = processed \union {LogOf(h)}
    /\ NextOf(h)
    /\ NotTheTables /\ UNCHANGED <<deposits, withRow, historyOfLogs>>

\* A write throws, having taken effect or not.
handlingFails(h) ==
    /\ "db" \in Faults
    /\ \/ /\ Stage(h, "insert")
          /\ ~\E m \in deposits : m[1] = LogOf(h)[1]
          /\ deposits' \in {deposits, deposits \union {LogOf(h)}}
          /\ UNCHANGED <<withRow, processed, attempts>>
       \/ /\ Stage(h, "transfer")
          /\ withRow' \in {withRow, withRow \union {LogOf(h)}} /\ Attempt(h)
          /\ UNCHANGED <<deposits, processed>>
       \/ /\ Stage(h, "mark")
          /\ processed' \in {processed, processed \union {LogOf(h)}}
          /\ UNCHANGED <<deposits, withRow, attempts>>
    /\ failedLogs' = failedLogs \union {LogOf(h)}
    /\ NextOf(h)
    /\ NotTheTables

legacyCrash ==
    /\ "crash" \in Faults /\ crashes < MaxCrashes /\ running # "down"
    /\ crashes' = crashes + 1
    /\ running' = "down" /\ startBlock' = 0
    /\ handlers' = [h \in Handlers |-> Idle]
    /\ UNCHANGED <<chainVars, tableVars, loopVars, bridgings, spawned, dropped,
                   legacyTables>>

-----------------------------------------------------------------------------
handlerStep(h) ==
    \/ lookUp(h) \/ createLegacyDeposit(h) \/ createLegacyTransfer(h)
    \/ markProcessed(h)

newBlock(last) == NewBlock(last) /\ UNCHANGED legacyVars

LegacyNext ==
    \/ \E last \in 0 .. NumTx : newBlock(last)
    \/ startListening \/ stopListening \/ legacyCrash
    \/ \E h \in Handlers : \/ logPushed(h) \/ pollForMissedEvents(h)
                           \/ handlerStep(h) \/ handlingFails(h)

LegacySpec == LegacyInit /\ [][LegacyNext]_listenerVars

-----------------------------------------------------------------------------
\* Every row of a later table comes from one of the table before.
LegacyTypeOK ==
    /\ running \in {"down", "listening", "stopped"} /\ startBlock \in Nat
    /\ \A h \in Handlers :
          /\ handlers[h].todo \subseteq Logs
          /\ Stage(h, "next") <=> LogOf(h) = NoLog
          /\ LogOf(h) \in Logs \union {NoLog}
    /\ deposits \subseteq Logs /\ withRow \subseteq deposits
    /\ processed \subseteq withRow /\ failedLogs \subseteq Logs
    /\ attempts \in [Txs -> Nat]

\* However pushed logs and polls overlap, one handler at most goes on to create a
\* transfer for a deposit transaction: of two that found no deposit for the same log,
\* or for two logs of the transaction, the unique insert of the deposit stops one.
OneTransferPerTransaction == \A x \in Txs : attempts[x] <= 1

\* A deposit without a transfer is one a handler is at, met a database error, or was
\* under way in a crash; the polls pass over it ever after.
LegacyOrphansExplained ==
    Cardinality((deposits \ withRow)
                   \ (failedLogs \union { LogOf(h) : h \in Handlers }))
        <= crashes * Cardinality(Handlers)
=============================================================================
