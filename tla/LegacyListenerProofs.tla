------------------------ MODULE LegacyListenerProofs ------------------------
(***************************************************************************)
(* What LegacyListener promises for any number of handlers, deposits,      *)
(* crashes and database errors.  The argument: the unique insert lets one  *)
(* log of a transaction through; what a handler does to a log after that   *)
(* it does to a log that has its deposit; so of a transaction one handler  *)
(* at most ever comes to the transfer; and a handler that finds the        *)
(* deposit of another leaves the row to that other one.                    *)
(***************************************************************************)
EXTENDS LegacyListener, DepositIndexerProofs

OneDepositPerTransaction == \A l, m \in deposits : l[1] = m[1] => l = m

\* What holds of a handler, given the tables it writes.
HandlerOK(r) ==
    /\ r \in [todo : SUBSET Logs, log : Logs \union {NoLog},
              stage : {"next", "insert", "transfer", "mark"}]
    /\ r.stage = "next" <=> r.log = NoLog
    /\ r.stage \in {"transfer", "mark"} => r.log \in deposits
    /\ r.stage = "mark" => r.log \in withRow

Tables ==
    /\ deposits \subseteq Logs /\ withRow \subseteq deposits
    /\ processed \subseteq withRow /\ failedLogs \subseteq Logs

Modes ==
    /\ running \in {"down", "listening", "stopped"} /\ startBlock \in Nat

HandlersOK ==
    /\ DOMAIN handlers = Handlers
    /\ handlers = [h \in Handlers |-> handlers[h]]
    /\ \A h \in Handlers : HandlerOK(handlers[h])

\* Who is about to create a transfer is the first and only one of its transaction, and
\* whoever was there before left the deposit.
OneAttemptEach ==
    /\ attempts \in [Txs -> Nat]
    /\ \A x \in Txs : attempts[x] <= 1
    /\ \A x \in Txs : attempts[x] # 0 => \E m \in deposits : m[1] = x
    /\ \A h \in Handlers : Stage(h, "transfer") => attempts[LogOf(h)[1]] = 0
    /\ \A g, h \in Handlers :
          Stage(g, "transfer") /\ Stage(h, "transfer") /\ LogOf(g)[1] = LogOf(h)[1]
          => g = h

LegacyInv ==
    /\ TypeInv
    /\ Modes /\ Tables /\ HandlersOK
    /\ OneDepositPerTransaction

-----------------------------------------------------------------------------
LEMMA NoLogIsNoLog == NoLog \notin Logs
<1>1. SUFFICES ASSUME NoLog \in Logs PROVE FALSE
  OBVIOUS
<1>2. NoLog[1] \in Txs
  BY <1>1, LogShape
<1>3. QED
  BY <1>2, SizesAssumption DEF NoLog, Txs

LEMMA LegacyInvInit == LegacyInit => LegacyInv
<1> SUFFICES ASSUME LegacyInit PROVE LegacyInv
  OBVIOUS
<1>1. TypeInv
  BY TypeInit DEF LegacyInit
<1>2. HandlerOK(Idle)
  BY DEF HandlerOK, Idle, NoLog
<1>3. HandlersOK
  BY <1>2 DEF LegacyInit, HandlersOK
<1>4. QED
  BY <1>1, <1>3 DEF LegacyInit, LegacyInv, Modes, Tables, OneDepositPerTransaction

\* A step that writes one handler and lets the tables grow leaves the others right.
LEMMA OneHandlerMoves ==
    ASSUME HandlersOK, NEW h \in Handlers, NEW r,
           handlers' = [handlers EXCEPT ![h] = r],
           deposits \subseteq deposits', withRow \subseteq withRow',
           HandlerOK(r)'
    PROVE  HandlersOK'
  BY DEF HandlersOK, HandlerOK

\* Pushed logs and polls start a handler with nothing done.
LEMMA TakeStep ==
    ASSUME LegacyInv, NEW h \in Handlers, NEW logs \in SUBSET Logs, Take(h, logs)
    PROVE  LegacyInv'
<1> DEFINE r == [Idle EXCEPT !.todo = logs]
<1>1. HandlerOK(r)' /\ handlers' = [handlers EXCEPT ![h] = r]
  BY DEF Take, HandlerOK, Idle, NoLog, LegacyInv, HandlersOK
<1>2. TypeInv'
  BY DEF Take, LegacyInv, TypeInv, IndexerTypeOK, CurIsStored, Handling,
         indexerVars, chainVars, tableVars, loopVars, historyVars
<1>3. QED
  BY <1>1, <1>2, OneHandlerMoves
     DEF Take, LegacyInv, Modes, Tables, OneDepositPerTransaction, legacyTables,
         historyOfLogs

\* The steps of one handler.
LEMMA HandlerStepKeeps ==
    ASSUME LegacyInv, NEW h \in Handlers, handlerStep(h) \/ handlingFails(h)
    PROVE  LegacyInv'
<1> USE DEF LegacyInv, Modes, Tables, Stage, LogOf, NotTheTables, legacyTables,
            historyOfLogs
<1>1. TypeInv'
  <2>1. UNCHANGED indexerVars
    BY DEF handlerStep, handlingFails, lookUp, createLegacyDeposit,
           createLegacyTransfer, markProcessed
  <2>2. QED
    BY <2>1, TypeStep
<1>2. HandlerOK(handlers[h])
  BY DEF HandlersOK
<1> PICK passed : passed = [handlers[h] EXCEPT !.stage = "next", !.log = NoLog]
  OBVIOUS
<1>3. HandlerOK(passed)'
  BY <1>2 DEF HandlerOK, NoLog
<1>4. CASE lookUp(h)
  <2>1. PICK l \in handlers[h].todo :
            handlers' = [handlers EXCEPT ![h] =
                [todo  |-> handlers[h].todo \ {l},
                 log   |-> IF l \in deposits THEN NoLog ELSE l,
                 stage |-> IF l \in deposits THEN "next" ELSE "insert"]]
    BY <1>4 DEF lookUp, HandlersOK
  <2> PICK r : r = [todo  |-> handlers[h].todo \ {l},
                    log   |-> IF l \in deposits THEN NoLog ELSE l,
                    stage |-> IF l \in deposits THEN "next" ELSE "insert"]
    OBVIOUS
  <2>2. l \in Logs
    BY <1>2 DEF HandlerOK
  <2>3. HandlerOK(r)'
    BY <1>2, <2>2, NoLogIsNoLog DEF HandlerOK
  <2>4. HandlersOK'
    BY <1>4, <2>1, <2>3, OneHandlerMoves DEF lookUp
  <2>5. QED
    BY <1>1, <1>4, <2>4 DEF lookUp, OneDepositPerTransaction
<1>5. CASE createLegacyDeposit(h)
  <2>1. LogOf(h) \in Logs
    BY <1>2, <1>5, NoLogIsNoLog DEF createLegacyDeposit, HandlerOK
  <2>2. CASE \E m \in deposits : m[1] = LogOf(h)[1]
    <3>1. HandlersOK'
      BY <1>3, <1>5, <2>2, OneHandlerMoves DEF createLegacyDeposit, NextOf
    <3>2. QED
      BY <1>1, <1>5, <2>2, <3>1 DEF createLegacyDeposit, OneDepositPerTransaction
  <2>3. CASE ~\E m \in deposits : m[1] = LogOf(h)[1]
    <3> PICK r : r = [handlers[h] EXCEPT !.stage = "transfer"]
      OBVIOUS
    <3>1. deposits' = deposits \union {LogOf(h)}
      BY <1>5, <2>3 DEF createLegacyDeposit
    <3>2. HandlerOK(r)'
      BY <1>2, <1>5, <3>1, <2>1, NoLogIsNoLog DEF createLegacyDeposit, HandlerOK
    <3>3. HandlersOK'
      BY <1>5, <2>3, <3>1, <3>2, OneHandlerMoves DEF createLegacyDeposit, ToStage
    <3>4. OneDepositPerTransaction'
      BY <2>3, <3>1 DEF OneDepositPerTransaction
    <3>5. QED
      BY <1>1, <1>5, <2>1, <3>1, <3>3, <3>4 DEF createLegacyDeposit
  <2>4. QED
    BY <2>2, <2>3
<1>6. CASE createLegacyTransfer(h)
  <2> PICK r : r = [handlers[h] EXCEPT !.stage = "mark"]
    OBVIOUS
  <2>1. LogOf(h) \in deposits
    BY <1>2, <1>6 DEF createLegacyTransfer, HandlerOK
  <2>2. HandlerOK(r)'
    BY <1>2, <1>6, <2>1 DEF createLegacyTransfer, HandlerOK
  <2>3. HandlersOK'
    BY <1>6, <2>2, OneHandlerMoves DEF createLegacyTransfer, ToStage
  <2>4. QED
    BY <1>1, <1>6, <2>1, <2>3 DEF createLegacyTransfer, OneDepositPerTransaction
<1>7. CASE markProcessed(h)
  <2>1. LogOf(h) \in withRow
    BY <1>2, <1>7 DEF markProcessed, HandlerOK
  <2>2. HandlersOK'
    BY <1>3, <1>7, OneHandlerMoves DEF markProcessed, NextOf
  <2>3. QED
    BY <1>1, <1>7, <2>1, <2>2 DEF markProcessed, OneDepositPerTransaction
<1>8. CASE handlingFails(h)
  <2>1. LogOf(h) \in Logs
    BY <1>2, <1>8, NoLogIsNoLog DEF handlingFails, HandlerOK
  <2>2. /\ deposits \subseteq deposits' /\ withRow \subseteq withRow'
        /\ handlers' = [handlers EXCEPT ![h] = passed]
        /\ failedLogs' = failedLogs \union {LogOf(h)}
        /\ UNCHANGED <<running, startBlock>>
    BY <1>8 DEF handlingFails, NextOf
  <2>3. HandlersOK'
    BY <1>3, <2>2, OneHandlerMoves
  <2>4. /\ deposits' \subseteq Logs /\ withRow' \subseteq deposits'
        /\ processed' \subseteq withRow'
        /\ OneDepositPerTransaction'
    <3>1. CASE Stage(h, "insert")
      BY <1>8, <2>1, <3>1 DEF handlingFails, OneDepositPerTransaction
    <3>2. CASE Stage(h, "transfer")
      BY <1>2, <1>8, <2>1, <3>2 DEF handlingFails, OneDepositPerTransaction, HandlerOK
    <3>3. CASE Stage(h, "mark")
      BY <1>2, <1>8, <2>1, <3>3 DEF handlingFails, OneDepositPerTransaction, HandlerOK
    <3>4. QED
      BY <1>8, <3>1, <3>2, <3>3 DEF handlingFails
  <2>5. QED
    BY <1>1, <2>1, <2>2, <2>3, <2>4
<1>9. QED
  BY <1>4, <1>5, <1>6, <1>7, <1>8 DEF handlerStep

LEMMA LegacyCrashKeeps ==
    ASSUME LegacyInv, legacyCrash
    PROVE  LegacyInv'
<1>1. TypeInv'
  BY DEF legacyCrash, LegacyInv, TypeInv, IndexerTypeOK, CurIsStored, Handling,
         chainVars, tableVars, loopVars, Mined
<1>2. HandlerOK(Idle)'
  BY DEF HandlerOK, Idle, NoLog
<1>3. HandlersOK'
  BY <1>2 DEF legacyCrash, HandlersOK
<1>4. QED
  BY <1>1, <1>3 DEF legacyCrash, LegacyInv, Modes, Tables, OneDepositPerTransaction,
                    legacyTables, historyOfLogs

LEMMA LegacyInvStep == LegacyInv /\ [LegacyNext]_listenerVars => LegacyInv'
<1> SUFFICES ASSUME LegacyInv, [LegacyNext]_listenerVars PROVE LegacyInv'
  OBVIOUS
<1>1. ASSUME UNCHANGED legacyVars, [IndexerNext]_indexerVars PROVE LegacyInv'
  <2>1. TypeInv'
    BY <1>1, TypeStep DEF LegacyInv
  <2>2. QED
    BY <1>1, <2>1 DEF LegacyInv, Modes, Tables, HandlersOK, HandlerOK,
                      OneDepositPerTransaction, legacyVars, legacyTables,
                      historyOfLogs
<1>2. CASE startListening
  <2>1. UNCHANGED indexerVars
    BY <1>2 DEF startListening
  <2>2. TypeInv'
    BY <2>1, TypeStep DEF LegacyInv
  <2>3. startBlock' \in Nat
    BY <1>2, SizesAssumption
       DEF startListening, Below, LegacyInv, TypeInv, IndexerTypeOK
  <2>4. QED
    BY <1>2, <2>2, <2>3 DEF startListening, LegacyInv, Modes, Tables, HandlersOK,
                            HandlerOK, OneDepositPerTransaction, legacyTables,
                            historyOfLogs
<1>3. CASE stopListening
  <2>1. UNCHANGED indexerVars
    BY <1>3 DEF stopListening
  <2>2. TypeInv'
    BY <2>1, TypeStep DEF LegacyInv
  <2>3. QED
    BY <1>3, <2>2 DEF stopListening, LegacyInv, Modes, Tables, HandlersOK,
                      HandlerOK, OneDepositPerTransaction, legacyTables,
                            historyOfLogs
<1>4. ASSUME NEW h \in Handlers, logPushed(h) PROVE LegacyInv'
  <2>1. PICK l \in LogsIn(head, head) : Take(h, {l})
    BY <1>4 DEF logPushed
  <2>2. {l} \in SUBSET Logs
    BY DEF LogsIn
  <2>3. QED
    BY <2>1, <2>2, TakeStep
<1>5. ASSUME NEW h \in Handlers, pollForMissedEvents(h) PROVE LegacyInv'
  <2> DEFINE logs == LogsIn(Later(startBlock, Below(head, PollLookback)), head)
  <2>1. Take(h, logs)
    BY <1>5 DEF pollForMissedEvents
  <2>2. logs \in SUBSET Logs
    BY DEF LogsIn
  <2>3. QED
    BY <2>1, <2>2, TakeStep
<1>6. ASSUME NEW last \in 0 .. NumTx, newBlock(last) PROVE LegacyInv'
  <2>1. IndexerNext
    BY <1>6 DEF newBlock, IndexerNext
  <2>2. QED
    BY <1>1, <1>6, <2>1 DEF newBlock
<1>7. CASE LegacyNext
  BY <1>2, <1>3, <1>4, <1>5, <1>6, <1>7, HandlerStepKeeps, LegacyCrashKeeps
     DEF LegacyNext
<1>8. CASE UNCHANGED listenerVars
  BY <1>1, <1>8 DEF listenerVars
<1>9. QED
  BY <1>7, <1>8

-----------------------------------------------------------------------------
(* One attempt at a transfer for each transaction.                         *)

LEMMA AttemptInit == LegacyInit => OneAttemptEach
  BY DEF LegacyInit, OneAttemptEach, Idle, Stage

\* The logs the handlers are at.
InHands == { LogOf(h) : h \in Handlers }

\* A step that moves handler h on to log l, the others being where they were.
LEMMA HandAfterMove ==
    ASSUME HandlersOK, NEW h \in Handlers, NEW r, handlers' = [handlers EXCEPT ![h] = r]
    PROVE  /\ handlers'[h] = r
           /\ \A g \in Handlers \ {h} : handlers'[g] = handlers[g]
           /\ InHands \subseteq InHands' \union {LogOf(h)}
           /\ r.log \in InHands'
<1>1. handlers'[h] = r /\ \A g \in Handlers \ {h} : handlers'[g] = handlers[g]
  BY DEF HandlersOK
<1>2. QED
  BY <1>1 DEF InHands, LogOf

\* Steps that make no attempt and bring no handler to its transfer.
LEMMA NoAttempt ==
    ASSUME OneAttemptEach, attempts' = attempts, deposits \subseteq deposits',
           \A h \in Handlers : Stage(h, "transfer")' =>
              Stage(h, "transfer") /\ handlers'[h].log = handlers[h].log
    PROVE  OneAttemptEach'
  BY DEF OneAttemptEach, Stage, LogOf

LEMMA HandlerAttempts ==
    ASSUME LegacyInv, OneAttemptEach, NEW h \in Handlers,
           handlerStep(h) \/ handlingFails(h)
    PROVE  OneAttemptEach'
<1> USE DEF legacyTables, historyOfLogs
<1>a. HandlersOK /\ Tables /\ HandlerOK(handlers[h])
  BY DEF LegacyInv, HandlersOK
<1>l. LogOf(h) \in Logs => LogOf(h)[1] \in Txs
  BY LogShape
\* Steps of handlers that are not at the transfer, and not on their way to it.
<1>1. ASSUME NEW r, handlers' = [handlers EXCEPT ![h] = r], r.stage # "transfer",
             deposits \subseteq deposits', attempts' = attempts
      PROVE  OneAttemptEach'
  <2>1. handlers'[h] = r /\ \A g \in Handlers \ {h} : handlers'[g] = handlers[g]
    BY <1>a, <1>1, HandAfterMove
  <2>2. QED
    BY <1>1, <2>1, NoAttempt DEF Stage
<1>2. CASE lookUp(h)
  <2>1. PICK l \in handlers[h].todo :
            handlers' = [handlers EXCEPT ![h] =
                [todo  |-> handlers[h].todo \ {l},
                 log   |-> IF l \in deposits THEN NoLog ELSE l,
                 stage |-> IF l \in deposits THEN "next" ELSE "insert"]]
    BY <1>a, <1>2 DEF lookUp, HandlersOK
  <2> PICK r : r = [todo  |-> handlers[h].todo \ {l},
                    log   |-> IF l \in deposits THEN NoLog ELSE l,
                    stage |-> IF l \in deposits THEN "next" ELSE "insert"]
    OBVIOUS
  <2>2. r.stage # "transfer" /\ handlers' = [handlers EXCEPT ![h] = r]
    BY <2>1
  <2>3. attempts' = attempts /\ deposits' = deposits
    BY <1>2 DEF lookUp
  <2>4. QED
    BY <1>1, <2>2, <2>3
<1>3. CASE createLegacyDeposit(h)
  <2>1. handlers[h].stage = "insert" /\ LogOf(h) \in Logs
    BY <1>a, <1>3, NoLogIsNoLog DEF createLegacyDeposit, HandlerOK, Stage, LogOf
  <2>2. CASE \E m \in deposits : m[1] = LogOf(h)[1]
    <3> PICK r : r = [handlers[h] EXCEPT !.stage = "next", !.log = NoLog]
      OBVIOUS
    <3>1. handlers' = [handlers EXCEPT ![h] = r] /\ r.stage = "next"
      BY <1>3, <2>2, <1>a DEF createLegacyDeposit, NextOf, HandlerOK
    <3>2. QED
      BY <1>1, <1>3, <2>2, <3>1 DEF createLegacyDeposit
  <2>3. CASE ~\E m \in deposits : m[1] = LogOf(h)[1]
    <3> PICK r : r = [handlers[h] EXCEPT !.stage = "transfer"]
      OBVIOUS
    <3>1. handlers' = [handlers EXCEPT ![h] = r] /\ r.log = LogOf(h)
      BY <1>3, <2>3, <1>a DEF createLegacyDeposit, ToStage, HandlerOK, LogOf
    <3>2. /\ handlers'[h] = r /\ \A g \in Handlers \ {h} : handlers'[g] = handlers[g]
      BY <1>a, <3>1, HandAfterMove
    <3>3. attempts' = attempts /\ deposits' = deposits \union {LogOf(h)}
      BY <1>3, <2>3 DEF createLegacyDeposit
    <3>4. attempts[LogOf(h)[1]] = 0
      BY <1>l, <2>1, <2>3 DEF OneAttemptEach
    <3>5. \A g \in Handlers : Stage(g, "transfer") => LogOf(g)[1] # LogOf(h)[1]
      BY <2>3 DEF LegacyInv, HandlersOK, HandlerOK, Stage, LogOf
    <3>6. QED
      BY <3>1, <3>2, <3>3, <3>4, <3>5 DEF OneAttemptEach, Stage, LogOf
  <2>4. QED
    BY <2>2, <2>3
<1>4. ASSUME NEW r, handlers[h].stage = "transfer", Attempt(h), r.stage # "transfer",
             handlers' = [handlers EXCEPT ![h] = r], UNCHANGED deposits
      PROVE  OneAttemptEach'
  <2>1. LogOf(h) \in deposits /\ LogOf(h) \in Logs
    BY <1>a, <1>4 DEF HandlerOK, LogOf, Tables
  <2>2. handlers'[h] = r /\ \A g \in Handlers \ {h} : handlers'[g] = handlers[g]
    BY <1>a, <1>4, HandAfterMove
  <2> DEFINE x == LogOf(h)[1]
  <2>3. x \in Txs /\ attempts \in [Txs -> Nat] /\ attempts[x] = 0
    BY <1>4, <1>l, <2>1 DEF OneAttemptEach, Stage
  <2>4. attempts' = [attempts EXCEPT ![x] = attempts[x] + 1]
    BY <1>4 DEF Attempt
  <2>5. attempts' \in [Txs -> Nat] /\ attempts'[x] = 1
        /\ \A y \in Txs \ {x} : attempts'[y] = attempts[y]
    BY <2>3, <2>4
  <2>6. ASSUME NEW g \in Handlers, Stage(g, "transfer")'
        PROVE  g # h /\ Stage(g, "transfer") /\ LogOf(g)' = LogOf(g) /\ LogOf(g)[1] # x
    <3>1. g # h
      BY <1>4, <2>2, <2>6 DEF Stage
    <3>2. QED
      BY <1>4, <2>2, <2>6, <3>1 DEF OneAttemptEach, Stage, LogOf
  <2>7. ASSUME NEW g \in Handlers, Stage(g, "transfer") PROVE LogOf(g)[1] \in Txs
    BY <2>7, LogShape DEF LegacyInv, HandlersOK, HandlerOK, Tables, Stage, LogOf
  <2>8. \A y \in Txs : attempts'[y] <= 1
    BY <2>5 DEF OneAttemptEach
  <2>9. \A y \in Txs : attempts'[y] # 0 => \E m \in deposits : m[1] = y
    BY <2>1, <2>5 DEF OneAttemptEach
  <2>10. \A g \in Handlers : Stage(g, "transfer")' => attempts'[LogOf(g)'[1]] = 0
    <3>1. SUFFICES ASSUME NEW g \in Handlers, Stage(g, "transfer")'
                   PROVE  attempts'[LogOf(g)'[1]] = 0
      OBVIOUS
    <3>2. QED
      BY <2>5, <2>6, <2>7, <3>1 DEF OneAttemptEach
  <2> HIDE DEF x
  <2>11. QED
    BY <1>4, <2>5, <2>6, <2>8, <2>9, <2>10 DEF OneAttemptEach
<1>5. CASE createLegacyTransfer(h)
  <2> PICK r : r = [handlers[h] EXCEPT !.stage = "mark"]
    OBVIOUS
  <2>1. /\ handlers' = [handlers EXCEPT ![h] = r] /\ r.stage = "mark"
        /\ handlers[h].stage = "transfer"
    BY <1>5, <1>a DEF createLegacyTransfer, ToStage, Stage, HandlerOK
  <2>2. QED
    BY <1>4, <1>5, <2>1 DEF createLegacyTransfer
<1>6. CASE markProcessed(h) \/ handlingFails(h)
  <2> PICK r : r = [handlers[h] EXCEPT !.stage = "next", !.log = NoLog]
    OBVIOUS
  <2>1. handlers' = [handlers EXCEPT ![h] = r] /\ r.stage = "next"
    BY <1>6, <1>a DEF markProcessed, handlingFails, NextOf, HandlerOK
  <2>2. \/ deposits \subseteq deposits' /\ attempts' = attempts
        \/ handlers[h].stage = "transfer" /\ Attempt(h) /\ UNCHANGED deposits
    BY <1>6 DEF markProcessed, handlingFails, Stage
  <2>3. QED
    BY <1>1, <1>4, <2>1, <2>2
<1>7. QED
  BY <1>2, <1>3, <1>5, <1>6 DEF handlerStep

LEMMA AttemptStep ==
    LegacyInv /\ OneAttemptEach /\ [LegacyNext]_listenerVars => OneAttemptEach'
<1> SUFFICES ASSUME LegacyInv, OneAttemptEach, [LegacyNext]_listenerVars
             PROVE  OneAttemptEach'
  OBVIOUS
<1> USE DEF legacyTables, historyOfLogs
<1>1. ASSUME UNCHANGED legacyTables, handlers' = handlers PROVE OneAttemptEach'
  BY <1>1, NoAttempt DEF Stage
<1>2. ASSUME NEW h \in Handlers, NEW logs, Take(h, logs) PROVE OneAttemptEach'
  <2>1. \A g \in Handlers : /\ handlers'[g].stage = handlers[g].stage
                            /\ handlers'[g].log = handlers[g].log
    BY <1>2 DEF Take, LegacyInv, HandlersOK, HandlerOK
  <2>2. QED
    BY <1>2, <2>1, NoAttempt DEF Take, Stage
<1>3. CASE startListening \/ stopListening
  BY <1>1, <1>3 DEF startListening, stopListening
<1>4. ASSUME NEW h \in Handlers, logPushed(h) \/ pollForMissedEvents(h)
      PROVE  OneAttemptEach'
  BY <1>2, <1>4 DEF logPushed, pollForMissedEvents
<1>5. ASSUME NEW last \in 0 .. NumTx, newBlock(last) PROVE OneAttemptEach'
  BY <1>1, <1>5 DEF newBlock, legacyVars
<1>6. CASE legacyCrash
  BY <1>6, NoAttempt DEF legacyCrash, Idle, Stage
<1>7. CASE UNCHANGED listenerVars
  BY <1>1, <1>7 DEF listenerVars, legacyVars
<1>8. QED
  BY <1>3, <1>4, <1>5, <1>6, <1>7, HandlerAttempts DEF LegacyNext

-----------------------------------------------------------------------------
\* The handlers, the tables and their order, of the listener with a subscription and
\* a timer: every row of a later table comes from one of the table before.
THEOREM LegacyTypes == LegacySpec => []LegacyTypeOK
<1>1. LegacyInv /\ OneAttemptEach => LegacyTypeOK
  BY DEF LegacyInv, LegacyTypeOK, Modes, Tables, HandlersOK, HandlerOK, Stage, LogOf,
         OneAttemptEach
<1>2. QED
  BY LegacyInvInit, LegacyInvStep, AttemptInit, AttemptStep, <1>1, PTL DEF LegacySpec

\* However many pushed logs and polls are at work at once, and whatever fails, one
\* handler at most ever calls createTransferFromDeposit for a deposit transaction.
THEOREM OneTransferEach == LegacySpec => []OneTransferPerTransaction
<1>1. OneAttemptEach => OneTransferPerTransaction
  BY DEF OneAttemptEach, OneTransferPerTransaction
<1>2. QED
  BY LegacyInvInit, LegacyInvStep, AttemptInit, AttemptStep, <1>1, PTL DEF LegacySpec

-----------------------------------------------------------------------------
\* Deposits that have no row and no prospect of one: no database error was met with
\* them, and no handler is at them.
Forsaken == (deposits \ withRow) \ (failedLogs \union InHands)

\* A handler about to insert may find the deposit there, because of another handler;
\* that one is then still to create the row, or has it, or failed.
OthersDeposit ==
    \A h \in Handlers :
        /\ Stage(h, "insert") /\ LogOf(h) \in deposits
        /\ LogOf(h) \notin withRow /\ LogOf(h) \notin failedLogs
        => \E g \in Handlers : Stage(g, "transfer") /\ LogOf(g) = LogOf(h)

ForsakenCostCrashes ==
    /\ IsFiniteSet(Forsaken)
    /\ Cardinality(Forsaken) <= crashes * Cardinality(Handlers)

ForsakenInv == OthersDeposit /\ ForsakenCostCrashes

\* Steps that lose nothing.
LEMMA NoneForsaken ==
    ASSUME LegacyInv, ForsakenCostCrashes,
           Forsaken' \subseteq Forsaken, crashes' = crashes
    PROVE  ForsakenCostCrashes'
<1>1. /\ IsFiniteSet(Forsaken') /\ Cardinality(Forsaken') <= Cardinality(Forsaken)
      /\ Cardinality(Forsaken') \in Nat /\ Cardinality(Forsaken) \in Nat
  BY FS_Subset, FS_CardinalityType DEF ForsakenCostCrashes
<1>2. crashes \in Nat /\ Cardinality(Handlers) \in Nat
  BY LegacyAssumption, FS_CardinalityType DEF LegacyInv, TypeInv, IndexerTypeOK
<1>3. crashes * Cardinality(Handlers) \in Nat
  BY <1>2
<1> HIDE DEF Forsaken
<1>4. QED
  BY <1>1, <1>3 DEF ForsakenCostCrashes

\* Steps that neither write a table nor take a handler away from its log.
LEMMA NothingWritten ==
    ASSUME LegacyInv, ForsakenInv, UNCHANGED legacyTables, crashes' = crashes,
           \A h \in Handlers : /\ handlers'[h].stage = handlers[h].stage
                               /\ handlers'[h].log = handlers[h].log
    PROVE  ForsakenInv'
<1>1. InHands' = InHands
  BY DEF InHands, LogOf
<1>2. Forsaken' = Forsaken
  BY <1>1 DEF Forsaken, legacyTables, historyOfLogs
<1>3. OthersDeposit'
  BY DEF ForsakenInv, OthersDeposit, Stage, LogOf, legacyTables, historyOfLogs
<1>4. QED
  BY <1>2, <1>3, NoneForsaken DEF ForsakenInv

LEMMA HandlerForsakesNone ==
    ASSUME LegacyInv, ForsakenInv, NEW h \in Handlers,
           handlerStep(h) \/ handlingFails(h)
    PROVE  ForsakenInv'
<1> USE DEF NotTheTables, legacyTables, historyOfLogs
<1>a. /\ HandlersOK /\ Tables /\ HandlerOK(handlers[h]) /\ OthersDeposit
      /\ ForsakenCostCrashes
  BY DEF LegacyInv, HandlersOK, ForsakenInv
<1>b. crashes' = crashes
  BY DEF handlerStep, handlingFails, lookUp, createLegacyDeposit,
         createLegacyTransfer, markProcessed, indexerVars, historyVars
<1>c. NoLog \notin deposits
  BY <1>a, NoLogIsNoLog DEF Tables
<1>1. CASE lookUp(h)
  <2>1. PICK l \in handlers[h].todo :
            handlers' = [handlers EXCEPT ![h] =
                [todo  |-> handlers[h].todo \ {l},
                 log   |-> IF l \in deposits THEN NoLog ELSE l,
                 stage |-> IF l \in deposits THEN "next" ELSE "insert"]]
    BY <1>a, <1>1 DEF lookUp, HandlersOK
  <2> PICK r : r = [todo  |-> handlers[h].todo \ {l},
                    log   |-> IF l \in deposits THEN NoLog ELSE l,
                    stage |-> IF l \in deposits THEN "next" ELSE "insert"]
    OBVIOUS
  <2>2. /\ handlers'[h] = r /\ \A g \in Handlers \ {h} : handlers'[g] = handlers[g]
        /\ InHands \subseteq InHands' \union {LogOf(h)}
    BY <1>a, <2>1, HandAfterMove
  <2>3. LogOf(h) = NoLog /\ handlers[h].stage = "next"
    BY <1>a, <1>1 DEF lookUp, HandlerOK, Stage, LogOf
  <2>4. UNCHANGED <<deposits, withRow, failedLogs>>
    BY <1>1 DEF lookUp
  <2>5. Forsaken' \subseteq Forsaken
    BY <1>c, <2>2, <2>3, <2>4 DEF Forsaken
  <2>6. OthersDeposit'
    <3>1. ASSUME NEW k \in Handlers, Stage(k, "insert")', LogOf(k)' \in deposits,
                 LogOf(k)' \notin withRow, LogOf(k)' \notin failedLogs
          PROVE  \E g \in Handlers : Stage(g, "transfer")' /\ LogOf(g)' = LogOf(k)'
      <4>1. k # h
        BY <2>2, <3>1 DEF Stage, LogOf
      <4>2. Stage(k, "insert") /\ LogOf(k)' = LogOf(k)
        BY <2>2, <3>1, <4>1 DEF Stage, LogOf
      <4>3. PICK g \in Handlers : Stage(g, "transfer") /\ LogOf(g) = LogOf(k)
        BY <1>a, <3>1, <4>2 DEF OthersDeposit
      <4>4. g # h
        BY <2>3, <4>3 DEF Stage
      <4>5. QED
        BY <2>2, <4>2, <4>3, <4>4 DEF Stage, LogOf
    <3>2. QED
      BY <2>4, <3>1 DEF OthersDeposit
  <2>7. QED
    BY <1>a, <1>b, <2>5, <2>6, NoneForsaken DEF ForsakenInv
\* The other steps do something to the log of h, which is in a table afterwards.
<1>2. ASSUME NEW r, handlers' = [handlers EXCEPT ![h] = r],
             handlers[h].stage # "next", r.stage # "insert",
             deposits' \subseteq deposits \union {LogOf(h)},
             withRow \subseteq withRow', failedLogs \subseteq failedLogs',
             \/ LogOf(h) \in withRow' \/ LogOf(h) \in failedLogs'
             \/ r.stage = "transfer" /\ r.log = LogOf(h)
             \/ /\ handlers[h].stage = "insert" /\ deposits' = deposits
                /\ \/ LogOf(h) \notin deposits
                   \/ \E g \in Handlers \ {h} :
                         Stage(g, "transfer") /\ LogOf(g) = LogOf(h)
      PROVE  ForsakenInv'
  <2>1. /\ handlers'[h] = r /\ \A g \in Handlers \ {h} : handlers'[g] = handlers[g]
        /\ InHands \subseteq InHands' \union {LogOf(h)}
        /\ r.log \in InHands'
    BY <1>a, <1>2, HandAfterMove
  <2>2. ASSUME NEW g \in Handlers \ {h} PROVE LogOf(g) \in InHands'
    BY <2>1, <2>2 DEF InHands, LogOf
  <2>3. Forsaken' \subseteq Forsaken
    <3>1. ASSUME NEW l \in Forsaken' PROVE l \in Forsaken
      <4>1. l # LogOf(h)
        BY <1>2, <2>1, <2>2, <3>1 DEF Forsaken
      <4>2. QED
        BY <1>2, <2>1, <3>1, <4>1 DEF Forsaken
    <3>2. QED
      BY <3>1
  <2>4. OthersDeposit'
    <3>1. ASSUME NEW k \in Handlers, Stage(k, "insert")', LogOf(k)' \in deposits',
                 LogOf(k)' \notin withRow', LogOf(k)' \notin failedLogs'
          PROVE  \E g \in Handlers : Stage(g, "transfer")' /\ LogOf(g)' = LogOf(k)'
      <4>1. k # h
        BY <1>2, <2>1, <3>1 DEF Stage
      <4>2. Stage(k, "insert") /\ LogOf(k)' = LogOf(k)
        BY <2>1, <4>1, <3>1 DEF Stage, LogOf
      <4>3. CASE LogOf(k) = LogOf(h)
        BY <1>2, <2>1, <3>1, <4>2, <4>3 DEF Stage, LogOf
      <4>4. CASE LogOf(k) # LogOf(h)
        <5>1. PICK g \in Handlers : Stage(g, "transfer") /\ LogOf(g) = LogOf(k)
          BY <1>2, <1>a, <3>1, <4>2, <4>4 DEF OthersDeposit
        <5>2. g # h
          BY <4>4, <5>1
        <5>3. QED
          BY <2>1, <4>2, <5>1, <5>2 DEF Stage, LogOf
      <4>5. QED
        BY <4>3, <4>4
    <3>2. QED
      BY <3>1 DEF OthersDeposit
  <2>5. QED
    BY <1>a, <1>b, <2>3, <2>4, NoneForsaken DEF ForsakenInv
<1>3. CASE createLegacyDeposit(h)
  <2>1. CASE \E m \in deposits : m[1] = LogOf(h)[1]
    <3> PICK r : r = [handlers[h] EXCEPT !.stage = "next", !.log = NoLog]
      OBVIOUS
    <3>1. /\ handlers' = [handlers EXCEPT ![h] = r] /\ r.stage = "next"
          /\ handlers[h].stage = "insert"
          /\ UNCHANGED <<deposits, withRow, failedLogs>>
      BY <1>3, <2>1, <1>a DEF createLegacyDeposit, NextOf, Stage, HandlerOK
    <3>2. \/ LogOf(h) \in withRow' \/ LogOf(h) \in failedLogs'
          \/ LogOf(h) \notin deposits
          \/ \E g \in Handlers \ {h} : Stage(g, "transfer") /\ LogOf(g) = LogOf(h)
      BY <1>a, <3>1 DEF OthersDeposit, Stage
    <3>3. QED
      BY <1>2, <3>1, <3>2
  <2>2. CASE ~\E m \in deposits : m[1] = LogOf(h)[1]
    <3> PICK r : r = [handlers[h] EXCEPT !.stage = "transfer"]
      OBVIOUS
    <3>1. /\ handlers' = [handlers EXCEPT ![h] = r] /\ r.stage = "transfer"
          /\ r.log = LogOf(h) /\ handlers[h].stage = "insert"
          /\ deposits' = deposits \union {LogOf(h)}
          /\ UNCHANGED <<withRow, failedLogs>>
      BY <1>3, <2>2, <1>a DEF createLegacyDeposit, ToStage, Stage, HandlerOK, LogOf
    <3>2. QED
      BY <1>2, <3>1
  <2>3. QED
    BY <2>1, <2>2
<1>4. CASE createLegacyTransfer(h)
  <2> PICK r : r = [handlers[h] EXCEPT !.stage = "mark"]
    OBVIOUS
  <2>1. /\ handlers' = [handlers EXCEPT ![h] = r] /\ r.stage = "mark"
        /\ handlers[h].stage = "transfer"
        /\ withRow' = withRow \union {LogOf(h)}
        /\ UNCHANGED <<deposits, failedLogs>>
    BY <1>4, <1>a DEF createLegacyTransfer, ToStage, Stage, HandlerOK
  <2>2. QED
    BY <1>2, <2>1
<1>5. CASE markProcessed(h)
  <2> PICK r : r = [handlers[h] EXCEPT !.stage = "next", !.log = NoLog]
    OBVIOUS
  <2>1. /\ handlers' = [handlers EXCEPT ![h] = r] /\ r.stage = "next"
        /\ handlers[h].stage = "mark" /\ LogOf(h) \in withRow
        /\ UNCHANGED <<deposits, withRow, failedLogs>>
    BY <1>5, <1>a DEF markProcessed, NextOf, Stage, HandlerOK, LogOf
  <2>2. QED
    BY <1>2, <2>1
<1>6. CASE handlingFails(h)
  <2> PICK r : r = [handlers[h] EXCEPT !.stage = "next", !.log = NoLog]
    OBVIOUS
  <2>1. /\ handlers' = [handlers EXCEPT ![h] = r] /\ r.stage = "next"
        /\ handlers[h].stage # "next"
        /\ failedLogs' = failedLogs \union {LogOf(h)}
        /\ deposits' \subseteq deposits \union {LogOf(h)}
        /\ withRow \subseteq withRow'
    BY <1>6, <1>a DEF handlingFails, NextOf, Stage, HandlerOK
  <2>2. QED
    BY <1>2, <2>1
<1>7. QED
  BY <1>1, <1>3, <1>4, <1>5, <1>6 DEF handlerStep

\* The process takes its handlers with it, each with one log at most.
LEMMA CrashForsakes ==
    ASSUME LegacyInv, ForsakenInv, legacyCrash
    PROVE  ForsakenInv'
<1>1. /\ crashes' = crashes + 1 /\ UNCHANGED legacyTables
      /\ \A h \in Handlers : handlers'[h] = Idle
  BY DEF legacyCrash
<1>2. OthersDeposit'
  BY <1>1 DEF OthersDeposit, Stage, Idle
<1>3. Forsaken' \subseteq Forsaken \union InHands
  BY <1>1 DEF Forsaken, legacyTables, historyOfLogs
<1>4. /\ crashes \in Nat /\ Cardinality(Handlers) \in Nat /\ IsFiniteSet(Handlers)
  BY LegacyAssumption, FS_CardinalityType DEF LegacyInv, TypeInv, IndexerTypeOK
<1>5. IsFiniteSet(InHands) /\ Cardinality(InHands) <= Cardinality(Handlers)
  <2> DEFINE at == [h \in Handlers |-> LogOf(h)]
  <2>1. at \in Surjection(Handlers, InHands)
    BY DEF Surjection, InHands
  <2> HIDE DEF at
  <2>2. QED
    BY <1>4, <2>1, FS_Surjection
<1> HIDE DEF Forsaken, InHands
<1>6. /\ IsFiniteSet(Forsaken \union InHands)
      /\ Cardinality(Forsaken \union InHands)
           <= Cardinality(Forsaken) + Cardinality(InHands)
      /\ Cardinality(Forsaken) \in Nat /\ Cardinality(InHands) \in Nat
      /\ Cardinality(Forsaken \union InHands) \in Nat
  <2>1. IsFiniteSet(Forsaken) /\ IsFiniteSet(Forsaken \cap InHands)
    BY <1>5, FS_Subset DEF ForsakenInv, ForsakenCostCrashes
  <2>2. Cardinality(Forsaken \cap InHands) \in Nat
    BY <2>1, FS_CardinalityType
  <2>3. Cardinality(Forsaken) \in Nat /\ Cardinality(InHands) \in Nat
    BY <1>5, <2>1, FS_CardinalityType
  <2>4. /\ IsFiniteSet(Forsaken \union InHands)
        /\ Cardinality(Forsaken \union InHands) = Cardinality(Forsaken)
             + Cardinality(InHands) - Cardinality(Forsaken \cap InHands)
    BY <1>5, <2>1, FS_Union
  <2>5. Cardinality(Forsaken \union InHands) \in Nat
    BY <2>4, FS_CardinalityType
  <2>6. QED
    BY <2>2, <2>3, <2>4, <2>5
<1>7. /\ IsFiniteSet(Forsaken')
      /\ Cardinality(Forsaken') <= Cardinality(Forsaken \union InHands)
      /\ Cardinality(Forsaken') \in Nat
  BY <1>3, <1>6, FS_Subset, FS_CardinalityType
<1>8. (crashes + 1) * Cardinality(Handlers)
        = crashes * Cardinality(Handlers) + Cardinality(Handlers)
      /\ crashes * Cardinality(Handlers) \in Nat
  BY <1>4
<1>9. Cardinality(Forsaken') <= (crashes + 1) * Cardinality(Handlers)
  BY <1>4, <1>5, <1>6, <1>7, <1>8 DEF ForsakenInv, ForsakenCostCrashes
<1>10. QED
  BY <1>1, <1>2, <1>7, <1>9 DEF ForsakenInv, ForsakenCostCrashes

LEMMA ForsakenStep ==
    LegacyInv /\ ForsakenInv /\ [LegacyNext]_listenerVars => ForsakenInv'
<1> SUFFICES ASSUME LegacyInv, ForsakenInv, [LegacyNext]_listenerVars
             PROVE  ForsakenInv'
  OBVIOUS
<1>1. ASSUME UNCHANGED legacyTables, crashes' = crashes, handlers' = handlers
      PROVE  ForsakenInv'
  BY <1>1, NothingWritten
<1>2. ASSUME NEW h \in Handlers, NEW logs, Take(h, logs) PROVE ForsakenInv'
  <2>1. /\ UNCHANGED legacyTables /\ crashes' = crashes
        /\ handlers' = [handlers EXCEPT ![h].todo = logs]
    BY <1>2 DEF Take, indexerVars, historyVars
  <2>2. \A g \in Handlers : /\ handlers'[g].stage = handlers[g].stage
                            /\ handlers'[g].log = handlers[g].log
    BY <2>1 DEF LegacyInv, HandlersOK, HandlerOK
  <2>3. QED
    BY <2>1, <2>2, NothingWritten
<1>3. CASE startListening \/ stopListening
  BY <1>1, <1>3 DEF startListening, stopListening, indexerVars, historyVars
<1>4. ASSUME NEW h \in Handlers, logPushed(h) \/ pollForMissedEvents(h)
      PROVE  ForsakenInv'
  BY <1>2, <1>4 DEF logPushed, pollForMissedEvents
<1>5. ASSUME NEW last \in 0 .. NumTx, newBlock(last) PROVE ForsakenInv'
  BY <1>1, <1>5 DEF newBlock, NewBlock, legacyVars, historyVars
<1>6. CASE UNCHANGED listenerVars
  BY <1>1, <1>6 DEF listenerVars, legacyVars, indexerVars, historyVars
<1>7. QED
  BY <1>3, <1>4, <1>5, <1>6, HandlerForsakesNone, CrashForsakes DEF LegacyNext

LEMMA ForsakenInit == LegacyInit => ForsakenInv
<1> SUFFICES ASSUME LegacyInit PROVE ForsakenInv
  OBVIOUS
<1>1. Forsaken = {} /\ crashes = 0 /\ Cardinality(Handlers) \in Nat
  BY LegacyAssumption, FS_CardinalityType DEF LegacyInit, IndexerInit, Forsaken
<1>2. ForsakenCostCrashes
  BY <1>1, FS_EmptySet DEF ForsakenCostCrashes
<1>3. QED
  BY <1>2 DEF LegacyInit, ForsakenInv, OthersDeposit

\* A deposit that stays without a transfer has a handler, met a database error, or was
\* in the hands of a handler that a crash ended: however many there are of each.
THEOREM LegacyOrphansCostCrashes == LegacySpec => []LegacyOrphansExplained
<1>1. ForsakenInv => LegacyOrphansExplained
  BY DEF ForsakenInv, ForsakenCostCrashes, Forsaken, InHands, LegacyOrphansExplained
<1>2. QED
  BY LegacyInvInit, LegacyInvStep, ForsakenInit, ForsakenStep, <1>1, PTL
     DEF LegacySpec
=============================================================================
