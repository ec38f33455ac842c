------------------------ MODULE DepositIndexerProofs ------------------------
(***************************************************************************)
(* Proofs about DepositIndexer for all values of its constants: types,     *)
(* what the listener may lose and leave without a row, and, for chains     *)
(* whose deposit transactions emit one Deposited log each, at most one     *)
(* bridging and one workflow.                                              *)
(***************************************************************************)
EXTENDS DepositIndexer, FiniteSetTheorems, TLAPS

\* pc values at which the loop holds a log it has taken.
Handling == {"stored", "duplicate", "bridge", "rebridge"}

\* A log in hand is a log of a stored deposit: what keeps `transfers` within
\* `stored`.
CurIsStored == pc \in Handling => cur \in Logs /\ cur[1] \in stored

TypeInv == IndexerTypeOK /\ CurIsStored

LEMMA LogShape ==
    ASSUME NEW l \in Logs
    PROVE  l[1] \in Txs /\ l[2] \in Nat /\ l = <<l[1], l[2]>>
<1>1. PICK x \in Txs : l \in {x} \X (1 .. LogsOf[x])
  BY DEF Logs
<1>2. LogsOf[x] \in Nat
  BY LogsAssumption
<1>3. QED
  BY <1>1, <1>2

LEMMA NoRowIsNoStatus == "DEPOSIT_DETECTED" \in Statuses
  BY DEF Statuses

LEMMA StatusFoundType == StatusFound \subseteq Statuses
  BY NoRowIsNoStatus DEF StatusFound, BeforeWorkflow, Statuses

LEMMA WindowType ==
    ASSUME IndexerTypeOK
    PROVE  FromBlock \in Nat /\ ToBlock \in Int
  BY SizesAssumption DEF IndexerTypeOK, FromBlock, ToBlock, NoBlock

-----------------------------------------------------------------------------
LEMMA TypeInit == IndexerInit => TypeInv
  BY SizesAssumption DEF IndexerInit, TypeInv, IndexerTypeOK, CurIsStored, Handling

LEMMA TypeStep == TypeInv /\ [IndexerNext]_indexerVars => TypeInv'
<1> SUFFICES ASSUME TypeInv, [IndexerNext]_indexerVars PROVE TypeInv'
  OBVIOUS
<1> USE DEF TypeInv, IndexerTypeOK, CurIsStored, Handling, chainVars, tableVars,
            loopVars, historyVars
<1>1. ASSUME NEW last \in 0 .. NumTx, NewBlock(last) PROVE TypeInv'
  BY <1>1, SizesAssumption DEF NewBlock, Txs
<1>2. CASE start
  BY <1>2 DEF start
<1>3. CASE queryWindow
  BY <1>3, WindowType DEF queryWindow, LogsIn
<1>4. ASSUME NEW l \in todo, createDeposit(l) PROVE TypeInv'
  BY <1>4, LogShape DEF createDeposit, TakeLog
<1>5. ASSUME NEW l \in todo, duplicateDeposit(l) PROVE TypeInv'
  BY <1>5, LogShape DEF duplicateDeposit, TakeLog
<1>6. ASSUME NEW l \in todo, createDepositFails(l) PROVE TypeInv'
  BY <1>6, LogShape DEF createDepositFails
<1>7. CASE createTransfer
  BY <1>7 DEF createTransfer, CallBridge
<1>8. CASE createTransferFails
  BY <1>8 DEF createTransferFails, NextLog
<1>9. ASSUME NEW st \in StatusFound, recoverDuplicate(st) PROVE TypeInv'
  <2>1. st \in Statuses
    BY StatusFoundType
  <2>2. CASE st = "VAULT_TO_BRIDGE_TRANSFER_CONFIRMED"
    BY <1>9, <2>2 DEF recoverDuplicate, NextLog, Spawn
  <2>3. CASE st # "VAULT_TO_BRIDGE_TRANSFER_CONFIRMED"
    BY <1>9, <2>1, <2>3 DEF recoverDuplicate, CallBridge
  <2>4. QED
    BY <2>2, <2>3
<1>10. CASE recoverDuplicateFails
  BY <1>10 DEF recoverDuplicateFails, AbandonWindow
<1>11. CASE bridgeDone
  BY <1>11 DEF bridgeDone, NextLog, Spawn
<1>12. CASE bridgeThrows
  BY <1>12 DEF bridgeThrows, NextLog, AbandonWindow
<1>13. CASE endWindow
  BY <1>13 DEF endWindow
<1>14. CASE crash
  BY <1>14 DEF crash
<1>15. CASE UNCHANGED indexerVars
  BY <1>15 DEF indexerVars
<1>16. QED
  BY <1>1, <1>2, <1>3, <1>4, <1>5, <1>6, <1>7, <1>8, <1>9, <1>10, <1>11, <1>12,
     <1>13, <1>14, <1>15 DEF IndexerNext, ListenerNext, handleLog

\* The listener and its tables keep their types, and a transfer row belongs to a
\* stored deposit, for every chain, window size and combination of faults.
THEOREM IndexerTypes == IndexerSpec => []IndexerTypeOK
<1>1. TypeInv => IndexerTypeOK
  BY DEF TypeInv
<1>2. QED
  BY TypeInit, TypeStep, <1>1, PTL DEF IndexerSpec

-----------------------------------------------------------------------------
\* The premise of the at-most-once theorem.
SingleLog == LogsOf = [x \in Txs |-> 1]

InWindow == pc \in {"loop"} \union Handling

\* Everything stored lies at or below the block the listener will go on from: at
\* lastProcessedBlock between windows, at the window's end inside one.  This is
\* what makes the windows of two incarnations disjoint on stored deposits.
StoredIsBehind ==
    /\ \A x \in stored : Mined(x)
    /\ pc = "idle" => \A x \in stored : blockOf[x] <= lastProcessed
    /\ InWindow => \A x \in stored : blockOf[x] <= toBlock

\* What a window still holds is mined, inside the window and not stored.
TodoIsNew ==
    /\ todo # {} => InWindow
    /\ \A l \in todo : /\ Mined(l[1]) /\ blockOf[l[1]] <= toBlock
                       /\ l[1] \notin stored

NeverDuplicate == pc \notin {"duplicate", "rebridge"}

\* Nothing was done for a deposit that is not stored; and what was done for the
\* one in hand is what the loop's position says.
DoneSoFar ==
    /\ HandledAtMostOnce
    /\ \A x \in Txs : x \notin stored => bridgings[x] = 0 /\ spawned[x] = 0
    /\ pc = "stored" => bridgings[cur[1]] = 0
    /\ pc \in {"stored", "bridge"} => spawned[cur[1]] = 0

OnceInv == TypeInv /\ StoredIsBehind /\ TodoIsNew /\ NeverDuplicate /\ DoneSoFar

LEMMA OnceInit == IndexerInit => OnceInv
<1> SUFFICES ASSUME IndexerInit PROVE OnceInv
  OBVIOUS
<1>1. TypeInv
  BY TypeInit
<1>2. QED
  BY <1>1 DEF IndexerInit, OnceInv, StoredIsBehind, TodoIsNew, NeverDuplicate,
              DoneSoFar, HandledAtMostOnce, InWindow, Handling

\* In a single-log world a log is its transaction.
LEMMA OneLogPerTx ==
    ASSUME SingleLog, NEW l \in Logs, NEW m \in Logs, l[1] = m[1]
    PROVE  l = m
<1>1. PICK x \in Txs : l \in {x} \X (1 .. LogsOf[x])
  BY DEF Logs
<1>2. PICK y \in Txs : m \in {y} \X (1 .. LogsOf[y])
  BY DEF Logs
<1>3. LogsOf[x] = 1 /\ LogsOf[y] = 1
  BY DEF SingleLog
<1>4. l = <<x, 1>> /\ m = <<y, 1>>
  BY <1>1, <1>2, <1>3
<1>5. QED
  BY <1>4

\* A log taken out of the window leaves only logs of other transactions.
LEMMA OthersRemain ==
    ASSUME SingleLog, todo \subseteq Logs, NEW l \in todo, NEW m \in todo \ {l}
    PROVE  m[1] # l[1]
  BY OneLogPerTx

LEMMA WindowStartsAfterStored ==
    ASSUME OnceInv, pc = "idle", FromBlock <= ToBlock, NEW x \in stored
    PROVE  blockOf[x] < FromBlock /\ blockOf[x] <= ToBlock
<1>1. blockOf[x] \in Nat /\ blockOf[x] <= lastProcessed
  BY DEF OnceInv, StoredIsBehind, TypeInv, IndexerTypeOK
<1>2. lastProcessed # NoBlock /\ lastProcessed \in Nat
  BY <1>1 DEF OnceInv, TypeInv, IndexerTypeOK, NoBlock
<1>3. FromBlock = lastProcessed + 1
  BY <1>2 DEF FromBlock
<1>4. FromBlock \in Nat /\ ToBlock \in Int
  BY WindowType DEF OnceInv, TypeInv
<1>5. QED
  BY <1>1, <1>2, <1>3, <1>4

LEMMA OnceStep ==
    ASSUME SingleLog
    PROVE  OnceInv /\ [IndexerNext]_indexerVars => OnceInv'
<1> SUFFICES ASSUME OnceInv, [IndexerNext]_indexerVars PROVE OnceInv'
  OBVIOUS
<1>0. TypeInv /\ TypeInv'
  BY TypeStep DEF OnceInv
<1> USE DEF OnceInv, StoredIsBehind, TodoIsNew, NeverDuplicate, DoneSoFar,
            HandledAtMostOnce, InWindow, Handling, Mined, chainVars, tableVars,
            loopVars, historyVars
<1>1. ASSUME NEW last \in 0 .. NumTx, NewBlock(last) PROVE OnceInv'
  <2>1. \A x \in Txs : Mined(x) => blockOf'[x] = blockOf[x]
    BY <1>1 DEF NewBlock
  <2>2. \A l \in todo : l[1] \in Txs
    BY <1>0, LogShape DEF TypeInv, IndexerTypeOK
  <2>3. UNCHANGED <<stored, pc, lastProcessed, toBlock, todo, cur, bridgings, spawned>>
    BY <1>1 DEF NewBlock
  <2>4. stored \subseteq Txs
    BY <1>0 DEF TypeInv, IndexerTypeOK
  <2>5. StoredIsBehind'
    BY <2>1, <2>3, <2>4
  <2>6. TodoIsNew'
    BY <2>1, <2>2, <2>3
  <2>7. QED
    BY <1>0, <2>3, <2>5, <2>6
<1>2. CASE start
  BY <1>0, <1>2 DEF start, IsLastStoredBlock
<1>3. CASE queryWindow
  <2>1. \A x \in stored : blockOf[x] < FromBlock /\ blockOf[x] <= ToBlock
    BY <1>3, WindowStartsAfterStored DEF queryWindow
  <2>2. /\ toBlock' = ToBlock /\ todo' = LogsIn(FromBlock, ToBlock) /\ pc' = "loop"
        /\ UNCHANGED <<blockOf, stored, bridgings, spawned, cur>>
    BY <1>3 DEF queryWindow
  <2>3. \A l \in LogsIn(FromBlock, ToBlock) :
           /\ l \in Logs /\ blockOf[l[1]] # 0
           /\ FromBlock <= blockOf[l[1]] /\ blockOf[l[1]] <= ToBlock
    BY DEF LogsIn
  <2>4. \A l \in LogsIn(FromBlock, ToBlock) : l[1] \notin stored
    <3> SUFFICES ASSUME NEW l \in LogsIn(FromBlock, ToBlock), l[1] \in stored
                 PROVE  FALSE
      OBVIOUS
    <3>1. blockOf[l[1]] \in Nat
      BY <1>0 DEF TypeInv, IndexerTypeOK
    <3>2. FromBlock \in Nat
      BY <1>0, WindowType DEF TypeInv
    <3>3. QED
      BY <2>1, <2>3, <3>1, <3>2
  <2>5. StoredIsBehind'
    BY <2>1, <2>2
  <2>6. TodoIsNew'
    BY <2>2, <2>3, <2>4
  <2>7. QED
    BY <1>0, <2>2, <2>5, <2>6
<1>4. ASSUME NEW l \in todo, createDeposit(l) PROVE OnceInv'
  <2>1. \A m \in todo \ {l} : m[1] # l[1]
    BY <1>0, OthersRemain DEF TypeInv, IndexerTypeOK
  <2>2. l[1] \in Txs
    BY <1>0, LogShape DEF TypeInv, IndexerTypeOK
  <2>3. StoredIsBehind' /\ TodoIsNew'
    BY <1>4, <2>1 DEF createDeposit, TakeLog
  <2>4. QED
    BY <1>0, <1>4, <2>2, <2>3 DEF createDeposit, TakeLog
<1>5. ASSUME NEW l \in todo, duplicateDeposit(l) PROVE FALSE
  BY <1>5 DEF duplicateDeposit
<1>6. ASSUME NEW l \in todo, createDepositFails(l) PROVE OnceInv'
  <2>1. \A m \in todo \ {l} : m[1] # l[1]
    BY <1>0, OthersRemain DEF TypeInv, IndexerTypeOK
  <2>2. StoredIsBehind' /\ TodoIsNew'
    BY <1>6, <2>1 DEF createDepositFails
  <2>3. QED
    BY <1>0, <1>6, <2>2 DEF createDepositFails
<1>7. CASE createTransfer
  BY <1>0, <1>7 DEF createTransfer, CallBridge, TypeInv, IndexerTypeOK, CurIsStored
<1>8. CASE createTransferFails
  BY <1>0, <1>8 DEF createTransferFails, NextLog
<1>9. ASSUME NEW st \in StatusFound, recoverDuplicate(st) PROVE FALSE
  BY <1>9 DEF recoverDuplicate
<1>10. CASE recoverDuplicateFails
  BY <1>10 DEF recoverDuplicateFails
<1>11. CASE bridgeDone
  BY <1>0, <1>11 DEF bridgeDone, NextLog, Spawn, TypeInv, IndexerTypeOK, CurIsStored
<1>12. CASE bridgeThrows
  BY <1>0, <1>12 DEF bridgeThrows, NextLog
<1>13. CASE endWindow
  BY <1>0, <1>13 DEF endWindow
<1>14. CASE crash
  BY <1>0, <1>14 DEF crash
<1>15. CASE UNCHANGED indexerVars
  BY <1>0, <1>15 DEF indexerVars
<1>16. QED
  BY <1>1, <1>2, <1>3, <1>4, <1>5, <1>6, <1>7, <1>8, <1>9, <1>10, <1>11, <1>12,
     <1>13, <1>14, <1>15 DEF IndexerNext, ListenerNext, handleLog

\* In a world of one Deposited log per transaction, every deposit is bridged at
\* most once and gets at most one CCTP workflow: under any crashes, restarts,
\* database errors and bridge failures, for any window and lookback sizes.
THEOREM AtMostOnce ==
    ASSUME SingleLog
    PROVE  IndexerSpec => []HandledAtMostOnce
<1>1. OnceInv => HandledAtMostOnce
  BY DEF OnceInv, DoneSoFar
<1>2. QED
  BY OnceInit, OnceStep, <1>1, PTL DEF IndexerSpec

-----------------------------------------------------------------------------
\* The premise of the theorem on losses: the first window reaches the chain's start.
LookbackCovers == MaxBlock <= Lookback

\* Deposits are in chain order, above block 1 and at or below the head.
ChainOrder ==
    /\ 1 <= head
    /\ head = 1 \/ head <= MaxBlock
    /\ \A x \in Txs : Mined(x) => 1 < blockOf[x] /\ blockOf[x] <= head
    /\ \A x, y \in Txs : x < y /\ Mined(y) => Mined(x) /\ blockOf[x] <= blockOf[y]

\* The listener stays within the chain, and the first incarnation has no table yet.
LoopInChain ==
    /\ lastProcessed <= head /\ toBlock <= head
    /\ todo # {} => InWindow
    /\ \A l \in todo : Mined(l[1]) /\ blockOf[l[1]] <= toBlock
    /\ \A x \in stored : Mined(x)
    /\ pc = "down" /\ crashes = 0 => stored = {}

\* A deposit that is neither stored nor spoiled by a database error.
Missing(x) == Mined(x) /\ x \notin stored /\ x \notin dropped

SharesBlock(x) == crashes > 0 /\ \E y \in stored : blockOf[y] = blockOf[x]

InTodo(x) == \E l \in todo : l[1] = x

\* A missing deposit is ahead of everything stored, of lastProcessedBlock, and of
\* the window except for what the window still holds: or it shares a block with a
\* stored deposit after a crash.
MissingIsAhead ==
    \A x \in Txs : Missing(x) =>
        \/ SharesBlock(x)
        \/ /\ \A y \in stored : blockOf[y] <= blockOf[x]
           /\ lastProcessed < blockOf[x]
           /\ InWindow /\ blockOf[x] <= toBlock => InTodo(x)

LossInv == TypeInv /\ ChainOrder /\ LoopInChain /\ MissingIsAhead

LEMMA LossInit == IndexerInit => LossInv
<1> SUFFICES ASSUME IndexerInit PROVE LossInv
  OBVIOUS
<1>1. TypeInv
  BY TypeInit
<1>2. QED
  BY <1>1 DEF IndexerInit, LossInv, ChainOrder, LoopInChain, MissingIsAhead, Missing,
              Mined, InWindow, Handling, NoBlock

\* A mined transaction has a log, so a window that covers its block holds it.
LEMMA WindowHoldsMined ==
    ASSUME TypeInv, NEW x \in Txs, NEW from \in Nat, NEW to \in Int,
           Mined(x), from <= blockOf[x], blockOf[x] <= to
    PROVE  \E l \in LogsIn(from, to) : l[1] = x
<1>1. LogsOf[x] \in Nat /\ LogsOf[x] # 0
  BY LogsAssumption
<1>2. 1 \in 1 .. LogsOf[x]
  BY <1>1
<1>3. <<x, 1>> \in {x} \X (1 .. LogsOf[x])
  BY <1>2
<1>4. <<x, 1>> \in Logs
  BY <1>3 DEF Logs
<1>5. <<x, 1>> \in LogsIn(from, to)
  BY <1>4 DEF LogsIn
<1>6. QED
  BY <1>5

\* Storing the next log of a window, or failing to, keeps what is missing ahead.
LEMMA NextLogKeepsAhead ==
    ASSUME LossInv, pc = "loop", NEW l \in todo, IsNextLog(l),
           stored' = stored \union {l[1]} \/ (stored' = stored /\ l[1] \in stored')
             \/ (stored' = stored /\ l[1] \in dropped'),
           dropped \subseteq dropped', todo' = todo \ {l},
           UNCHANGED <<blockOf, lastProcessed, toBlock, crashes>>
    PROVE  MissingIsAhead'
<1>1. todo \subseteq Logs /\ blockOf \in [Txs -> Nat] /\ stored \subseteq Txs
      /\ toBlock \in Nat
  BY DEF LossInv, TypeInv, IndexerTypeOK
<1>2. l[1] \in Txs /\ l[1] \in Nat
  BY <1>1, LogShape, SizesAssumption DEF Txs
<1>3. Mined(l[1]) /\ blockOf[l[1]] <= toBlock
  BY DEF LossInv, LoopInChain
<1>4. SUFFICES ASSUME NEW x \in Txs, Missing(x)'
               PROVE  \/ SharesBlock(x)'
                      \/ /\ \A y \in stored' : blockOf[y] <= blockOf[x]
                         /\ lastProcessed < blockOf[x]
                         /\ InWindow' /\ blockOf[x] <= toBlock => InTodo(x)'
  BY DEF MissingIsAhead
<1>5. Missing(x) /\ x # l[1]
  BY <1>4 DEF Missing, Mined
<1>6. CASE SharesBlock(x)
  BY <1>6 DEF SharesBlock
<1>7. CASE /\ \A y \in stored : blockOf[y] <= blockOf[x]
           /\ lastProcessed < blockOf[x]
           /\ InWindow /\ blockOf[x] <= toBlock => InTodo(x)
  <2>1. x \in Nat /\ blockOf[x] \in Nat /\ blockOf[l[1]] \in Nat
    BY <1>1, <1>2, SizesAssumption DEF Txs
  <2>2. blockOf[x] <= toBlock => \E m \in todo \ {l} : m[1] = x
    BY <1>5, <1>7 DEF InWindow, InTodo
  <2>3. blockOf[l[1]] <= blockOf[x]
    <3>1. CASE blockOf[x] <= toBlock
      <4>1. PICK m \in todo : m[1] = x
        BY <2>2, <3>1
      <4>2. l[1] < x
        BY <1>5, <4>1, <1>2, <2>1 DEF IsNextLog
      <4>3. Mined(x)
        BY <1>5 DEF Missing
      <4>4. QED
        BY <4>2, <4>3, <1>2 DEF LossInv, ChainOrder
    <3>2. CASE toBlock < blockOf[x]
      BY <3>2, <1>3, <1>1, <2>1
    <3>3. QED
      BY <3>1, <3>2, <1>1, <2>1
  <2>4. QED
    BY <1>7, <2>2, <2>3 DEF InTodo
<1>8. QED
  BY <1>5, <1>6, <1>7 DEF LossInv, MissingIsAhead

LEMMA LossStep ==
    ASSUME LookbackCovers
    PROVE  LossInv /\ [IndexerNext]_indexerVars => LossInv'
<1> SUFFICES ASSUME LossInv, [IndexerNext]_indexerVars PROVE LossInv'
  OBVIOUS
<1>0. TypeInv /\ TypeInv'
  BY TypeStep DEF LossInv
<1> USE DEF LossInv, chainVars, tableVars, loopVars, historyVars
<1>1. ASSUME NEW last \in 0 .. NumTx, NewBlock(last) PROVE LossInv'
  <2>1. /\ head \in Nat /\ blockOf \in [Txs -> Nat] /\ stored \subseteq Txs
        /\ todo \subseteq Logs /\ lastProcessed \in Nat \union {NoBlock}
        /\ toBlock \in Nat
    BY <1>0 DEF TypeInv, IndexerTypeOK
  <2>2. /\ head < MaxBlock /\ head' = head + 1 /\ 1 <= head
        /\ UNCHANGED <<tableVars, loopVars, historyVars>>
    <3>1. 1 <= head
      BY <2>1, <1>1, SizesAssumption DEF NewBlock, ChainOrder
    <3>2. QED
      BY <3>1, <1>1 DEF NewBlock
  <2>3. \A x \in Txs : Mined(x) => Mined(x)' /\ blockOf'[x] = blockOf[x]
    BY <1>1 DEF NewBlock, Mined
  <2>4. \A x \in Txs : Mined(x)' /\ ~Mined(x) => x <= last /\ blockOf'[x] = head + 1
    BY <1>1, <2>1 DEF NewBlock, Mined
  <2>5. \A x \in Txs : ~Mined(x) /\ x <= last => Mined(x)' /\ blockOf'[x] = head + 1
    BY <1>1, <2>1, <2>2 DEF NewBlock, Mined
  <2>6. ChainOrder'
    BY <2>1, <2>2, <2>3, <2>4, <2>5, SizesAssumption DEF ChainOrder, Txs
  <2>7. LoopInChain'
    <3>1. \A m \in todo : m[1] \in Txs
      BY <2>1, LogShape
    <3>2. QED
      BY <2>1, <2>2, <2>3, <3>1, SizesAssumption
         DEF LoopInChain, InWindow, Handling, NoBlock
  <2>8. MissingIsAhead'
    <3>1. SUFFICES ASSUME NEW x \in Txs, Missing(x)'
                   PROVE  \/ SharesBlock(x)'
                          \/ /\ \A y \in stored' : blockOf'[y] <= blockOf'[x]
                             /\ lastProcessed' < blockOf'[x]
                             /\ InWindow' /\ blockOf'[x] <= toBlock' => InTodo(x)'
      BY DEF MissingIsAhead
    <3>2. \A y \in stored : Mined(y) /\ blockOf'[y] = blockOf[y] /\ blockOf[y] <= head
      BY <2>1, <2>3 DEF LoopInChain, ChainOrder
    <3>3. CASE Mined(x)
      <4>1. Missing(x) /\ blockOf'[x] = blockOf[x]
        BY <2>2, <2>3, <3>1, <3>3 DEF Missing
      <4>2. QED
        BY <4>1, <2>2, <3>2 DEF MissingIsAhead, SharesBlock, InWindow, Handling, InTodo
    <3>4. CASE ~Mined(x)
      <4>1. blockOf'[x] = head + 1
        BY <2>4, <3>1, <3>4 DEF Missing
      <4>2. QED
        BY <2>1, <2>2, <3>2, <4>1 DEF LoopInChain, NoBlock
    <3>5. QED
      BY <3>3, <3>4
  <2>9. QED
    BY <1>0, <2>6, <2>7, <2>8
<1>2. CASE start
  <2>1. /\ UNCHANGED <<head, blockOf, stored, dropped, crashes, toBlock, todo>>
        /\ pc = "down" /\ pc' = "idle" /\ IsLastStoredBlock(lastProcessed')
    BY <1>2 DEF start
  <2>2. blockOf \in [Txs -> Nat] /\ stored \subseteq Txs /\ crashes \in Nat
        /\ head \in Nat
    BY <1>0 DEF TypeInv, IndexerTypeOK
  <2>3. ChainOrder' /\ LoopInChain'
    BY <2>1, <2>2 DEF ChainOrder, LoopInChain, Mined, IsLastStoredBlock, InWindow,
                      Handling, NoBlock
  <2>4. MissingIsAhead'
    <3>1. SUFFICES ASSUME NEW x \in Txs, Missing(x), ~SharesBlock(x)
                   PROVE  /\ \A y \in stored : blockOf[y] <= blockOf[x]
                          /\ lastProcessed' < blockOf[x]
      BY <2>1 DEF MissingIsAhead, Missing, Mined, SharesBlock, InWindow, Handling
    <3>2. \A y \in stored : blockOf[y] <= blockOf[x] /\ blockOf[x] \in Nat
      BY <2>2, <3>1 DEF MissingIsAhead
    <3>3. CASE stored = {}
      BY <2>1, <2>2, <3>3 DEF IsLastStoredBlock, NoBlock
    <3>4. CASE stored # {}
      <4>1. PICK y \in stored : lastProcessed' = blockOf[y]
        BY <2>1, <3>4 DEF IsLastStoredBlock
      <4>2. crashes > 0
        BY <2>1, <2>2, <3>4 DEF LoopInChain
      <4>3. blockOf[y] # blockOf[x]
        BY <3>1, <4>2 DEF SharesBlock
      <4>4. QED
        BY <2>2, <3>2, <4>1, <4>3
    <3>5. QED
      BY <3>3, <3>4
  <2>5. QED
    BY <1>0, <2>3, <2>4
<1>3. CASE queryWindow
  <2>1. /\ UNCHANGED <<head, blockOf, stored, dropped, crashes, lastProcessed>>
        /\ pc' = "loop" /\ toBlock' = ToBlock /\ todo' = LogsIn(FromBlock, ToBlock)
    BY <1>3 DEF queryWindow
  <2>2. blockOf \in [Txs -> Nat] /\ head \in Nat /\ FromBlock \in Nat /\ ToBlock \in Int
        /\ lastProcessed \in Nat \union {NoBlock}
    BY <1>0, WindowType DEF TypeInv, IndexerTypeOK
  <2>3. ToBlock <= head
    BY <2>2, SizesAssumption DEF ToBlock
  <2>4. ChainOrder' /\ LoopInChain'
    BY <2>1, <2>2, <2>3
       DEF ChainOrder, LoopInChain, Mined, InWindow, Handling, LogsIn
  <2>5. \A x \in Txs : Mined(x) /\ lastProcessed < blockOf[x] => FromBlock <= blockOf[x]
    <3> SUFFICES ASSUME NEW x \in Txs, Mined(x), lastProcessed < blockOf[x]
                 PROVE  FromBlock <= blockOf[x]
      OBVIOUS
    <3>1. blockOf[x] \in Nat /\ 1 < blockOf[x] /\ blockOf[x] <= head
      BY <2>2 DEF ChainOrder
    <3>2. head <= Lookback
      BY <2>2, <3>1, LookbackCovers, SizesAssumption DEF ChainOrder, LookbackCovers
    <3>3. QED
      BY <2>2, <3>1, <3>2, SizesAssumption DEF FromBlock, NoBlock
  <2>6. MissingIsAhead'
    <3>1. SUFFICES ASSUME NEW x \in Txs, Missing(x), ~SharesBlock(x),
                          blockOf[x] <= ToBlock
                   PROVE  InTodo(x)'
      BY <2>1 DEF MissingIsAhead, Missing, Mined, SharesBlock
    <3>2. FromBlock <= blockOf[x] /\ Mined(x)
      BY <2>5, <3>1 DEF MissingIsAhead, Missing
    <3>3. QED
      BY <1>0, <2>1, <2>2, <3>1, <3>2, WindowHoldsMined DEF InTodo
  <2>7. QED
    BY <1>0, <2>4, <2>6
<1>4. ASSUME NEW l \in todo,
             createDeposit(l) \/ duplicateDeposit(l) \/ createDepositFails(l)
      PROVE  LossInv'
  <2>1. /\ UNCHANGED <<head, blockOf, lastProcessed, toBlock, crashes>>
        /\ pc = "loop" /\ pc' \in {"loop", "stored", "duplicate"}
        /\ todo' = todo \ {l} /\ IsNextLog(l) /\ dropped \subseteq dropped'
        /\ \/ stored' = stored \union {l[1]}
           \/ stored' = stored /\ l[1] \in stored'
           \/ stored' = stored /\ l[1] \in dropped'
    BY <1>4 DEF createDeposit, duplicateDeposit, createDepositFails, TakeLog
  <2>2. ChainOrder' /\ LoopInChain'
    BY <2>1 DEF ChainOrder, LoopInChain, Mined, InWindow, Handling
  <2>3. MissingIsAhead'
    BY <2>1, NextLogKeepsAhead
  <2>4. QED
    BY <1>0, <2>2, <2>3
<1>5. ASSUME UNCHANGED <<head, blockOf, stored, lastProcessed, toBlock, todo, crashes>>,
             dropped \subseteq dropped',
             pc \in Handling, pc' \in {"loop"} \union Handling
      PROVE  LossInv'
  BY <1>0, <1>5 DEF ChainOrder, LoopInChain, MissingIsAhead, Missing, Mined,
                    SharesBlock, InTodo, InWindow, Handling
<1>6. ASSUME UNCHANGED <<head, blockOf, stored, dropped, lastProcessed, crashes>>,
             toBlock' = 0, todo' = {}, pc \in Handling, pc' = "idle"
      PROVE  LossInv'
  <2>1. head \in Nat
    BY <1>0 DEF TypeInv, IndexerTypeOK
  <2>2. QED
    BY <1>0, <1>6, <2>1 DEF ChainOrder, LoopInChain, MissingIsAhead, Missing, Mined,
                            SharesBlock, InWindow, Handling
<1>7. CASE createTransfer
  BY <1>5, <1>7 DEF createTransfer, CallBridge, Handling
<1>8. CASE createTransferFails
  BY <1>5, <1>8 DEF createTransferFails, NextLog, Handling
<1>9. ASSUME NEW st \in StatusFound, recoverDuplicate(st) PROVE LossInv'
  BY <1>5, <1>9 DEF recoverDuplicate, NextLog, CallBridge, Handling
<1>10. CASE recoverDuplicateFails
  BY <1>6, <1>10 DEF recoverDuplicateFails, AbandonWindow, Handling
<1>11. CASE bridgeDone
  BY <1>5, <1>11 DEF bridgeDone, NextLog, Handling
<1>12. CASE bridgeThrows
  BY <1>5, <1>6, <1>12 DEF bridgeThrows, NextLog, AbandonWindow, Handling
<1>13. CASE endWindow
  <2>1. /\ UNCHANGED <<head, blockOf, stored, dropped, todo, crashes>>
        /\ pc = "loop" /\ todo = {} /\ lastProcessed' = toBlock
        /\ pc' = "idle" /\ toBlock' = 0
    BY <1>13 DEF endWindow
  <2>2. head \in Nat /\ toBlock \in Nat /\ blockOf \in [Txs -> Nat]
    BY <1>0 DEF TypeInv, IndexerTypeOK
  <2>3. ChainOrder' /\ LoopInChain'
    BY <2>1, <2>2 DEF ChainOrder, LoopInChain, Mined, InWindow, Handling
  <2>4. MissingIsAhead'
    BY <2>1, <2>2 DEF MissingIsAhead, Missing, Mined, SharesBlock, InTodo, InWindow,
                      Handling
  <2>5. QED
    BY <1>0, <2>3, <2>4
<1>14. CASE crash
  <2>1. /\ UNCHANGED <<head, blockOf, stored, dropped>> /\ crashes' = crashes + 1
        /\ pc' = "down" /\ lastProcessed' = NoBlock /\ toBlock' = 0 /\ todo' = {}
    BY <1>14 DEF crash
  <2>2. head \in Nat /\ crashes \in Nat /\ blockOf \in [Txs -> Nat]
    BY <1>0 DEF TypeInv, IndexerTypeOK
  <2>3. ChainOrder' /\ LoopInChain'
    BY <2>1, <2>2 DEF ChainOrder, LoopInChain, Mined, InWindow, Handling, NoBlock
  <2>4. MissingIsAhead'
    BY <2>1, <2>2 DEF MissingIsAhead, Missing, Mined, SharesBlock, InWindow, Handling,
                      NoBlock
  <2>5. QED
    BY <1>0, <2>3, <2>4
<1>15. CASE UNCHANGED indexerVars
  BY <1>0, <1>15 DEF indexerVars, ChainOrder, LoopInChain, MissingIsAhead, Missing,
                     Mined, SharesBlock, InTodo, InWindow, Handling
<1>16. QED
  BY <1>1, <1>2, <1>3, <1>4, <1>7, <1>8, <1>9, <1>10, <1>11, <1>12, <1>13, <1>14,
     <1>15 DEF IndexerNext, ListenerNext, handleLog

\* Whatever crashes, database errors, failing bridge calls and replayed windows
\* there are, on a chain of any length and deposits with any number of logs: a
\* deposit the listener went past without storing it met a database error, or
\* shares its block with a stored one after a crash.  In particular nothing is lost
\* across window boundaries.
THEOREM OnlyExplainedLosses ==
    ASSUME LookbackCovers
    PROVE  IndexerSpec => []LossExplained
<1>1. LossInv => LossExplained
  <2> SUFFICES ASSUME LossInv, NEW x \in Txs,
                      Mined(x), blockOf[x] <= lastProcessed, x \notin stored,
                      x \notin dropped
               PROVE  SharesBlock(x)
    BY DEF LossExplained, SharesBlock
  <2>1. blockOf[x] \in Nat /\ lastProcessed \in Int
    BY DEF LossInv, TypeInv, IndexerTypeOK, NoBlock
  <2>2. QED
    BY <2>1 DEF LossInv, MissingIsAhead, Missing
<1>2. QED
  BY LossInit, LossStep, <1>1, PTL DEF IndexerSpec


-----------------------------------------------------------------------------
\* Stored deposits that have no row although no database error touched them: those
\* a crash has cost.  The one the loop is about to give a row is not among them.
InHand == IF pc = "stored" THEN {cur[1]} ELSE {}

Orphans == ((stored \ transfers) \ dropped) \ InHand

OrphanInv == Cardinality(Orphans) <= crashes

LEMMA OrphansAreFinite ==
    ASSUME NEW S, S \subseteq Txs
    PROVE  IsFiniteSet(S) /\ Cardinality(S) \in Nat
<1>1. IsFiniteSet(Txs)
  BY SizesAssumption, FS_Interval DEF Txs
<1>2. QED
  BY <1>1, FS_Subset, FS_CardinalityType

\* No step but a crash adds to them, and a crash adds the one in hand.
LEMMA OrphanStep ==
    TypeInv /\ OrphanInv /\ [IndexerNext]_indexerVars => OrphanInv'
<1> SUFFICES ASSUME TypeInv, OrphanInv, [IndexerNext]_indexerVars PROVE OrphanInv'
  OBVIOUS
<1>1. Orphans \subseteq Txs /\ IsFiniteSet(Orphans) /\ Cardinality(Orphans) \in Nat
  <2>1. Orphans \subseteq Txs
    BY DEF TypeInv, IndexerTypeOK, Orphans
  <2>2. QED
    BY <2>1, OrphansAreFinite
<1>2. crashes \in Nat
  BY DEF TypeInv, IndexerTypeOK
<1>3. ASSUME Orphans' \subseteq Orphans, crashes' = crashes PROVE OrphanInv'
  <2>1. Cardinality(Orphans') <= Cardinality(Orphans) /\ Cardinality(Orphans') \in Nat
    BY <1>1, <1>3, FS_Subset, OrphansAreFinite
  <2>2. QED
    BY <1>1, <1>2, <1>3, <2>1 DEF OrphanInv
<1>4. ASSUME crash PROVE OrphanInv'
  <2>1. crashes' = crashes + 1 /\ UNCHANGED <<stored, transfers, dropped>>
    BY <1>4 DEF crash, tableVars
  <2>2. Orphans' \subseteq Orphans \union {cur[1]}
    BY <2>1 DEF Orphans, InHand
  <2>3. /\ IsFiniteSet(Orphans \union {cur[1]})
        /\ Cardinality(Orphans \union {cur[1]}) <= Cardinality(Orphans) + 1
        /\ Cardinality(Orphans \union {cur[1]}) \in Nat
    BY <1>1, FS_AddElement
  <2>4. /\ Cardinality(Orphans') <= Cardinality(Orphans \union {cur[1]})
        /\ Cardinality(Orphans') \in Nat
    BY <2>2, <2>3, FS_Subset, FS_CardinalityType
  <2>5. QED
    BY <1>1, <1>2, <2>1, <2>3, <2>4 DEF OrphanInv
<1>5. ASSUME NEW l \in todo, createDeposit(l) \/ duplicateDeposit(l)
      PROVE  OrphanInv'
  <2>1. /\ pc = "loop" /\ crashes' = crashes /\ UNCHANGED <<transfers, dropped>>
        /\ cur' = l
        /\ \/ stored' = stored /\ pc' = "duplicate"
           \/ stored' = stored \union {l[1]} /\ pc' = "stored"
    BY <1>5 DEF createDeposit, duplicateDeposit, TakeLog, historyVars
  <2>2. QED
    BY <1>3, <2>1 DEF Orphans, InHand
<1>6. ASSUME NEW l \in todo, createDepositFails(l) PROVE OrphanInv'
  BY <1>3, <1>6 DEF createDepositFails, Orphans, InHand
<1>7. CASE createTransfer \/ createTransferFails
  <2>1. /\ pc = "stored" /\ pc' \in {"bridge", "loop"} /\ crashes' = crashes
        /\ stored' = stored
        /\ transfers \subseteq transfers' /\ dropped \subseteq dropped'
        /\ cur[1] \in transfers' \/ cur[1] \in dropped'
    BY <1>7 DEF createTransfer, createTransferFails, CallBridge, NextLog
  <2>2. QED
    BY <1>3, <2>1 DEF Orphans, InHand
<1>8. ASSUME NEW st \in StatusFound, recoverDuplicate(st) PROVE OrphanInv'
  <2>1. /\ pc = "duplicate" /\ pc' \in {"loop", "rebridge"} /\ crashes' = crashes
        /\ stored' = stored /\ transfers \subseteq transfers' /\ dropped' = dropped
    BY <1>8 DEF recoverDuplicate, CallBridge, NextLog
  <2>2. QED
    BY <1>3, <2>1 DEF Orphans, InHand
<1>9. CASE recoverDuplicateFails
  <2>1. /\ pc = "duplicate" /\ pc' = "idle" /\ crashes' = crashes
        /\ stored' = stored /\ transfers \subseteq transfers' /\ dropped' = dropped
    BY <1>9 DEF recoverDuplicateFails, AbandonWindow, historyVars
  <2>2. QED
    BY <1>3, <2>1 DEF Orphans, InHand
<1>10. ASSUME UNCHANGED <<stored, transfers, dropped, crashes>>,
              pc # "stored", pc' # "stored"
       PROVE  OrphanInv'
  BY <1>3, <1>10 DEF Orphans, InHand
<1>11. CASE start \/ queryWindow \/ endWindow
  BY <1>10, <1>11 DEF start, queryWindow, endWindow, tableVars, historyVars
<1>12. CASE bridgeDone \/ bridgeThrows
  BY <1>10, <1>12
     DEF bridgeDone, bridgeThrows, NextLog, AbandonWindow, tableVars, historyVars
<1>13. ASSUME UNCHANGED <<stored, transfers, dropped, crashes, pc, cur>>
       PROVE  OrphanInv'
  BY <1>3, <1>13 DEF Orphans, InHand
<1>14. ASSUME NEW last \in 0 .. NumTx, NewBlock(last) PROVE OrphanInv'
  BY <1>13, <1>14 DEF NewBlock, tableVars, loopVars, historyVars
<1>15. CASE UNCHANGED indexerVars
  BY <1>13, <1>15 DEF indexerVars, tableVars, loopVars, historyVars
<1>16. QED
  BY <1>4, <1>5, <1>6, <1>7, <1>8, <1>9, <1>11, <1>12, <1>14, <1>15
     DEF IndexerNext, ListenerNext, handleLog

LEMMA OrphanInit == IndexerInit => OrphanInv
<1> SUFFICES ASSUME IndexerInit PROVE OrphanInv
  OBVIOUS
<1>1. Orphans = {} /\ crashes = 0
  BY DEF IndexerInit, Orphans
<1>2. QED
  BY <1>1, FS_EmptySet DEF OrphanInv

\* A stored deposit without a row met a database error or costs a crash: for any
\* number of deposits and any chain, at most one such deposit for each crash.
THEOREM OrphansCostCrashes == IndexerSpec => []OrphansExplained
<1>1. ASSUME TypeInv, OrphanInv PROVE OrphansExplained
  <2> DEFINE Rowless == (stored \ transfers) \ dropped
  <2>1. /\ Rowless \subseteq Txs /\ Orphans \subseteq Txs /\ crashes \in Nat
        /\ Orphans = Rowless \ InHand
    BY <1>1 DEF TypeInv, IndexerTypeOK, Orphans
  <2> HIDE DEF Rowless
  <2>2. /\ IsFiniteSet(Rowless) /\ Cardinality(Rowless) \in Nat
        /\ IsFiniteSet(Orphans) /\ Cardinality(Orphans) \in Nat
    BY <2>1, OrphansAreFinite
  <2>3. CASE pc = "stored"
    <3>1. Orphans = Rowless \ {cur[1]}
      BY <2>1, <2>3 DEF InHand
    <3>2. Cardinality(Rowless) <= Cardinality(Orphans) + 1
      BY <2>2, <3>1, FS_RemoveElement
    <3>3. Cardinality(Rowless) <= crashes + 1
      BY <1>1, <2>1, <2>2, <3>2 DEF OrphanInv
    <3>4. QED
      BY <2>3, <3>3 DEF Rowless, OrphansExplained
  <2>4. CASE pc # "stored"
    <3>1. Orphans = Rowless
      BY <2>1, <2>4 DEF InHand
    <3>2. Cardinality(Rowless) <= crashes + 0
      BY <1>1, <2>1, <2>2, <3>1 DEF OrphanInv
    <3>3. QED
      BY <2>4, <3>2 DEF Rowless, OrphansExplained
  <2>5. QED
    BY <2>3, <2>4
<1>2. QED
  BY TypeInit, TypeStep, OrphanInit, OrphanStep, <1>1, PTL DEF IndexerSpec
=============================================================================
