-------------------------- MODULE DepositFlowProofs --------------------------
(***************************************************************************)
(* Proofs about BondCreditVault and DepositFlow for any users, amounts,    *)
(* number of transactions and number of calls at once.                     *)
(*                                                                         *)
(* Of the vault, solvency and the users' claims are inductive given the    *)
(* types (VaultInv); the sum of the claims follows each call.              *)
(*                                                                         *)
(* FlowTypeOK needs to know which call keeps which button busy             *)
(* (CallsMatchCard).  ConfirmedWasMined needs to know why a deposit that   *)
(* nothing else came in between of cannot revert: its amount stays in the  *)
(* wallet and in the allowance from the estimate of its gas, while the     *)
(* wallet asks the user (ClearCallsPayable), until it is mined             *)
(* (AloneStaysPayable).                                                    *)
(***************************************************************************)
EXTENDS DepositFlow, SetSums, SequenceTheorems

-----------------------------------------------------------------------------
(* The vault.                                                              *)

VaultInv == TypeOK /\ Solvent /\ NoUserGains

LEMMA VaultInit == Init => VaultInv
  BY InitialUsdcAssumption DEF Init, VaultInv, TypeOK, Solvent, NoUserGains

LEMMA VaultStep == VaultInv /\ [Next]_vars => VaultInv'
<1> SUFFICES ASSUME VaultInv, [Next]_vars PROVE VaultInv'
  OBVIOUS
<1> USE AmountsAssumption, InitialUsdcAssumption
        DEF VaultInv, TypeOK, Solvent, NoUserGains
<1>1. ASSUME NEW u \in Users, NEW a \in Amounts, deposit(u, a)
      PROVE  VaultInv'
  BY <1>1 DEF deposit, PayIn
<1>2. ASSUME NEW u \in Users, NEW a \in Amounts, withdraw(u, a)
      PROVE  VaultInv'
  BY <1>2 DEF withdraw, PayOut
<1>3. ASSUME NEW u \in Users, NEW a \in Amounts, PlainTransferToVault(u, a)
      PROVE  VaultInv'
  BY <1>3 DEF PlainTransferToVault, PayIn
<1>4. ASSUME NEW a \in Amounts, transferToBridgeWallet(a)
      PROVE  VaultInv'
  BY <1>4 DEF transferToBridgeWallet
<1>5. CASE UNCHANGED vars
  BY <1>5 DEF vars
<1>6. QED
  BY <1>1, <1>2, <1>3, <1>4, <1>5 DEF Next

\* The accounting and the ledger keep their types: no balance goes negative.
THEOREM VaultTypeOK == Spec => []TypeOK
<1>1. VaultInv => TypeOK
  BY DEF VaultInv
<1>2. QED
  BY VaultInit, VaultStep, <1>1, PTL DEF Spec

\* The vault's USDC always covers its own aggregate, whatever mix of deposits,
\* withdrawals, bridge transfers and unasked transfers happens.
THEOREM VaultSolvent == Spec => []Solvent
<1>1. VaultInv => Solvent
  BY DEF VaultInv
<1>2. QED
  BY VaultInit, VaultStep, <1>1, PTL DEF Spec

\* Bridging aside, every call moves the users' claims and the aggregate alike.
THEOREM VaultClaims == Spec => []ClaimsAccounted
<1> DEFINE Claims == Sum(balances, Users)
           Accounted == Claims = totalDeposits + bridgedOut
<1>1. Init => Accounted
  <2> SUFFICES ASSUME Init PROVE Accounted
    OBVIOUS
  <2>1. balances \in [Users -> Nat] /\ \A u \in Users : balances[u] = 0
    BY DEF Init
  <2>2. Claims = 0
    BY <2>1, UsersAssumption, SumOfZeros
  <2>3. QED
    BY <2>2 DEF Init
<1>2. VaultInv /\ Accounted /\ [Next]_vars => Accounted'
  <2> SUFFICES ASSUME VaultInv, Accounted, [Next]_vars PROVE Accounted'
    OBVIOUS
  <2>1. /\ balances \in [Users -> Nat] /\ totalDeposits \in Nat /\ bridgedOut \in Nat
        /\ Amounts \subseteq Nat /\ Claims \in Nat
    BY UsersAssumption, AmountsAssumption, SumInNat DEF VaultInv, TypeOK
  <2>2. ASSUME NEW u \in Users, NEW v \in Nat, balances' = [balances EXCEPT ![u] = v]
        PROVE  Claims' = Claims - balances[u] + v
    BY <2>1, <2>2, UsersAssumption, SumUpdate
  <2> HIDE DEF Claims
  <2>3. ASSUME NEW u \in Users, NEW a \in Amounts, deposit(u, a) PROVE Accounted'
    <3>1. balances[u] + a \in Nat /\ balances' = [balances EXCEPT ![u] = balances[u] + a]
      BY <2>1, <2>3 DEF deposit
    <3>2. Claims' = Claims - balances[u] + (balances[u] + a)
      BY <2>2, <3>1
    <3>3. QED
      BY <2>1, <2>3, <3>2 DEF deposit
  <2>4. ASSUME NEW u \in Users, NEW a \in Amounts, withdraw(u, a) PROVE Accounted'
    <3>1. balances[u] - a \in Nat /\ balances' = [balances EXCEPT ![u] = balances[u] - a]
      BY <2>1, <2>4 DEF withdraw
    <3>2. Claims' = Claims - balances[u] + (balances[u] - a)
      BY <2>2, <3>1
    <3>3. QED
      BY <2>1, <2>4, <3>2 DEF withdraw
  <2>5. ASSUME balances' = balances, totalDeposits' + bridgedOut' = totalDeposits + bridgedOut
        PROVE  Accounted'
    BY <2>5 DEF Claims
  <2>6. ASSUME NEW u \in Users, NEW a \in Amounts, PlainTransferToVault(u, a)
        PROVE  Accounted'
    BY <2>5, <2>6 DEF PlainTransferToVault
  <2>7. ASSUME NEW a \in Amounts, transferToBridgeWallet(a) PROVE Accounted'
    BY <2>1, <2>5, <2>7 DEF transferToBridgeWallet
  <2>8. QED
    BY <2>3, <2>4, <2>5, <2>6, <2>7 DEF Next, vars
<1>3. Accounted => ClaimsAccounted
  BY DEF ClaimsAccounted, Sum
<1> HIDE DEF Accounted
<1>4. QED
  BY VaultInit, VaultStep, <1>1, <1>2, <1>3, PTL DEF Spec

\* No user can hold or claim more than they brought.
THEOREM VaultNoUserGains == Spec => []NoUserGains
<1>1. VaultInv => NoUserGains
  BY DEF VaultInv
<1>2. QED
  BY VaultInit, VaultStep, <1>1, PTL DEF Spec

-----------------------------------------------------------------------------
(* The frontend.                                                           *)

TxRecs == [kind : TxKinds, amount : Nat, state : TxStates, alone : BOOLEAN]
CallRecs == [step : Steps, amount : Nat, tx : Nat, shown : BOOLEAN]

HookOf(s) == IF s \in {"sendApprove", "approving"} THEN "approve" ELSE "deposit"

FlowTypes ==
    /\ allowance \in [Users -> Nat]
    /\ txs \in [CardUsers -> Seq(TxRecs)]
    /\ ui \in [CardUsers -> [TxKinds -> UiStages]]
    /\ calls \in [CardUsers -> [Slots -> CallRecs]]
    /\ lastTx \in [CardUsers -> Nat]
    /\ clear \in [CardUsers -> SUBSET Slots]

CallsMatchCard ==
    \A u \in CardUsers :
        /\ \A i, j \in Slots : calls[u][i].shown /\ calls[u][j].shown => i = j
        /\ \A i \in Slots : calls[u][i].shown =>
              calls[u][i].step # "none" /\ Busy(u, HookOf(calls[u][i].step))
        /\ \A hook \in TxKinds : Busy(u, hook) =>
              \E i \in Slots : calls[u][i].shown /\ HookOf(calls[u][i].step) = hook

SentCallsHaveTx ==
    \A u \in CardUsers : \A i \in Slots :
        calls[u][i].step \in {"approving", "waiting"} =>
            calls[u][i].tx \in 1 .. Len(txs[u])

ConfirmedIsOver ==
    \A u \in CardUsers : ui[u]["deposit"] = "confirmed" =>
        /\ lastTx[u] \in 1 .. Len(txs[u])
        /\ txs[u][lastTx[u]].state # "pending"

\* What holds of a user's transactions, wallet and allowance.
PayableOf(ts, w, al) ==
    \A k \in 1 .. Len(ts) : ts[k].alone =>
        /\ ts[k].state # "reverted"
        /\ ts[k].state = "pending" =>
              /\ \A j \in 1 .. Len(ts) : ts[j].state = "pending" => k <= j
              /\ ts[k].kind = "deposit" => w >= ts[k].amount /\ al >= ts[k].amount

AloneStaysPayable ==
    \A u \in CardUsers : PayableOf(txs[u], wallet[u], allowance[u])

\* What the estimate found still holds when the wallet sends.
ClearCallsPayable ==
    \A u \in CardUsers : \A i \in clear[u] :
        /\ calls[u][i].step = "sendDeposit"
        /\ Pending(u) = {}
        /\ wallet[u] >= calls[u][i].amount /\ allowance[u] >= calls[u][i].amount

CardInv == FlowTypes /\ CallsMatchCard /\ SentCallsHaveTx /\ ConfirmedIsOver
FlowInv == VaultInv /\ CardInv /\ AloneStaysPayable /\ ClearCallsPayable

LEMMA CardUsersAreUsers == CardUsers \subseteq Users
  BY CardAssumption

LEMMA FlowInitially == FlowInit => FlowInv
<1> SUFFICES ASSUME FlowInit PROVE FlowInv
  OBVIOUS
<1>1. VaultInv
  BY VaultInit DEF FlowInit
<1>2. FlowTypes
  BY DEF FlowInit, FlowTypes, IdleCard, UiStages, TxKinds, NoCall, Steps, CallRecs
<1>3. CallsMatchCard
  BY DEF FlowInit, CallsMatchCard, IdleCard, Busy, NoCall, TxKinds
<1>4. SentCallsHaveTx /\ ConfirmedIsOver
  BY DEF FlowInit, SentCallsHaveTx, ConfirmedIsOver, IdleCard, NoCall, TxKinds
<1>5. AloneStaysPayable
  BY DEF FlowInit, AloneStaysPayable, PayableOf
<1>c. ClearCallsPayable
  BY DEF FlowInit, ClearCallsPayable
<1>6. QED
  BY <1>1, <1>2, <1>3, <1>4, <1>5, <1>c DEF FlowInv, CardInv

-----------------------------------------------------------------------------
(* Clicks, and leaving the page.                                           *)

\* A step that leaves the chain alone must leave the clear calls alone, or end them.
LEMMA ClearKept ==
  ASSUME ClearCallsPayable, UNCHANGED <<vars, allowance, txs>>,
         \A v \in CardUsers : \A j \in clear'[v] :
            /\ j \in clear[v]
            /\ calls'[v][j].step = calls[v][j].step
            /\ calls'[v][j].amount = calls[v][j].amount
  PROVE  ClearCallsPayable'
BY DEF ClearCallsPayable, Pending, vars

LEMMA ClickKeeps ==
  ASSUME CardInv, NEW u \in CardUsers, NEW hook \in TxKinds, NEW s \in Steps,
         NEW a \in Nat, s # "none", HookOf(s) = hook,
         s \notin {"approving", "waiting"}, Click(u, hook, s, a)
  PROVE  CardInv'
<1> PICK i \in Slots :
      calls' = [calls EXCEPT ![u][i] =
                  [step |-> s, amount |-> a, tx |-> 0, shown |-> TRUE]]
  BY DEF Click
<1>u. /\ ui' = [ui EXCEPT ![u][hook] = "submitting"]
      /\ UNCHANGED <<txs, allowance, lastTx, clear>>
  BY DEF Click
<1>n. \A j \in Slots : ~calls[u][j].shown
  BY DEF Click, ButtonsEnabled, CardInv, CallsMatchCard, HookOf, TxKinds
<1>1. FlowTypes'
  BY <1>u DEF CardInv, FlowTypes, CallRecs, UiStages
<1>2. CallsMatchCard'
  BY <1>u, <1>n DEF CardInv, FlowTypes, CallsMatchCard, Busy, CallRecs
<1>3. SentCallsHaveTx'
  BY <1>u DEF CardInv, FlowTypes, SentCallsHaveTx, CallRecs
<1>4. ConfirmedIsOver'
  BY <1>u DEF CardInv, FlowTypes, ConfirmedIsOver
<1>5. QED
  BY <1>1, <1>2, <1>3, <1>4 DEF CardInv

LEMMA ClickKeepsClear ==
  ASSUME CardInv, ClearCallsPayable, NEW u \in CardUsers, NEW hook, NEW s, NEW a,
         Click(u, hook, s, a)
  PROVE  ClearCallsPayable'
<1>1. PICK i \in Slots :
        /\ calls[u][i] = NoCall
        /\ calls' = [calls EXCEPT ![u][i] =
                    [step |-> s, amount |-> a, tx |-> 0, shown |-> TRUE]]
  BY DEF Click
<1>2. UNCHANGED <<vars, allowance, txs, clear>>
  BY DEF Click
<1>3. i \notin clear[u]
  BY <1>1 DEF ClearCallsPayable, NoCall
<1>4. \A v \in CardUsers : \A j \in clear[v] : calls'[v][j] = calls[v][j]
  BY <1>1, <1>3 DEF CardInv, FlowTypes
<1>5. QED
  BY <1>2, <1>4, ClearKept

LEMMA UnseenCall ==
  \A c \in CallRecs : [c EXCEPT !.shown = FALSE] \in CallRecs
  BY DEF CallRecs

LEMMA ChangedCall ==
  ASSUME NEW c \in CallRecs, NEW s \in Steps, NEW n \in Nat
  PROVE  /\ [c EXCEPT !.step = s] \in CallRecs
         /\ [c EXCEPT !.step = s, !.tx = n] \in CallRecs
  BY DEF CallRecs

LEMMA LeavingKeeps ==
  ASSUME CardInv, NEW u \in CardUsers, leavePage(u)
  PROVE  CardInv'
<1>u. /\ ui' = [ui EXCEPT ![u] = IdleCard]
      /\ calls' = [calls EXCEPT ![u] = [i \in Slots |-> [@[i] EXCEPT !.shown = FALSE]]]
      /\ lastTx' = [lastTx EXCEPT ![u] = 0]
      /\ UNCHANGED <<txs, allowance, clear>>
  BY DEF leavePage
<1>r. \A i \in Slots : [calls[u][i] EXCEPT !.shown = FALSE] \in CallRecs
  BY UnseenCall DEF CardInv, FlowTypes
<1>1. FlowTypes'
  BY <1>u, <1>r DEF CardInv, FlowTypes, UiStages, IdleCard
<1>2. CallsMatchCard'
  BY <1>u DEF CardInv, FlowTypes, CallsMatchCard, Busy, CallRecs, IdleCard
<1>3. SentCallsHaveTx'
  BY <1>u DEF CardInv, FlowTypes, SentCallsHaveTx, CallRecs
<1>4. ConfirmedIsOver'
  BY <1>u DEF CardInv, FlowTypes, ConfirmedIsOver, IdleCard, TxKinds
<1>5. QED
  BY <1>1, <1>2, <1>3, <1>4 DEF CardInv

LEMMA LeavingKeepsClear ==
  ASSUME CardInv, ClearCallsPayable, NEW u \in CardUsers, leavePage(u)
  PROVE  ClearCallsPayable'
<1>1. /\ calls' = [calls EXCEPT ![u] = [i \in Slots |-> [@[i] EXCEPT !.shown = FALSE]]]
      /\ UNCHANGED <<vars, allowance, txs, clear>>
  BY DEF leavePage
<1>2. \A v \in CardUsers : \A j \in Slots :
         calls'[v][j].step = calls[v][j].step /\ calls'[v][j].amount = calls[v][j].amount
  BY <1>1 DEF CardInv, FlowTypes, CallRecs
<1>3. \A v \in CardUsers : clear[v] \subseteq Slots
  BY DEF CardInv, FlowTypes
<1>4. QED
  BY <1>1, <1>2, <1>3, ClearKept

-----------------------------------------------------------------------------
(* The steps of a call.                                                    *)

\* Any end of a call: the stage it shows is not a busy one, and "confirmed" is only
\* shown for a deposit with a transaction that is not pending.
LEMMA EndKeeps ==
  ASSUME CardInv, NEW u \in CardUsers, NEW i \in Slots, NEW hook \in TxKinds,
         NEW stage \in {"confirmed", "error"},
         calls[u][i].step # "none", HookOf(calls[u][i].step) = hook,
         EndCall(u, i), Show(u, i, hook, stage), UNCHANGED <<txs, allowance>>,
         lastTx' \in [CardUsers -> Nat],
         \A v \in CardUsers : lastTx'[v] = lastTx[v] \/ (v = u /\ calls[u][i].shown),
         stage = "confirmed" /\ hook = "deposit" /\ calls[u][i].shown =>
            /\ lastTx'[u] \in 1 .. Len(txs[u])
            /\ txs[u][lastTx'[u]].state # "pending",
         hook = "approve" => lastTx' = lastTx
  PROVE  CardInv'
<1>c. /\ calls' = [calls EXCEPT ![u][i] = NoCall]
      /\ clear' = [clear EXCEPT ![u] = @ \ {i}]
  BY DEF EndCall
<1>s. ui' = IF calls[u][i].shown THEN [ui EXCEPT ![u][hook] = stage] ELSE ui
  BY DEF Show
<1>1. FlowTypes'
  BY <1>c, <1>s DEF CardInv, FlowTypes, CallRecs, NoCall, Steps, UiStages
<1>2. CallsMatchCard'
  <2>1. \A v \in CardUsers \ {u} : calls'[v] = calls[v] /\ ui'[v] = ui[v]
    BY <1>c, <1>s DEF CardInv, FlowTypes
  <2>2. /\ calls'[u][i] = NoCall
        /\ \A j \in Slots \ {i} : calls'[u][j] = calls[u][j]
    BY <1>c DEF CardInv, FlowTypes
  <2>3. \A j \in Slots : calls'[u][j].shown => j # i /\ calls[u][j].shown
    BY <2>2 DEF NoCall
  <2>4. CASE calls[u][i].shown
    <3>1. \A j \in Slots : ~calls'[u][j].shown
      BY <2>3, <2>4 DEF CardInv, CallsMatchCard
    <3>2. \A h \in TxKinds \ {hook} : ~Busy(u, h) /\ ui'[u][h] = ui[u][h]
      BY <1>s, <2>4 DEF CardInv, FlowTypes, CallsMatchCard
    <3>3. ui'[u][hook] = stage
      BY <1>s, <2>4 DEF CardInv, FlowTypes
    <3>4. \A h \in TxKinds : ~(ui'[u][h] \in {"submitting", "pending"})
      BY <3>2, <3>3 DEF Busy
    <3>5. QED
      BY <2>1, <3>1, <3>4 DEF CardInv, CallsMatchCard, Busy
  <2>5. CASE ~calls[u][i].shown
    <3>1. ui' = ui
      BY <1>s, <2>5
    <3>2. QED
      BY <2>1, <2>2, <2>3, <2>5, <3>1 DEF CardInv, CallsMatchCard, Busy
  <2>6. QED
    BY <2>4, <2>5
<1>3. SentCallsHaveTx'
  BY <1>c DEF CardInv, FlowTypes, SentCallsHaveTx, CallRecs, NoCall
<1>4. ConfirmedIsOver'
  BY <1>s DEF CardInv, FlowTypes, ConfirmedIsOver, TxKinds
<1>5. QED
  BY <1>1, <1>2, <1>3, <1>4 DEF CardInv

LEMMA EndKeepsClear ==
  ASSUME CardInv, ClearCallsPayable, NEW u \in CardUsers, NEW i \in Slots,
         EndCall(u, i), UNCHANGED <<vars, allowance, txs>>
  PROVE  ClearCallsPayable'
<1>1. /\ calls' = [calls EXCEPT ![u][i] = NoCall]
      /\ clear' = [clear EXCEPT ![u] = @ \ {i}]
  BY DEF EndCall
<1>2. \A v \in CardUsers : \A j \in clear'[v] :
         j \in clear[v] /\ calls'[v][j] = calls[v][j]
  BY <1>1 DEF CardInv, FlowTypes
<1>3. QED
  BY <1>2, ClearKept

\* A step to a later one of the same hook, before its transaction.
LEMMA GoOnKeeps ==
  ASSUME CardInv, NEW u \in CardUsers, NEW i \in Slots, NEW s \in Steps,
         calls[u][i].step # "none", s # "none", s \notin {"approving", "waiting"},
         HookOf(s) = HookOf(calls[u][i].step),
         CallTo(u, i, s), UNCHANGED <<ui, lastTx, txs, allowance>>,
         clear' \in [CardUsers -> SUBSET Slots]
  PROVE  CardInv'
<1>c. calls' = [calls EXCEPT ![u][i] = [@ EXCEPT !.step = s]]
  BY DEF CallTo
<1>1. FlowTypes'
  BY <1>c, ChangedCall DEF CardInv, FlowTypes
<1>2. CallsMatchCard'
  <2>1. \A v \in CardUsers \ {u} : calls'[v] = calls[v]
    BY <1>c DEF CardInv, FlowTypes
  <2>2. \A j \in Slots : calls'[u][j].shown = calls[u][j].shown
                          /\ HookOf(calls'[u][j].step) = HookOf(calls[u][j].step)
                          /\ (calls[u][j].step # "none" => calls'[u][j].step # "none")
    BY <1>c DEF CardInv, FlowTypes, CallRecs
  <2>3. QED
    BY <2>1, <2>2 DEF CardInv, CallsMatchCard, Busy
<1>3. SentCallsHaveTx'
  BY <1>c DEF CardInv, FlowTypes, SentCallsHaveTx, CallRecs
<1>4. ConfirmedIsOver'
  BY DEF CardInv, ConfirmedIsOver
<1>5. QED
  BY <1>1, <1>2, <1>3, <1>4 DEF CardInv

\* What Send appends.
NewTx(u, i, kind) ==
    [kind |-> kind, amount |-> calls[u][i].amount, state |-> "pending",
     alone |-> i \in clear[u]]

LEMMA SendAppends ==
  ASSUME CardInv, NEW u \in CardUsers, NEW i \in Slots, NEW kind \in TxKinds,
         NEW s, NEW stage, Send(u, i, kind, s, stage)
  PROVE  /\ txs' \in [CardUsers -> Seq(TxRecs)]
         /\ \A v \in CardUsers \ {u} : txs'[v] = txs[v]
         /\ Len(txs[u]) \in Nat /\ Len(txs'[u]) = Len(txs[u]) + 1
         /\ \A k \in 1 .. Len(txs[u]) : txs'[u][k] = txs[u][k]
         /\ txs'[u][Len(txs[u]) + 1] = NewTx(u, i, kind)
<1>1. NewTx(u, i, kind) \in TxRecs
  BY DEF NewTx, TxRecs, CardInv, FlowTypes, CallRecs, TxStates
<1>2. txs' = [txs EXCEPT ![u] = Append(@, NewTx(u, i, kind))]
  BY DEF Send, NewTx
<1>3. txs[u] \in Seq(TxRecs) /\ txs \in [CardUsers -> Seq(TxRecs)]
  BY DEF CardInv, FlowTypes
<1>4. txs'[u] = Append(txs[u], NewTx(u, i, kind))
  BY <1>2, <1>3
<1>5. Append(txs[u], NewTx(u, i, kind)) \in Seq(TxRecs)
  BY <1>1, <1>3, AppendProperties
<1>6. QED
  BY <1>1, <1>2, <1>3, <1>4, <1>5, AppendProperties

LEMMA SendKeeps ==
  ASSUME CardInv, NEW u \in CardUsers, NEW i \in Slots, NEW kind \in TxKinds,
         NEW s \in {"approving", "waiting"}, NEW stage \in {"pending", "submitting"},
         calls[u][i].step # "none", HookOf(calls[u][i].step) = kind, HookOf(s) = kind,
         Send(u, i, kind, s, stage), UNCHANGED <<allowance, lastTx>>
  PROVE  CardInv'
<1>c. calls' = [calls EXCEPT ![u][i] = [@ EXCEPT !.step = s, !.tx = Len(txs[u]) + 1]]
  BY DEF Send
<1>s. ui' = IF calls[u][i].shown THEN [ui EXCEPT ![u][kind] = stage] ELSE ui
  BY DEF Send, Show
<1>t. /\ \A v \in CardUsers \ {u} : txs'[v] = txs[v]
      /\ Len(txs[u]) \in Nat /\ Len(txs'[u]) = Len(txs[u]) + 1
      /\ \A k \in 1 .. Len(txs[u]) : txs'[u][k] = txs[u][k]
  BY SendAppends
<1>k. /\ \A v \in CardUsers \ {u} : calls'[v] = calls[v]
      /\ \A j \in Slots \ {i} : calls'[u][j] = calls[u][j]
      /\ calls'[u][i].step = s /\ calls'[u][i].tx = Len(txs[u]) + 1
      /\ calls'[u][i].shown = calls[u][i].shown
      /\ calls'[u][i].amount = calls[u][i].amount
  BY <1>c DEF CardInv, FlowTypes, CallRecs
<1>1. FlowTypes'
  <2>1. calls' \in [CardUsers -> [Slots -> CallRecs]]
    <3>1. calls \in [CardUsers -> [Slots -> CallRecs]] /\ s \in Steps
      BY DEF CardInv, FlowTypes, Steps
    <3>n. calls[u][i] \in CallRecs /\ Len(txs[u]) + 1 \in Nat
      BY <1>t, <3>1
    <3>2. [calls[u][i] EXCEPT !.step = s, !.tx = Len(txs[u]) + 1] \in CallRecs
      BY <3>1, <3>n, ChangedCall, Zenon
    <3>3. QED
      BY <1>c, <3>1, <3>2
  <2>2. ui' \in [CardUsers -> [TxKinds -> UiStages]]
    BY <1>s DEF CardInv, FlowTypes, UiStages
  <2>c. clear' \in [CardUsers -> SUBSET Slots]
    BY DEF Send, CardInv, FlowTypes
  <2>3. QED
    BY <2>1, <2>2, <2>c, SendAppends DEF CardInv, FlowTypes
<1>2. CallsMatchCard'
  <2>1. \A v \in CardUsers \ {u} : ui'[v] = ui[v]
    BY <1>s DEF CardInv, FlowTypes
  <2>2. \A j \in Slots : calls'[u][j].shown = calls[u][j].shown
                          /\ HookOf(calls'[u][j].step) = HookOf(calls[u][j].step)
                          /\ (calls[u][j].step # "none" => calls'[u][j].step # "none")
    BY <1>k
  <2>3. \A h \in TxKinds : (ui'[u][h] \in {"submitting", "pending"}) <=> Busy(u, h)
    BY <1>s DEF CardInv, FlowTypes, CallsMatchCard, Busy
  <2>4. QED
    BY <1>k, <2>1, <2>2, <2>3 DEF CardInv, CallsMatchCard, Busy, HookOf, TxKinds
<1>3. SentCallsHaveTx'
  BY <1>k, <1>t DEF CardInv, SentCallsHaveTx
<1>4. ConfirmedIsOver'
  BY <1>s, <1>t DEF CardInv, FlowTypes, ConfirmedIsOver, TxKinds
<1>5. QED
  BY <1>1, <1>2, <1>3, <1>4 DEF CardInv

-----------------------------------------------------------------------------
(* The chain.                                                              *)

LEMMA SendKeepsPayable ==
  ASSUME CardInv, AloneStaysPayable, ClearCallsPayable, NEW u \in CardUsers,
         NEW i \in Slots, NEW kind \in TxKinds, NEW s, NEW stage,
         Send(u, i, kind, s, stage), UNCHANGED <<wallet, allowance>>
  PROVE  AloneStaysPayable' /\ ClearCallsPayable'
<1> DEFINE n == Len(txs[u]) + 1
<1>t. /\ \A v \in CardUsers \ {u} : txs'[v] = txs[v]
      /\ Len(txs[u]) \in Nat /\ Len(txs'[u]) = n
      /\ \A k \in 1 .. Len(txs[u]) : txs'[u][k] = txs[u][k]
      /\ txs'[u][n] = NewTx(u, i, kind)
  BY SendAppends
<1>p. Pending(u) = { k \in 1 .. Len(txs[u]) : txs[u][k].state = "pending" }
  BY DEF Pending, CardInv, FlowTypes
<1>1. PayableOf(txs[u], wallet[u], allowance[u])
  BY DEF AloneStaysPayable
<1>2. PayableOf(txs'[u], wallet'[u], allowance'[u])
  <2> SUFFICES ASSUME NEW k \in 1 .. n, txs'[u][k].alone
               PROVE  /\ txs'[u][k].state # "reverted"
                      /\ txs'[u][k].state = "pending" =>
                            /\ \A j \in 1 .. n : txs'[u][j].state = "pending" => k <= j
                            /\ txs'[u][k].kind = "deposit" =>
                                  /\ wallet[u] >= txs'[u][k].amount
                                  /\ allowance[u] >= txs'[u][k].amount
    BY <1>t DEF PayableOf
  <2>1. CASE k = n
    <3>1. txs'[u][k].kind = kind /\ txs'[u][k].state = "pending"
          /\ txs'[u][k].amount = calls[u][i].amount
      BY <1>t, <2>1 DEF NewTx
    <3>n. txs'[u][k] = NewTx(u, i, kind)
      BY <1>t, <2>1
    <3>m. NewTx(u, i, kind).alone = (i \in clear[u])
      BY Zenon DEF NewTx
    <3>c. i \in clear[u]
      BY <3>n, <3>m, Zenon
    <3>2. Pending(u) = {}
      BY <3>c DEF ClearCallsPayable
    <3>p. wallet[u] >= calls[u][i].amount /\ allowance[u] >= calls[u][i].amount
      BY <3>c DEF ClearCallsPayable
    <3>q. \A j \in 1 .. Len(txs[u]) : txs[u][j].state # "pending"
      BY <1>p, <3>2
    <3>3. ASSUME NEW j \in 1 .. n, txs'[u][j].state = "pending" PROVE j = n
      <4>1. j = n \/ (j \in 1 .. Len(txs[u]) /\ txs'[u][j] = txs[u][j])
        BY <1>t
      <4>2. QED
        BY <3>q, <3>3, <4>1
    <3>4. QED
      BY <2>1, <1>t, <3>1, <3>p, <3>3
  <2>2. CASE k # n
    <3>1. k \in 1 .. Len(txs[u]) /\ txs'[u][k] = txs[u][k]
      BY <1>t, <2>2
    <3>2. \A j \in 1 .. n : j = n \/ (j \in 1 .. Len(txs[u]) /\ txs'[u][j] = txs[u][j])
      BY <1>t
    <3>3. QED
      BY <1>t, <1>1, <3>1, <3>2 DEF PayableOf
  <2>3. QED
    BY <2>1, <2>2
<1>3. AloneStaysPayable'
  BY <1>t, <1>2 DEF AloneStaysPayable
<1>4. ClearCallsPayable'
  <2>1. clear'[u] = {} /\ \A v \in CardUsers \ {u} : clear'[v] = clear[v]
    BY DEF Send, CardInv, FlowTypes
  <2>2. \A v \in CardUsers \ {u} : calls'[v] = calls[v]
    BY DEF Send, CardInv, FlowTypes
  <2>3. QED
    BY <1>t, <2>1, <2>2 DEF ClearCallsPayable, Pending
<1>5. QED
  BY <1>3, <1>4

LEMMA ExecutedChanges ==
  ASSUME CardInv, NEW u \in CardUsers, NEW k \in Pending(u),
         NEW st \in {"mined", "reverted"}, Executed(u, k, st)
  PROVE  /\ k \in 1 .. Len(txs[u]) /\ txs[u][k].state = "pending"
         /\ txs' \in [CardUsers -> Seq(TxRecs)]
         /\ \A v \in CardUsers \ {u} : txs'[v] = txs[v]
         /\ Len(txs[u]) \in Nat /\ Len(txs'[u]) = Len(txs[u])
         /\ \A j \in 1 .. Len(txs[u]) \ {k} : txs'[u][j] = txs[u][j]
         /\ txs'[u][k].state = st /\ txs'[u][k].alone = txs[u][k].alone
<1>1. txs \in [CardUsers -> Seq(TxRecs)] /\ txs[u] \in Seq(TxRecs)
  BY DEF CardInv, FlowTypes
<1>2. k \in 1 .. Len(txs[u]) /\ txs[u][k].state = "pending" /\ Len(txs[u]) \in Nat
  BY <1>1 DEF Pending
<1> DEFINE done == [txs[u][k] EXCEPT !.state = st]
<1>3. txs[u][k] \in TxRecs
  BY <1>1, <1>2
<1>4. done \in TxRecs /\ done.state = st /\ done.alone = txs[u][k].alone
  BY <1>3 DEF TxRecs, TxStates
<1>5. txs' = [txs EXCEPT ![u] = [txs[u] EXCEPT ![k] = done]]
  BY DEF Executed
<1>6. txs'[u] = [txs[u] EXCEPT ![k] = done]
  BY <1>1, <1>5
<1> HIDE DEF done
<1>7. QED
  BY <1>1, <1>2, <1>4, <1>5, <1>6, ExceptSeq

LEMMA PaidInKeeps ==
  ASSUME VaultInv, NEW u \in Users, NEW a \in Nat,
         deposit(u, a) \/ PlainTransferToVault(u, a)
  PROVE  VaultInv'
BY InitialUsdcAssumption
   DEF deposit, PlainTransferToVault, PayIn, VaultInv, TypeOK, Solvent, NoUserGains

LEMMA MineKeeps ==
  ASSUME CardInv, AloneStaysPayable, ClearCallsPayable, VaultInv, NEW u \in CardUsers,
         mine(u)
  PROVE  CardInv' /\ AloneStaysPayable' /\ ClearCallsPayable' /\ VaultInv'
<1>u. u \in Users
  BY CardUsersAreUsers
<1> PICK k \in Pending(u) :
      /\ \A j \in Pending(u) : k <= j
      /\ \/ /\ txs[u][k].kind = "approve"
            /\ allowance' = [allowance EXCEPT ![u] = txs[u][k].amount]
            /\ Executed(u, k, "mined") /\ UNCHANGED vars
         \/ /\ txs[u][k].kind = "deposit" /\ allowance[u] >= txs[u][k].amount
            /\ deposit(u, txs[u][k].amount)
            /\ allowance' = [allowance EXCEPT ![u] = @ - txs[u][k].amount]
            /\ Executed(u, k, "mined")
         \/ /\ txs[u][k].kind = "deposit"
            /\ allowance[u] < txs[u][k].amount \/ wallet[u] < txs[u][k].amount
            /\ Executed(u, k, "reverted") /\ UNCHANGED <<vars, allowance>>
      /\ UNCHANGED cardVars
  BY DEF mine
<1>k. k \in 1 .. Len(txs[u]) /\ txs[u][k].state = "pending" /\ txs[u][k].amount \in Nat
      /\ Pending(u) = { j \in 1 .. Len(txs[u]) : txs[u][j].state = "pending" }
  <2>1. txs[u] \in Seq(TxRecs)
    BY DEF CardInv, FlowTypes
  <2>2. Pending(u) = { j \in 1 .. Len(txs[u]) : txs[u][j].state = "pending" }
    BY <2>1 DEF Pending
  <2>3. txs[u][k] \in TxRecs
    BY <2>1, <2>2
  <2>4. QED
    BY <2>2, <2>3 DEF TxRecs
<1>1. PICK st \in {"mined", "reverted"} : Executed(u, k, st)
  OBVIOUS
<1>t. /\ txs' \in [CardUsers -> Seq(TxRecs)]
      /\ \A v \in CardUsers \ {u} : txs'[v] = txs[v]
      /\ Len(txs[u]) \in Nat /\ Len(txs'[u]) = Len(txs[u])
      /\ \A j \in 1 .. Len(txs[u]) \ {k} : txs'[u][j] = txs[u][j]
      /\ txs'[u][k].state = st /\ txs'[u][k].alone = txs[u][k].alone
  BY <1>1, ExecutedChanges
<1>a. allowance' \in [Users -> Nat] /\ \A v \in Users \ {u} : allowance'[v] = allowance[v]
  <2>1. allowance \in [Users -> Nat]
    BY DEF CardInv, FlowTypes
  <2>2. allowance[u] >= txs[u][k].amount => allowance[u] - txs[u][k].amount \in Nat
    BY <1>k, <1>u, <2>1
  <2>3. QED
    BY <1>k, <1>u, <2>1, <2>2
<1>w. \A v \in Users \ {u} : wallet'[v] = wallet[v]
  BY <1>u DEF deposit, PayIn, VaultInv, TypeOK, vars
<1>2. CardInv'
  <2>1. UNCHANGED <<ui, calls, lastTx, clear>>
    BY DEF cardVars
  <2>2. FlowTypes'
    BY <1>t, <1>a, <2>1 DEF CardInv, FlowTypes
  <2>3. CallsMatchCard'
    BY <2>1 DEF CardInv, CallsMatchCard, Busy
  <2>4. SentCallsHaveTx'
    BY <1>t, <2>1 DEF CardInv, SentCallsHaveTx
  <2>5. ConfirmedIsOver'
    BY <1>t, <2>1 DEF CardInv, ConfirmedIsOver
  <2>6. QED
    BY <2>2, <2>3, <2>4, <2>5 DEF CardInv
<1>3. VaultInv'
  <2>1. CASE UNCHANGED vars
    BY <2>1 DEF VaultInv, vars, TypeOK, Solvent, NoUserGains
  <2>2. CASE deposit(u, txs[u][k].amount)
    BY <1>k, <1>u, <2>2, PaidInKeeps
  <2>3. QED
    BY <2>1, <2>2 DEF vars
<1>4. AloneStaysPayable'
  <2>1. \A j \in 1 .. Len(txs[u]) : txs[u][j].alone /\ txs[u][j].state = "pending" => j = k
    BY <1>k DEF AloneStaysPayable, PayableOf
  <2>2. txs[u][k].alone => txs'[u][k].state # "reverted"
    <3>1. ASSUME txs[u][k].alone, txs[u][k].kind = "deposit"
          PROVE  wallet[u] >= txs[u][k].amount /\ allowance[u] >= txs[u][k].amount
      BY <1>k, <3>1 DEF AloneStaysPayable, PayableOf
    <3>2. wallet[u] \in Nat /\ allowance[u] \in Nat
      BY <1>u DEF VaultInv, TypeOK, CardInv, FlowTypes
    <3>3. Executed(u, k, "mined") => txs'[u][k].state = "mined"
      BY ExecutedChanges
    <3>4. QED
      BY <1>k, <3>1, <3>2, <3>3
  <2>3. PayableOf(txs'[u], wallet'[u], allowance'[u])
    BY <1>t, <2>1, <2>2 DEF AloneStaysPayable, PayableOf
  <2>4. QED
    BY <1>t, <1>a, <1>w, <2>3, CardUsersAreUsers DEF AloneStaysPayable
<1>5. ClearCallsPayable'
  <2>1. UNCHANGED <<calls, clear>>
    BY DEF cardVars
  <2>2. clear[u] = {}
    BY <1>k DEF ClearCallsPayable
  <2>3. \A v \in CardUsers \ {u} :
           txs'[v] = txs[v] /\ wallet'[v] = wallet[v] /\ allowance'[v] = allowance[v]
    BY <1>t, <1>a, <1>w, CardUsersAreUsers
  <2>4. QED
    BY <2>1, <2>2, <2>3 DEF ClearCallsPayable, Pending
<1>6. QED
  BY <1>2, <1>3, <1>4, <1>5

LEMMA ElsewhereKeeps ==
  ASSUME FlowInv, elsewhere
  PROVE  FlowInv'
<1> USE AmountsAssumption, CardUsersAreUsers
<1>c. UNCHANGED <<allowance, ui, calls, lastTx>>
  BY DEF elsewhere
<1>1. ASSUME NEW u \in Users, NEW a \in Amounts, PlainTransferToVault(u, a), Disturbed(u)
      PROVE  FlowInv'
  <2>1. VaultInv'
    BY <1>1, PaidInKeeps DEF FlowInv
  <2>2. \A v \in Users \ {u} : wallet'[v] = wallet[v]
    BY <1>1 DEF PlainTransferToVault, PayIn, FlowInv, VaultInv, TypeOK
  <2>3. CASE u \notin CardUsers
    <3>1. UNCHANGED <<txs, clear>>
      BY <1>1, <2>3 DEF Disturbed
    <3>2. CardInv'
      BY <1>c, <3>1 DEF FlowInv, CardInv, FlowTypes, CallsMatchCard, Busy,
                        SentCallsHaveTx, ConfirmedIsOver
    <3>3. AloneStaysPayable'
      BY <1>c, <2>2, <2>3, <3>1 DEF FlowInv, AloneStaysPayable
    <3>c. ClearCallsPayable'
      BY <1>c, <2>2, <2>3, <3>1 DEF FlowInv, ClearCallsPayable, Pending
    <3>4. QED
      BY <2>1, <3>2, <3>3, <3>c DEF FlowInv
  <2>4. CASE u \in CardUsers
    <3> DEFINE Late(k) == Overtaken(txs[u][k])
    <3>1. txs \in [CardUsers -> Seq(TxRecs)] /\ txs[u] \in Seq(TxRecs)
      BY <2>4 DEF FlowInv, CardInv, FlowTypes
    <3>2. \A k \in 1 .. Len(txs[u]) : txs[u][k] \in TxRecs
      BY <3>1
    <3>3. \A k \in 1 .. Len(txs[u]) :
             /\ Late(k) \in TxRecs /\ Late(k).state = txs[u][k].state
             /\ Late(k).alone => txs[u][k].alone /\ txs[u][k].state # "pending"
      BY <3>2 DEF TxRecs, Overtaken
    <3>4. txs' = [txs EXCEPT ![u] = [k \in 1 .. Len(txs[u]) |-> Late(k)]]
      <4>1. DOMAIN txs[u] = 1 .. Len(txs[u])
        BY <3>1
      <4>2. txs' = [txs EXCEPT ![u] = [k \in DOMAIN txs[u] |-> Late(k)]]
        BY <1>1, <2>4, Zenon DEF Disturbed
      <4>3. QED
        BY <4>1, <4>2, Zenon
    <3> HIDE DEF Late
    <3>5. /\ txs'[u] = [k \in 1 .. Len(txs[u]) |-> Late(k)]
          /\ \A v \in CardUsers \ {u} : txs'[v] = txs[v]
          /\ Len(txs[u]) \in Nat
      BY <2>4, <3>1, <3>4
    <3>6. txs'[u] \in Seq(TxRecs) /\ Len(txs'[u]) = Len(txs[u])
      BY <3>3, <3>5
    <3>7. \A k \in 1 .. Len(txs[u]) : txs'[u][k] = Late(k)
      BY <3>5
    <3>c. clear' = [clear EXCEPT ![u] = {}] /\ clear \in [CardUsers -> SUBSET Slots]
      BY <1>1, <2>4 DEF Disturbed, FlowInv, CardInv, FlowTypes
    <3>8. FlowTypes'
      BY <1>c, <3>c, <3>1, <3>4, <3>5, <3>6 DEF FlowInv, CardInv, FlowTypes
    <3>9. CallsMatchCard' /\ SentCallsHaveTx'
      BY <1>c, <3>5, <3>6
         DEF FlowInv, CardInv, CallsMatchCard, Busy, SentCallsHaveTx
    <3>10. ConfirmedIsOver'
      BY <1>c, <3>3, <3>5, <3>6, <3>7 DEF FlowInv, CardInv, ConfirmedIsOver
    <3>11. PayableOf(txs'[u], wallet'[u], allowance'[u])
      BY <2>4, <3>3, <3>6, <3>7 DEF FlowInv, AloneStaysPayable, PayableOf
    <3>12. AloneStaysPayable'
      BY <1>c, <2>2, <3>5, <3>11 DEF FlowInv, AloneStaysPayable
    <3>13. ClearCallsPayable'
      <4>1. clear'[u] = {} /\ \A v \in CardUsers \ {u} : clear'[v] = clear[v]
        BY <2>4, <3>c
      <4>2. QED
        BY <1>c, <2>2, <3>5, <4>1 DEF FlowInv, ClearCallsPayable, Pending
    <3>14. QED
      BY <2>1, <3>8, <3>9, <3>10, <3>12, <3>13 DEF FlowInv, CardInv
  <2>5. QED
    BY <2>3, <2>4
<1>2. ASSUME UNCHANGED <<txs, clear>>, VaultInv', \A v \in CardUsers : wallet'[v] >= wallet[v]
      PROVE  FlowInv'
  <2>1. CardInv'
    BY <1>c, <1>2 DEF FlowInv, CardInv, FlowTypes, CallsMatchCard, Busy,
                      SentCallsHaveTx, ConfirmedIsOver
  <2>2. \A v \in CardUsers : wallet[v] \in Nat /\ wallet'[v] \in Nat
    BY <1>2 DEF FlowInv, VaultInv, TypeOK
  <2>3. ASSUME NEW v \in CardUsers, NEW k \in 1 .. Len(txs[v])
        PROVE  txs[v][k].amount \in Nat
    <3>1. txs[v] \in Seq(TxRecs)
      BY DEF FlowInv, CardInv, FlowTypes
    <3>2. txs[v][k] \in TxRecs
      BY <3>1
    <3>3. QED
      BY <3>2 DEF TxRecs
  <2>4. AloneStaysPayable'
    BY <1>c, <1>2, <2>2, <2>3 DEF FlowInv, AloneStaysPayable, PayableOf
  <2>c. ClearCallsPayable'
    <3>1. \A v \in CardUsers : \A j \in clear[v] : calls[v][j].amount \in Nat
      BY DEF FlowInv, CardInv, FlowTypes, CallRecs
    <3>2. \A v \in CardUsers : \A j \in clear[v] : wallet'[v] >= calls[v][j].amount
      BY <1>2, <2>2, <3>1 DEF FlowInv, ClearCallsPayable
    <3>3. QED
      BY <1>c, <1>2, <3>2 DEF FlowInv, ClearCallsPayable, Pending
  <2>5. QED
    BY <1>2, <2>1, <2>4, <2>c DEF FlowInv
<1>3. ASSUME NEW u \in Users \ CardUsers, NEW a \in Amounts, deposit(u, a), UNCHANGED <<txs, clear>>
      PROVE  FlowInv'
  <2>1. VaultInv'
    BY <1>3, PaidInKeeps DEF FlowInv
  <2>2. \A v \in CardUsers : wallet'[v] >= wallet[v]
    BY <1>3 DEF deposit, PayIn, FlowInv, VaultInv, TypeOK
  <2>3. QED
    BY <1>2, <1>3, <2>1, <2>2
<1>4. ASSUME NEW u \in Users, NEW a \in Amounts, withdraw(u, a), UNCHANGED <<txs, clear>>
      PROVE  FlowInv'
  <2>1. VaultInv'
    BY <1>4, VaultStep DEF FlowInv, Next
  <2>2. \A v \in CardUsers : wallet'[v] >= wallet[v]
    BY <1>4 DEF withdraw, PayOut, FlowInv, VaultInv, TypeOK
  <2>3. QED
    BY <1>2, <1>4, <2>1, <2>2
<1>5. ASSUME NEW a \in Amounts, transferToBridgeWallet(a), UNCHANGED <<txs, clear>>
      PROVE  FlowInv'
  <2>1. VaultInv'
    BY <1>5, VaultStep DEF FlowInv, Next
  <2>2. \A v \in CardUsers : wallet'[v] >= wallet[v]
    BY <1>5 DEF transferToBridgeWallet, FlowInv, VaultInv, TypeOK
  <2>3. QED
    BY <1>2, <1>5, <2>1, <2>2
<1>6. QED
  BY <1>1, <1>3, <1>4, <1>5 DEF elsewhere

-----------------------------------------------------------------------------
(* The invariant, and what the runs check of it.                           *)

LEMMA FlowStep == FlowInv /\ [FlowNext]_flowVars => FlowInv'
<1> SUFFICES ASSUME FlowInv, [FlowNext]_flowVars PROVE FlowInv'
  OBVIOUS
<1> USE AmountsAssumption
<1>1. ASSUME UNCHANGED <<vars, allowance, txs>>, CardInv', ClearCallsPayable'
      PROVE  FlowInv'
  <2>1. VaultInv'
    BY <1>1 DEF FlowInv, VaultInv, vars, TypeOK, Solvent, NoUserGains
  <2>2. AloneStaysPayable'
    BY <1>1 DEF FlowInv, AloneStaysPayable, vars
  <2>3. QED
    BY <1>1, <2>1, <2>2 DEF FlowInv
<1>2. ASSUME NEW u \in CardUsers, NEW a \in Amounts,
             onApproveClick(u, a) \/ onDepositClick(u, a)
      PROVE  FlowInv'
  <2>1. PICK hook \in TxKinds, s \in {"sendApprove", "balance"} :
           HookOf(s) = hook /\ Click(u, hook, s, a)
    BY <1>2 DEF onApproveClick, onDepositClick, HookOf, TxKinds
  <2>2. UNCHANGED <<vars, allowance, txs>>
    BY <2>1 DEF Click
  <2>3. s \in Steps /\ s \notin {"none", "approving", "waiting"} /\ a \in Nat
    BY <2>1 DEF Steps
  <2>4. CardInv'
    BY <2>1, <2>3, ClickKeeps DEF FlowInv
  <2>c. ClearCallsPayable'
    BY <2>1, ClickKeepsClear DEF FlowInv
  <2>5. QED
    BY <1>1, <2>2, <2>4, <2>c
<1>3. ASSUME NEW u \in CardUsers, leavePage(u)
      PROVE  FlowInv'
  BY <1>1, <1>3, LeavingKeeps, LeavingKeepsClear DEF FlowInv, leavePage
<1>4. ASSUME NEW u \in CardUsers, mine(u)
      PROVE  FlowInv'
  BY <1>4, MineKeeps DEF FlowInv
<1>5. ASSUME NEW u \in CardUsers, NEW i \in Slots, callStep(u, i)
      PROVE  FlowInv'
  <2>l. lastTx \in [CardUsers -> Nat] /\ txs[u] \in Seq(TxRecs)
    BY DEF FlowInv, CardInv, FlowTypes
  <2>1. ASSUME NEW hook \in TxKinds, calls[u][i].step # "none",
               HookOf(calls[u][i].step) = hook, FailCall(u, i, hook),
               UNCHANGED <<vars, allowance, txs>>
        PROVE  FlowInv'
    <3>1. UNCHANGED lastTx /\ EndCall(u, i) /\ Show(u, i, hook, "error")
      BY <2>1 DEF FailCall
    <3>2. CardInv'
      BY <2>1, <2>l, <3>1, EndKeeps DEF FlowInv
    <3>c. ClearCallsPayable'
      BY <2>1, <3>1, EndKeepsClear DEF FlowInv
    <3>3. QED
      BY <1>1, <2>1, <3>2, <3>c
  <2>2. ASSUME NEW s \in {"allowance", "estimateGas", "sendDeposit"},
               calls[u][i].step \in {"balance", "allowance", "estimateGas"},
               CallTo(u, i, s), UNCHANGED <<vars, allowance, txs, ui, lastTx>>,
               clear' \in [CardUsers -> SUBSET Slots]
        PROVE  CardInv'
    <3>1. s \in Steps /\ HookOf(s) = HookOf(calls[u][i].step)
      BY <2>2 DEF Steps, HookOf
    <3>2. QED
      BY <2>2, <3>1, GoOnKeeps DEF FlowInv
  <2>k. ASSUME NEW s \in {"allowance", "estimateGas"},
               calls[u][i].step \in {"balance", "allowance"},
               CallTo(u, i, s), UNCHANGED <<vars, allowance, txs, ui, lastTx, clear>>
        PROVE  FlowInv'
    <3>1. clear \in [CardUsers -> SUBSET Slots] /\ i \notin clear[u]
      BY <2>k DEF FlowInv, CardInv, FlowTypes, ClearCallsPayable
    <3>2. \A v \in CardUsers : \A j \in clear[v] : calls'[v][j] = calls[v][j]
      BY <2>k, <3>1 DEF CallTo, FlowInv, CardInv, FlowTypes
    <3>3. ClearCallsPayable'
      BY <2>k, <3>2, ClearKept DEF FlowInv
    <3>4. CardInv'
      BY <2>k, <2>2, <3>1
    <3>5. QED
      BY <1>1, <2>k, <3>3, <3>4
  <2>3. ASSUME NEW kind \in TxKinds, NEW s \in {"approving", "waiting"},
               NEW stage \in {"pending", "submitting"}, calls[u][i].step # "none",
               HookOf(calls[u][i].step) = kind, HookOf(s) = kind,
               Send(u, i, kind, s, stage), UNCHANGED <<vars, allowance, lastTx>>
        PROVE  FlowInv'
    <3>1. CardInv'
      BY <2>3, SendKeeps DEF FlowInv
    <3>2. AloneStaysPayable' /\ ClearCallsPayable'
      BY <2>3, SendKeepsPayable DEF FlowInv, vars
    <3>3. VaultInv'
      BY <2>3 DEF FlowInv, VaultInv, vars, TypeOK, Solvent, NoUserGains
    <3>4. QED
      BY <3>1, <3>2, <3>3 DEF FlowInv
  <2>4. CASE submitApproval(u, i)
    BY <2>3, <2>4 DEF submitApproval, CallAt, HookOf, TxKinds
  <2>5. CASE submitDeposit(u, i)
    BY <2>3, <2>5 DEF submitDeposit, CallAt, HookOf, TxKinds
  <2>6. CASE checkBalance(u, i)
    BY <2>1, <2>k, <2>6 DEF checkBalance, CallAt, HookOf, TxKinds, OnlyCard
  <2>7. CASE checkAllowance(u, i)
    BY <2>1, <2>k, <2>7 DEF checkAllowance, CallAt, HookOf, TxKinds, OnlyCard
  <2>8. CASE approvalRejected(u, i) \/ approvalWaitFails(u, i)
    BY <2>1, <2>8
       DEF approvalRejected, approvalWaitFails, CallAt, HookOf, TxKinds, OnlyCard
  <2>9. CASE depositRejected(u, i) \/ depositWaitFails(u, i)
    BY <2>1, <2>9
       DEF depositRejected, depositWaitFails, CallAt, HookOf, TxKinds, OnlyCard
  <2>e. CASE estimateDepositGas(u, i)
    <3>1. /\ calls[u][i].step = "estimateGas" /\ CallTo(u, i, "sendDeposit")
          /\ wallet[u] >= calls[u][i].amount /\ allowance[u] >= calls[u][i].amount
          /\ clear' = IF Pending(u) = {} THEN [clear EXCEPT ![u] = @ \union {i}] ELSE clear
          /\ UNCHANGED <<vars, allowance, txs, ui, lastTx>>
      BY <2>e DEF estimateDepositGas, Estimated, CallAt, OnlyCard
    <3>2. clear' \in [CardUsers -> SUBSET Slots] /\ i \notin clear[u]
      BY <3>1 DEF FlowInv, CardInv, FlowTypes, ClearCallsPayable
    <3>3. CardInv'
      BY <2>2, <3>1, <3>2
    <3>4. /\ calls'[u][i].step = "sendDeposit" /\ calls'[u][i].amount = calls[u][i].amount
          /\ \A v \in CardUsers : \A j \in clear[v] : calls'[v][j] = calls[v][j]
      BY <3>1, <3>2 DEF CallTo, FlowInv, CardInv, FlowTypes, CallRecs
    <3>5. \A v \in CardUsers : \A j \in clear'[v] :
             j \in clear[v] \/ (v = u /\ j = i /\ Pending(u) = {})
      BY <3>1 DEF FlowInv, CardInv, FlowTypes
    <3>6. \A v \in CardUsers : Pending(v)' = Pending(v)
      BY <3>1 DEF Pending
    <3>7. ClearCallsPayable'
      <4> SUFFICES ASSUME NEW v \in CardUsers, NEW j \in clear'[v]
                   PROVE  /\ calls'[v][j].step = "sendDeposit"
                          /\ Pending(v) = {}
                          /\ wallet[v] >= calls'[v][j].amount
                          /\ allowance[v] >= calls'[v][j].amount
        BY <3>1, <3>6 DEF ClearCallsPayable, vars
      <4>1. QED
        BY <3>1, <3>4, <3>5 DEF FlowInv, ClearCallsPayable
    <3>8. QED
      BY <1>1, <3>1, <3>3, <3>7
  <2>10. CASE waitForReceiptWithBackoff(u, i)
    <3>1. /\ calls[u][i].step = "approving" /\ UNCHANGED <<vars, allowance, txs, lastTx>>
          /\ EndCall(u, i) /\ Show(u, i, "approve", "confirmed")
      BY <2>10 DEF waitForReceiptWithBackoff, CallAt, OnlyCard
    <3>2. CardInv'
      BY <2>l, <3>1, EndKeeps DEF FlowInv, HookOf, TxKinds
    <3>c. ClearCallsPayable'
      BY <3>1, EndKeepsClear DEF FlowInv
    <3>3. QED
      BY <1>1, <3>1, <3>2, <3>c
  <2>11. CASE waitForReceiptWithPublicRpc(u, i)
    <3>1. /\ calls[u][i].step = "waiting" /\ UNCHANGED <<vars, allowance, txs>>
          /\ EndCall(u, i) /\ Show(u, i, "deposit", "confirmed")
          /\ TxOf(u, i).state # "pending"
          /\ lastTx' = IF calls[u][i].shown
                         THEN [lastTx EXCEPT ![u] = calls[u][i].tx] ELSE lastTx
      BY <2>11 DEF waitForReceiptWithPublicRpc, CallAt, OnlyCard
    <3>2. calls[u][i].tx \in 1 .. Len(txs[u]) /\ Len(txs[u]) \in Nat
      BY <2>l, <3>1 DEF FlowInv, CardInv, SentCallsHaveTx
    <3>3. /\ lastTx' \in [CardUsers -> Nat]
          /\ \A v \in CardUsers : lastTx'[v] = lastTx[v] \/ (v = u /\ calls[u][i].shown)
          /\ calls[u][i].shown => lastTx'[u] = calls[u][i].tx
      BY <2>l, <3>1, <3>2
    <3>4. CardInv'
      BY <3>1, <3>2, <3>3, EndKeeps DEF FlowInv, HookOf, TxKinds, TxOf
    <3>c. ClearCallsPayable'
      BY <3>1, EndKeepsClear DEF FlowInv
    <3>5. QED
      BY <1>1, <3>1, <3>4, <3>c
  <2>12. QED
    BY <1>5, <2>e, <2>4, <2>5, <2>6, <2>7, <2>8, <2>9, <2>10, <2>11 DEF callStep
<1>6. CASE elsewhere
  BY <1>6, ElsewhereKeeps
<1>7. CASE UNCHANGED flowVars
  <2>1. UNCHANGED <<vars, allowance, txs, ui, calls, lastTx, clear>>
    BY <1>7 DEF flowVars, cardVars
  <2>2. CardInv'
    BY <2>1 DEF FlowInv, CardInv, FlowTypes, CallsMatchCard, Busy, SentCallsHaveTx,
                ConfirmedIsOver
  <2>c. ClearCallsPayable'
    BY <2>1, ClearKept DEF FlowInv
  <2>3. QED
    BY <1>1, <2>1, <2>2, <2>c
<1>8. QED
  BY <1>2, <1>3, <1>4, <1>5, <1>6, <1>7 DEF FlowNext

LEMMA FlowInvariant == FlowSpec => []FlowInv
  BY FlowInitially, FlowStep, PTL DEF FlowSpec

\* Whatever the users click, leave or wait for, a card is busy exactly while one call
\* of its own runs: the buttons of deposit-card.tsx never start a second one.
THEOREM FlowTypesHold == FlowSpec => []FlowTypeOK
<1>1. FlowInv => FlowTypeOK
  <2> SUFFICES ASSUME FlowInv PROVE FlowTypeOK
    OBVIOUS
  <2>1. FlowTypes /\ CallsMatchCard
    BY DEF FlowInv, CardInv
  <2>2. \A u \in CardUsers : \A i \in Slots : HookOf(calls[u][i].step) \in TxKinds
    BY DEF HookOf, TxKinds
  <2>3. \A u \in CardUsers :
           (\E i \in Slots : calls[u][i].shown) <=> \E hook \in TxKinds : Busy(u, hook)
    BY <2>1, <2>2 DEF CallsMatchCard
  <2>4. QED
    BY <2>1, <2>3 DEF FlowInv, VaultInv, FlowTypes, CallsMatchCard, FlowTypeOK, TxRecs,
                      CallRecs
<1>2. QED
  BY <1>1, FlowInvariant, PTL

\* A deposit shown as confirmed is in a block; use-deposit-vault.ts ignores the
\* receipt's status, yet it can only have reverted when the user had something else
\* under way at the estimate of its gas or did something else after it.
THEOREM ConfirmedMeansMined == FlowSpec => []ConfirmedWasMined
<1>1. FlowInv => ConfirmedWasMined
  <2> SUFFICES ASSUME FlowInv, NEW u \in CardUsers, ui[u]["deposit"] = "confirmed"
               PROVE  /\ lastTx[u] # 0
                      /\ \/ txs[u][lastTx[u]].state = "mined"
                         \/ /\ txs[u][lastTx[u]].state = "reverted"
                            /\ ~txs[u][lastTx[u]].alone
    BY DEF ConfirmedWasMined
  <2>1. txs[u] \in Seq(TxRecs)
    BY DEF FlowInv, CardInv, FlowTypes
  <2>2. lastTx[u] \in 1 .. Len(txs[u]) /\ txs[u][lastTx[u]].state # "pending"
    BY DEF FlowInv, CardInv, ConfirmedIsOver
  <2>3. txs[u][lastTx[u]].state \in TxStates
    <3>1. txs[u][lastTx[u]] \in TxRecs
      BY <2>1, <2>2
    <3>2. QED
      BY <3>1 DEF TxRecs
  <2>4. txs[u][lastTx[u]].alone => txs[u][lastTx[u]].state # "reverted"
    BY <2>2 DEF FlowInv, AloneStaysPayable, PayableOf
  <2>5. lastTx[u] # 0
    BY <2>1, <2>2
  <2>6. QED
    BY <2>2, <2>3, <2>4, <2>5, Zenon DEF TxStates
<1>2. QED
  BY <1>1, FlowInvariant, PTL

\* The vault stays solvent and no depositor gains with the allowance, the cards and
\* direct calls around it, whatever order the chain gives their transactions.
THEOREM FlowKeepsVault == FlowSpec => [](Solvent /\ NoUserGains)
<1>1. FlowInv => Solvent /\ NoUserGains
  BY DEF FlowInv, VaultInv
<1>2. QED
  BY <1>1, FlowInvariant, PTL
=============================================================================
