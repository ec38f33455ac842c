----------------------------- MODULE DepositFlow -----------------------------
(***************************************************************************)
(* A depositor's way into the vault: the deposit card of the frontend      *)
(* (components/deposit/deposit-card.tsx), the hooks behind its two buttons *)
(* (use-approve-usdc.ts, use-deposit-vault.ts, use-transaction-state.ts),  *)
(* the wallet, and BondCreditVault with the allowance USDC checks.         *)
(*                                                                         *)
(* A click starts a call.  Leaving the page takes the card away, not the   *)
(* call: it runs on and nobody sees what it sets.  The wallet's            *)
(* transactions are mined in the order they were sent (nonces), whether or *)
(* not a call still waits for them.                                        *)
(***************************************************************************)
EXTENDS BondCreditVault, Sequences

CONSTANTS
    CardUsers,  \* users of the frontend; the others call the contract directly
    MaxTxs,     \* bound on the transactions a card user sends
    MaxCalls    \* bound on the calls of one user that run at once

ASSUME CardAssumption ==
    CardUsers \subseteq Users /\ MaxTxs \in Nat /\ MaxCalls \in Nat \ {0}

Slots == 1 .. MaxCalls

VARIABLES
    allowance,  \* what the vault may take of each user's USDC
    txs,        \* transactions sent by each user
    ui,         \* txState.stage of the two hooks, as the card shows it
    calls,      \* the calls that run
    lastTx,     \* transaction the deposit hook's state names, 0: none
    clear       \* history: calls whose gas was estimated with nothing of the user
                \* under way, and since when the user has done nothing else

cardVars == <<ui, calls, lastTx, clear>>
flowVars == <<vars, allowance, txs, cardVars>>

UiStages == {"idle", "submitting", "pending", "confirmed", "error"}
TxKinds == {"approve", "deposit"}
TxStates == {"pending", "mined", "reverted"}
Steps == {"none", "sendApprove", "approving", "balance", "allowance", "estimateGas",
          "sendDeposit", "waiting"}
IdleCard == [hook \in TxKinds |-> "idle"]
NoCall == [step |-> "none", amount |-> 0, tx |-> 0, shown |-> FALSE]

FlowInit ==
    /\ Init
    /\ allowance = [u \in Users |-> 0]
    /\ txs = [u \in CardUsers |-> <<>>]
    /\ ui = [u \in CardUsers |-> IdleCard]
    /\ calls = [u \in CardUsers |-> [i \in Slots |-> NoCall]]
    /\ lastTx = [u \in CardUsers |-> 0]
    /\ clear = [u \in CardUsers |-> {}]

-----------------------------------------------------------------------------
(* The card: both buttons are disabled while either hook is busy.          *)

Busy(u, hook) == ui[u][hook] \in {"submitting", "pending"}

\* Wrong variant: only a transaction that was sent disables the buttons.
ButtonsEnabledEarly(u) == \A hook \in TxKinds : ui[u][hook] # "pending"

ButtonsEnabled(u) == \A hook \in TxKinds : ~Busy(u, hook)

Show(u, i, hook, stage) ==
    ui' = IF calls[u][i].shown THEN [ui EXCEPT ![u][hook] = stage] ELSE ui

Click(u, hook, step, a) ==
    /\ ButtonsEnabled(u) /\ a > 0
    /\ \E i \in Slots :
          /\ calls[u][i] = NoCall
          /\ calls' = [calls EXCEPT ![u][i] =
                [step |-> step, amount |-> a, tx |-> 0, shown |-> TRUE]]
    /\ ui' = [ui EXCEPT ![u][hook] = "submitting"]
    /\ UNCHANGED <<vars, allowance, txs, lastTx, clear>>

onApproveClick(u, a) == Click(u, "approve", "sendApprove", a)
onDepositClick(u, a) == Click(u, "deposit", "balance", a)

\* Each mount has a state of its own: a card that is shown again starts idle.
leavePage(u) ==
    /\ \E i \in Slots : calls[u][i].shown
    /\ ui' = [ui EXCEPT ![u] = IdleCard]
    /\ calls' = [calls EXCEPT ![u] = [i \in Slots |-> [@[i] EXCEPT !.shown = FALSE]]]
    /\ lastTx' = [lastTx EXCEPT ![u] = 0]
    /\ UNCHANGED <<vars, allowance, txs, clear>>

-----------------------------------------------------------------------------
(* The two hooks.                                                          *)

CallAt(u, i, s) == calls[u][i].step = s
CallTo(u, i, s) == calls' = [calls EXCEPT ![u][i] = [@ EXCEPT !.step = s]]
EndCall(u, i) ==
    calls' = [calls EXCEPT ![u][i] = NoCall] /\ clear' = [clear EXCEPT ![u] = @ \ {i}]
OnlyCard == UNCHANGED <<vars, allowance, txs>>

\* An error of the call: setError; the caller may click again.
FailCall(u, i, hook) ==
    EndCall(u, i) /\ Show(u, i, hook, "error") /\ UNCHANGED lastTx

Pending(u) == { k \in DOMAIN txs[u] : txs[u][k].state = "pending" }

\* What the wallet sends is mined some time; `alone` is history: from the estimate of
\* its gas to its block nothing else of the user can touch USDC or allowance.
Send(u, i, kind, step, stage) ==
    /\ Len(txs[u]) < MaxTxs
    /\ txs' = [txs EXCEPT ![u] = Append(@,
          [kind |-> kind, amount |-> calls[u][i].amount, state |-> "pending",
           alone |-> i \in clear[u]])]
    /\ calls' = [calls EXCEPT ![u][i] = [@ EXCEPT !.step = step, !.tx = Len(txs[u]) + 1]]
    /\ clear' = [clear EXCEPT ![u] = {}]
    /\ Show(u, i, kind, stage)

\* usdc.approve in the wallet.
submitApproval(u, i) ==
    /\ CallAt(u, i, "sendApprove")
    /\ Send(u, i, "approve", "approving", "pending")
    /\ UNCHANGED <<vars, allowance, lastTx>>

approvalRejected(u, i) ==
    /\ CallAt(u, i, "sendApprove")
    /\ FailCall(u, i, "approve")
    /\ OnlyCard

TxOf(u, i) == txs[u][calls[u][i].tx]

waitForReceiptWithBackoff(u, i) ==
    /\ CallAt(u, i, "approving") /\ TxOf(u, i).state # "pending"
    /\ EndCall(u, i) /\ Show(u, i, "approve", "confirmed")
    /\ OnlyCard /\ UNCHANGED lastTx

\* Six waits of two minutes, or an error other than a rate limit.
approvalWaitFails(u, i) ==
    /\ CallAt(u, i, "approving")
    /\ FailCall(u, i, "approve")
    /\ OnlyCard

checkBalance(u, i) ==
    /\ CallAt(u, i, "balance")
    /\ IF wallet[u] >= calls[u][i].amount
         THEN CallTo(u, i, "allowance") /\ UNCHANGED <<ui, lastTx, clear>>
         ELSE FailCall(u, i, "deposit")
    /\ OnlyCard

checkAllowance(u, i) ==
    /\ CallAt(u, i, "allowance")
    /\ IF allowance[u] >= calls[u][i].amount
         THEN CallTo(u, i, "estimateGas") /\ UNCHANGED <<ui, lastTx, clear>>
         ELSE FailCall(u, i, "deposit")
    /\ OnlyCard

\* vault.deposit, its first half: ethers has the gas estimated, which fails when the
\* call would revert as things are.
Estimated(u, i) ==
    /\ CallTo(u, i, "sendDeposit")
    /\ clear' = IF Pending(u) = {} THEN [clear EXCEPT ![u] = @ \union {i}] ELSE clear
    /\ OnlyCard /\ UNCHANGED <<ui, lastTx>>

\* Wrong variant: the call comes with a gas limit, and nothing is estimated.
estimateSkipped(u, i) == CallAt(u, i, "estimateGas") /\ Estimated(u, i)

estimateDepositGas(u, i) ==
    /\ CallAt(u, i, "estimateGas")
    /\ wallet[u] >= calls[u][i].amount /\ allowance[u] >= calls[u][i].amount
    /\ Estimated(u, i)

\* Its second half: the wallet asks the user, for any time, and sends.  The hook is
\* set to pending and, at once, to submitting again.
submitDeposit(u, i) ==
    /\ CallAt(u, i, "sendDeposit")
    /\ Send(u, i, "deposit", "waiting", "submitting")
    /\ UNCHANGED <<vars, allowance, lastTx>>

depositRejected(u, i) ==
    /\ CallAt(u, i, "estimateGas") \/ CallAt(u, i, "sendDeposit")
    /\ FailCall(u, i, "deposit")
    /\ OnlyCard

\* Any receipt will do: its status is not looked at.
waitForReceiptWithPublicRpc(u, i) ==
    /\ CallAt(u, i, "waiting") /\ TxOf(u, i).state # "pending"
    /\ EndCall(u, i) /\ Show(u, i, "deposit", "confirmed")
    /\ lastTx' = IF calls[u][i].shown THEN [lastTx EXCEPT ![u] = calls[u][i].tx]
                                      ELSE lastTx
    /\ OnlyCard

\* After 90 attempts, or an error other than a rate limit.
depositWaitFails(u, i) ==
    /\ CallAt(u, i, "waiting")
    /\ FailCall(u, i, "deposit")
    /\ OnlyCard

-----------------------------------------------------------------------------
(* The chain.                                                              *)

Executed(u, k, state) ==
    txs' = [txs EXCEPT ![u][k].state = state]

mine(u) ==
    \E k \in Pending(u) :
        /\ \A j \in Pending(u) : k <= j
        /\ LET t == txs[u][k]
           IN  \/ /\ t.kind = "approve"
                  /\ allowance' = [allowance EXCEPT ![u] = t.amount]
                  /\ Executed(u, k, "mined") /\ UNCHANGED vars
               \/ /\ t.kind = "deposit" /\ allowance[u] >= t.amount
                  /\ deposit(u, t.amount)
                  /\ allowance' = [allowance EXCEPT ![u] = @ - t.amount]
                  /\ Executed(u, k, "mined")
               \/ /\ t.kind = "deposit"
                  /\ allowance[u] < t.amount \/ wallet[u] < t.amount
                  /\ Executed(u, k, "reverted") /\ UNCHANGED <<vars, allowance>>
        /\ UNCHANGED cardVars

\* Calls to the contract and to USDC from elsewhere.
Overtaken(t) == [t EXCEPT !.alone = t.alone /\ t.state # "pending"]

Disturbed(u) ==
    /\ txs' = IF u \in CardUsers
                THEN [txs EXCEPT ![u] = [k \in DOMAIN txs[u] |-> Overtaken(txs[u][k])]]
                ELSE txs
    /\ clear' = IF u \in CardUsers THEN [clear EXCEPT ![u] = {}] ELSE clear

elsewhere ==
    /\ \/ /\ \E u \in Users, a \in Amounts :
                 PlainTransferToVault(u, a) /\ Disturbed(u)
       \/ /\ \/ \E u \in Users \ CardUsers, a \in Amounts : deposit(u, a)
             \/ \E u \in Users, a \in Amounts : withdraw(u, a)
             \/ \E a \in Amounts : transferToBridgeWallet(a)
          /\ UNCHANGED <<txs, clear>>
    /\ UNCHANGED <<allowance, ui, calls, lastTx>>

\* What a call does once the user has clicked and the chain has answered.
callStep(u, i) ==
    \/ submitApproval(u, i) \/ approvalRejected(u, i)
    \/ waitForReceiptWithBackoff(u, i) \/ approvalWaitFails(u, i)
    \/ checkBalance(u, i) \/ checkAllowance(u, i)
    \/ estimateDepositGas(u, i) \/ submitDeposit(u, i) \/ depositRejected(u, i)
    \/ waitForReceiptWithPublicRpc(u, i) \/ depositWaitFails(u, i)

FlowNext ==
    \/ \E u \in CardUsers, a \in Amounts : onApproveClick(u, a) \/ onDepositClick(u, a)
    \/ \E u \in CardUsers : leavePage(u) \/ mine(u)
    \/ \E u \in CardUsers, i \in Slots : callStep(u, i)
    \/ elsewhere

FlowSpec == FlowInit /\ [][FlowNext]_flowVars

-----------------------------------------------------------------------------
\* Types, and: a card is busy exactly while a call of its own runs, and never with
\* two, so that a second deposit can only start when the first has ended, was given
\* up or lost its card.
FlowTypeOK ==
    /\ TypeOK
    /\ allowance \in [Users -> Nat]
    /\ txs \in [CardUsers -> Seq([kind : TxKinds, amount : Nat, state : TxStates,
                                 alone : BOOLEAN])]
    /\ ui \in [CardUsers -> [TxKinds -> UiStages]]
    /\ calls \in [CardUsers -> [Slots -> [step : Steps, amount : Nat, tx : Nat,
                                          shown : BOOLEAN]]]
    /\ lastTx \in [CardUsers -> Nat]
    /\ clear \in [CardUsers -> SUBSET Slots]
    /\ \A u \in CardUsers :
          /\ \A i, j \in Slots : calls[u][i].shown /\ calls[u][j].shown => i = j
          /\ (\E i \in Slots : calls[u][i].shown) <=> \E hook \in TxKinds : Busy(u, hook)

\* "Deposit confirmed" is only shown for a transaction that is in a block.  If it
\* reverted, the estimate of its gas was not to be relied on: another transaction of
\* the user was under way by then, or was sent or moved the user's USDC between the
\* estimate and the block, of which the wallet's prompt and the mining are a part.
ConfirmedWasMined ==
    \A u \in CardUsers : ui[u]["deposit"] = "confirmed" =>
        /\ lastTx[u] # 0
        /\ \/ txs[u][lastTx[u]].state = "mined"
           \/ txs[u][lastTx[u]].state = "reverted" /\ ~txs[u][lastTx[u]].alone
=============================================================================
