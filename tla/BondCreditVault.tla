--------------------------- MODULE BondCreditVault ---------------------------
(***************************************************************************)
(* The vault contract on XDC (contracts/BondCreditVault.sol) together with *)
(* the part of the USDC ledger it moves.  A call that reverts changes      *)
(* nothing, so a `require` is a guard of the action.                       *)
(*                                                                         *)
(* The USDC token is external: transfer and transferFrom move balances or  *)
(* revert.  The bridge wallet is outside this module: what reaches it is   *)
(* counted by the history variable bridgedOut.                             *)
(***************************************************************************)
EXTENDS Integers, FiniteSetsExt

CONSTANTS
    Users,        \* depositor addresses
    Amounts,      \* amounts a caller may pass
    InitialUsdc   \* USDC each user starts with

ASSUME UsersAssumption == IsFiniteSet(Users)
ASSUME AmountsAssumption == Amounts \subseteq Nat
ASSUME InitialUsdcAssumption == InitialUsdc \in Nat

VARIABLES
    wallet,         \* USDC of each user, outside the vault
    vaultUsdc,      \* USDC held by the vault's address
    balances,       \* the contract's per-user accounting
    totalDeposits,  \* the contract's aggregate
    bridgedOut      \* history: USDC ever sent to the bridge wallet

vars == <<wallet, vaultUsdc, balances, totalDeposits, bridgedOut>>

Init ==
    /\ wallet = [u \in Users |-> InitialUsdc]
    /\ vaultUsdc = 0
    /\ balances = [u \in Users |-> 0]
    /\ totalDeposits = 0
    /\ bridgedOut = 0

\* USDC.transfer / transferFrom between a user and the vault.
PayIn(u, a) ==
    /\ wallet[u] >= a
    /\ wallet' = [wallet EXCEPT ![u] = @ - a]
    /\ vaultUsdc' = vaultUsdc + a

PayOut(u, a) ==
    /\ vaultUsdc >= a
    /\ wallet' = [wallet EXCEPT ![u] = @ + a]
    /\ vaultUsdc' = vaultUsdc - a

deposit(u, a) ==
    /\ a > 0
    /\ PayIn(u, a)
    /\ balances' = [balances EXCEPT ![u] = @ + a]
    /\ totalDeposits' = totalDeposits + a
    /\ UNCHANGED bridgedOut

\* Wrong variant of withdraw, which the properties must refute: without the update
\* of the user's balance.
withdrawUndebited(u, a) ==
    /\ a > 0
    /\ balances[u] >= a
    /\ totalDeposits >= a
    /\ totalDeposits' = totalDeposits - a
    /\ PayOut(u, a)
    /\ UNCHANGED <<balances, bridgedOut>>

\* Solidity 0.8 reverts on the underflow of `totalDeposits -= amount`.
withdraw(u, a) ==
    /\ a > 0
    /\ balances[u] >= a
    /\ totalDeposits >= a
    /\ balances' = [balances EXCEPT ![u] = @ - a]
    /\ totalDeposits' = totalDeposits - a
    /\ PayOut(u, a)
    /\ UNCHANGED bridgedOut

\* Wrong variant: the aggregate is not lowered.
transferKeepingTotal(a) ==
    /\ a > 0
    /\ a <= totalDeposits
    /\ vaultUsdc >= a
    /\ vaultUsdc' = vaultUsdc - a
    /\ bridgedOut' = bridgedOut + a
    /\ UNCHANGED <<wallet, balances, totalDeposits>>

\* onlyOwner; per-user balances are left as they are.
transferToBridgeWallet(a) ==
    /\ a > 0
    /\ a <= totalDeposits
    /\ vaultUsdc >= a
    /\ totalDeposits' = totalDeposits - a
    /\ vaultUsdc' = vaultUsdc - a
    /\ bridgedOut' = bridgedOut + a
    /\ UNCHANGED <<wallet, balances>>

\* Anyone can send USDC to the vault's address without calling the contract.
PlainTransferToVault(u, a) ==
    /\ a > 0
    /\ PayIn(u, a)
    /\ UNCHANGED <<balances, totalDeposits, bridgedOut>>

Next ==
    \/ \E u \in Users, a \in Amounts : deposit(u, a)
    \/ \E u \in Users, a \in Amounts : withdraw(u, a)
    \/ \E u \in Users, a \in Amounts : PlainTransferToVault(u, a)
    \/ \E a \in Amounts : transferToBridgeWallet(a)

Spec == Init /\ [][Next]_vars

-----------------------------------------------------------------------------
TypeOK ==
    /\ wallet \in [Users -> Nat]
    /\ vaultUsdc \in Nat
    /\ balances \in [Users -> Nat]
    /\ totalDeposits \in Nat
    /\ bridgedOut \in Nat

\* The aggregate the owner's and the users' calls are checked against is always
\* covered by real USDC, whatever is bridged out, withdrawn or sent in unasked:
\* the transfer after `totalDeposits -= amount` never fails.
Solvent == vaultUsdc >= totalDeposits

\* No order of deposits, withdrawals, bridge transfers and plain transfers, of
\* any number of users, lets a user hold or claim more than they started with:
\* nobody is paid out of another user's deposit beyond their own claim.
NoUserGains == \A u \in Users : wallet[u] + balances[u] <= InitialUsdc

\* Users' claims exceed what the vault still tracks by exactly what has been
\* bridged out: `transferToBridgeWallet` lowers the aggregate but no user's
\* entry, so the shortfall of the vault is the bridged amount and nothing else.
ClaimsAccounted ==
    MapThenSumSet(LAMBDA u : balances[u], Users) = totalDeposits + bridgedOut
=============================================================================
