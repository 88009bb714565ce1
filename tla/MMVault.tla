------------------------------ MODULE MMVault ------------------------------
(***************************************************************************)
(* The market-making fund of move/sources/mm_vault.move: depositors pool   *)
(* SUI for shares and redeem positions for their pro-rata part.  A virtual *)
(* offset is added to both shares and assets whenever they are priced.     *)
(* Vault.deployed stays 0: no function of the module raises it, so the     *)
(* "flat" assertions of deposit, withdraw and strike_nav always hold.      *)
(***************************************************************************)
EXTENDS Integers, FiniteSetsExt

CONSTANTS
    VirtualShares, VirtualAssets,
    PositionIds,   \* identities of VaultPosition objects
    Cash,          \* SUI the depositors start with
    MaxEpoch       \* settlements ever struck (a bound)

ASSUME VaultAssumption ==
    /\ VirtualShares \in Nat \ {0}
    /\ VirtualAssets = VirtualShares     \* both are 1_000_000_000
    /\ IsFiniteSet(PositionIds)
    /\ Cash \in Nat
    /\ MaxEpoch \in Nat

VARIABLES
    reserve, totalShares, epoch, lastStrikeNav,  \* fields of the Vault
    positions,     \* shares of each VaultPosition; 0 when it does not exist
    cash           \* SUI in the depositors' hands

vars == <<reserve, totalShares, epoch, lastStrikeNav, positions, cash>>

SharesFor(amount, shares, nav) ==
    (amount * (shares + VirtualShares)) \div (nav + VirtualAssets)

AssetsFor(shares, total, nav) ==
    (shares * (nav + VirtualAssets)) \div (total + VirtualShares)

Init ==
    /\ reserve = 0 /\ totalShares = 0
    /\ epoch = 0 /\ lastStrikeNav = 0
    /\ positions = [p \in PositionIds |-> 0]
    /\ cash = Cash

\* Priced at the NAV before the deposit; a deposit too small to mint a share
\* aborts.
Deposit(p, amount) ==
    LET shares == SharesFor(amount, totalShares, reserve)
    IN  /\ positions[p] = 0
        /\ shares > 0
        /\ reserve' = reserve + amount
        /\ totalShares' = totalShares + shares
        /\ positions' = [positions EXCEPT ![p] = shares]
        /\ cash' = cash - amount
        /\ UNCHANGED <<epoch, lastStrikeNav>>

\* Mutant: the shares are burned before they are priced.
WithdrawBurnFirst(p) ==
    LET shares == positions[p]
        amount == AssetsFor(shares, totalShares - shares, reserve)
    IN  /\ shares # 0 /\ shares <= totalShares /\ amount <= reserve
        /\ totalShares' = totalShares - shares
        /\ reserve' = reserve - amount
        /\ positions' = [positions EXCEPT ![p] = 0]
        /\ cash' = cash + amount
        /\ UNCHANGED <<epoch, lastStrikeNav>>

\* The subtraction from total_shares and the split of the reserve both abort
\* when they would go below zero.
Withdraw(p) ==
    LET shares == positions[p]
        amount == AssetsFor(shares, totalShares, reserve)
    IN  /\ shares # 0
        /\ shares <= totalShares
        /\ amount <= reserve
        /\ totalShares' = totalShares - shares
        /\ reserve' = reserve - amount
        /\ positions' = [positions EXCEPT ![p] = 0]
        /\ cash' = cash + amount
        /\ UNCHANGED <<epoch, lastStrikeNav>>

StrikeNav ==
    /\ epoch < MaxEpoch
    /\ lastStrikeNav' = reserve
    /\ epoch' = epoch + 1
    /\ UNCHANGED <<reserve, totalShares, positions, cash>>

Next ==
    \/ \E p \in PositionIds : (\E n \in 1 .. cash : Deposit(p, n)) \/ Withdraw(p)
    \/ StrikeNav

Spec == Init /\ [][Next]_vars

-----------------------------------------------------------------------------
\* What a position would pay if it were redeemed now.
Redeemable(p) == AssetsFor(positions[p], totalShares, reserve)

\* Whatever the order of deposits and withdrawals, each outstanding position
\* can be redeemed: neither of withdraw's subtractions can abort
\* (mm_vault.move, "guarantees the payout never exceeds the reserve").
WithdrawNeverAborts ==
    \A p \in PositionIds :
        positions[p] <= totalShares /\ Redeemable(p) <= reserve
=============================================================================
