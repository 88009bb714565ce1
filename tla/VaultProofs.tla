---------------------------- MODULE VaultProofs ----------------------------
(***************************************************************************)
(* Proofs about the market-making fund: whatever the depositors do, every  *)
(* position can be redeemed.  They hold for any virtual offset, number of  *)
(* positions and amount of SUI.                                            *)
(***************************************************************************)
EXTENDS MMVault, CurveProofs

\* The shares counted are the shares held, and each is worth its SUI: nothing
\* but deposits and withdrawals moves the reserve.
VaultInv ==
    /\ reserve \in Nat /\ totalShares \in Nat
    /\ positions \in [PositionIds -> Nat]
    /\ totalShares = Total(positions)
    /\ totalShares = reserve
    /\ cash \in Nat

\* At par, shares and SUI are exchanged one for one: the divisions leave nothing.
LEMMA AtPar ==
    ASSUME NEW amount \in Nat, NEW assets \in Nat
    PROVE  /\ SharesFor(amount, assets, assets) = amount
           /\ AssetsFor(amount, assets, assets) = amount
  <1> DEFINE d == assets + VirtualShares
             q == (amount * d) \div d
  <1>1. d \in Nat \ {0} /\ amount * d \in Nat
    BY VaultAssumption
  <1> HIDE DEF d
  <1>2. q \in Nat /\ d * q <= amount * d /\ amount * d < d * q + d
    BY <1>1, DivBounds
  <1>3. d * q < d * (amount + 1) /\ d * amount < d * (q + 1)
    BY <1>1, <1>2
  <1>4. q < amount + 1 /\ amount < q + 1
    BY <1>1, <1>2, <1>3, MulCancel
  <1>5. q = amount
    BY <1>2, <1>4
  <1> QED
    BY <1>5, VaultAssumption DEF d, SharesFor, AssetsFor

LEMMA VaultBase == Init => VaultInv
  BY TotalZero, VaultAssumption DEF Init, VaultInv

LEMMA DepositKeepsPar ==
    ASSUME VaultInv, NEW p \in PositionIds, NEW n \in 1 .. cash, Deposit(p, n)
    PROVE  VaultInv'
  <1>1. SharesFor(n, totalShares, reserve) = n
    BY AtPar DEF VaultInv
  <1>2. /\ positions' = [positions EXCEPT ![p] = n] /\ positions[p] = 0
        /\ totalShares' = totalShares + n /\ reserve' = reserve + n /\ cash' = cash - n
    BY <1>1 DEF Deposit
  <1>3. Total(positions') = Total(positions) + n - positions[p] /\ Total(positions) \in Int
    <2>1. positions \in [PositionIds -> Int] /\ n \in Int /\ IsFiniteSet(PositionIds)
      BY VaultAssumption DEF VaultInv
    <2> QED
      BY <1>2, <2>1, TotalUpdate
  <1> QED
    BY <1>2, <1>3 DEF VaultInv

LEMMA WithdrawKeepsPar ==
    ASSUME VaultInv, NEW p \in PositionIds, Withdraw(p)
    PROVE  VaultInv'
  <1>1. positions[p] \in Nat /\ AssetsFor(positions[p], totalShares, reserve) = positions[p]
    BY AtPar DEF VaultInv
  <1>2. PICK z \in Nat : z = 0
    OBVIOUS
  <1>3. /\ positions' = [positions EXCEPT ![p] = z] /\ positions[p] <= totalShares
        /\ totalShares' = totalShares - positions[p]
        /\ reserve' = reserve - positions[p] /\ cash' = cash + positions[p]
    BY <1>1, <1>2 DEF Withdraw
  <1>4. Total(positions') = Total(positions) + z - positions[p] /\ Total(positions) \in Int
    <2>1. positions \in [PositionIds -> Int] /\ z \in Int /\ IsFiniteSet(PositionIds)
      BY VaultAssumption DEF VaultInv
    <2> QED
      BY <1>3, <2>1, TotalUpdate
  <1> QED
    BY <1>1, <1>2, <1>3, <1>4 DEF VaultInv

\* The invariant of the vault, inductive.
THEOREM VaultInvariant == Spec => []VaultInv
  <1>1. VaultInv /\ [Next]_vars => VaultInv'
    <2> SUFFICES ASSUME VaultInv, [Next]_vars
                 PROVE  VaultInv'
      OBVIOUS
    <2>1. CASE \E p \in PositionIds, n \in 1 .. cash : Deposit(p, n)
      BY <2>1, DepositKeepsPar
    <2>2. CASE \E p \in PositionIds : Withdraw(p)
      BY <2>2, WithdrawKeepsPar
    <2>3. CASE StrikeNav \/ UNCHANGED vars
      BY <2>3 DEF StrikeNav, vars, VaultInv
    <2> QED
      BY <2>1, <2>2, <2>3 DEF Next
  <1> QED
    BY <1>1, VaultBase, PTL DEF Spec

\* WithdrawNeverAborts: of the shares of a position no subtraction in withdraw
\* goes below zero (mm_vault.move, "the payout never exceeds the reserve").
THEOREM WithdrawalsAlwaysPaid == Spec => []WithdrawNeverAborts
  <1>1. ASSUME VaultInv PROVE WithdrawNeverAborts
    <2>1. SUFFICES ASSUME NEW p \in PositionIds
                   PROVE  positions[p] <= totalShares /\ Redeemable(p) <= reserve
      BY DEF WithdrawNeverAborts
    <2>2. positions[p] \in Nat /\ positions[p] <= Total(positions)
      BY <1>1, VaultAssumption, TotalCovers DEF VaultInv
    <2>3. Redeemable(p) = positions[p]
      BY <1>1, <2>2, AtPar DEF VaultInv, Redeemable
    <2> QED
      BY <1>1, <2>2, <2>3 DEF VaultInv
  <1> QED
    BY <1>1, VaultInvariant, PTL

\* What a depositor paid in is what his position pays out, to the unit, however
\* others came and went: a position is minted for exactly what its owner's cash
\* went down by, and stays redeemable for it.
THEOREM PositionsKeepTheirWorth ==
    Spec => /\ [](\A p \in PositionIds : Redeemable(p) = positions[p])
            /\ [][\A p \in PositionIds : positions'[p] # positions[p] =>
                      cash + positions[p] = cash' + positions'[p]]_vars
  <1> DEFINE Paid == \A p \in PositionIds : Redeemable(p) = positions[p]
             Minted == \A p \in PositionIds : positions'[p] # positions[p] =>
                           cash + positions[p] = cash' + positions'[p]
  <1>1. VaultInv => Paid
    BY AtPar DEF VaultInv, Redeemable
  <1>2. VaultInv /\ [Next]_vars => [Minted]_vars
    <2> SUFFICES ASSUME VaultInv, Next
                 PROVE  Minted
      OBVIOUS
    <2>1. ASSUME NEW o \in PositionIds, NEW n \in 1 .. cash, Deposit(o, n)
          PROVE  Minted
      <3>1. SharesFor(n, totalShares, reserve) = n
        BY AtPar DEF VaultInv
      <3>2. positions' = [positions EXCEPT ![o] = n] /\ positions[o] = 0 /\ cash' = cash - n
        BY <2>1, <3>1 DEF Deposit
      <3> QED
        BY <3>2 DEF VaultInv
    <2>2. ASSUME NEW o \in PositionIds, Withdraw(o)
          PROVE  Minted
      <3>1. positions[o] \in Nat /\ AssetsFor(positions[o], totalShares, reserve) = positions[o]
        BY AtPar DEF VaultInv
      <3>2. positions' = [positions EXCEPT ![o] = 0] /\ cash' = cash + positions[o]
        BY <2>2, <3>1 DEF Withdraw
      <3> QED
        BY <3>1, <3>2 DEF VaultInv
    <2>3. CASE StrikeNav
      BY <2>3 DEF StrikeNav
    <2> QED
      BY <2>1, <2>2, <2>3 DEF Next
  <1> HIDE DEF Paid, Minted
  <1>3. Spec => []Paid /\ [][Minted]_vars
    BY <1>1, <1>2, VaultInvariant, PTL DEF Spec
  <1> QED
    BY <1>3 DEF Paid, Minted

-----------------------------------------------------------------------------
(* The share arithmetic away from par, as it would be once a strategy moves *)
(* the NAV: shares_for and assets_for at any total of shares and any NAV.   *)

\* The price of a share is the NAV over the shares, each with its offset.
NoCheaper(shares, nav, newShares, newNav) ==
    (newNav + VirtualAssets) * (shares + VirtualShares)
        >= (nav + VirtualAssets) * (newShares + VirtualShares)

\* shares_for rounds against the depositor and assets_for against the one who
\* redeems, so neither a deposit nor a withdrawal makes the shares of the others
\* cheaper, whatever gains or losses the vault has made.
THEOREM SharesNeverCheaper ==
    ASSUME NEW total \in Nat, NEW nav \in Nat, NEW n \in Nat
    PROVE  /\ SharesFor(n, total, nav) \in Nat
           /\ NoCheaper(total, nav, total + SharesFor(n, total, nav), nav + n)
           /\ AssetsFor(n, total, nav) \in Nat
           /\ NoCheaper(total, nav, total - n, nav - AssetsFor(n, total, nav))
  <1> DEFINE S == total + VirtualShares
             N == nav + VirtualAssets
             minted == SharesFor(n, total, nav)
             paid == AssetsFor(n, total, nav)
  <1>1. S \in Nat \ {0} /\ N \in Nat \ {0} /\ n * S \in Nat /\ n * N \in Nat
    BY VaultAssumption
  <1>2. minted \in Nat /\ N * minted <= n * S
    BY <1>1, DivBounds DEF SharesFor
  <1>3. paid \in Nat /\ S * paid <= n * N
    BY <1>1, DivBounds DEF AssetsFor
  <1> DEFINE Goal1 == (N + n) * S >= N * (S + minted)
             Goal2 == (N - paid) * S >= N * (S - n)
  <1> HIDE DEF S, N, minted, paid
  <1>4. Goal1
    BY <1>1, <1>2
  <1>5. Goal2
    BY <1>1, <1>3
  <1>6. /\ nav + n + VirtualAssets = N + n /\ total + minted + VirtualShares = S + minted
        /\ nav - paid + VirtualAssets = N - paid /\ total - n + VirtualShares = S - n
    BY <1>2, <1>3, VaultAssumption DEF S, N
  <1> QED
    BY <1>2, <1>3, <1>4, <1>5, <1>6 DEF NoCheaper, S, N, minted, paid

\* Who deposits and redeems at once gets back no more than he paid in.
THEOREM RoundTripNeverGains ==
    ASSUME NEW total \in Nat, NEW nav \in Nat, NEW n \in Nat
    PROVE  LET minted == SharesFor(n, total, nav)
           IN  AssetsFor(minted, total + minted, nav + n) <= n
  <1> DEFINE S == total + VirtualShares
             N == nav + VirtualAssets
             minted == SharesFor(n, total, nav)
             paid == AssetsFor(minted, total + minted, nav + n)
  <1>1. S \in Nat \ {0} /\ N \in Nat \ {0} /\ n * S \in Nat
    BY VaultAssumption
  <1>2. minted \in Nat /\ N * minted <= n * S
    BY <1>1, DivBounds DEF SharesFor
  <1>3. /\ total + minted + VirtualShares = S + minted /\ S + minted \in Nat \ {0}
        /\ nav + n + VirtualAssets = N + n /\ minted * (N + n) \in Nat
    <2> HIDE DEF minted
    <2> QED
      BY <1>2, VaultAssumption
  <1>4. paid \in Nat /\ (S + minted) * paid <= minted * (N + n)
    <2> HIDE DEF minted, S, N
    <2>1. paid = (minted * (N + n)) \div (S + minted)
      BY <1>3 DEF AssetsFor
    <2> QED
      BY <1>3, <2>1, DivBounds
  <1> HIDE DEF S, N, minted, paid
  <1>5. (S + minted) * paid < (S + minted) * (n + 1)
    <2>1. minted * (N + n) <= n * (S + minted)
      BY <1>1, <1>2
    <2>2. n * (S + minted) < (S + minted) * (n + 1)
      BY <1>2, <1>3
    <2> QED
      BY <1>1, <1>2, <1>4, <2>1, <2>2
  <1>6. paid < n + 1
    BY <1>3, <1>4, <1>5, MulCancel
  <1> QED
    BY <1>4, <1>6 DEF minted, paid

\* mm_vault.move:19-21: a deposit rounds to no shares only where the vault holds on
\* the order of VIRTUAL_ASSETS times its amount more than its shares account for.
THEOREM ZeroSharesNeedAWindfall ==
    ASSUME NEW total \in Nat, NEW nav \in Nat, NEW n \in Nat \ {0},
           SharesFor(n, total, nav) = 0
    PROVE  nav > n * total + (n - 1) * VirtualAssets
  <1> DEFINE S == total + VirtualShares
             N == nav + VirtualAssets
  <1>1. S \in Nat \ {0} /\ N \in Nat \ {0} /\ n * S \in Nat
    BY VaultAssumption
  <1>2. n * S < N * SharesFor(n, total, nav) + N
    BY <1>1, DivBounds DEF SharesFor
  <1>3. n * total + n * VirtualShares < nav + VirtualAssets
    BY <1>1, <1>2, VaultAssumption
  <1> QED
    BY <1>3, VaultAssumption

\* mm_vault.move:142-143, "the payout never exceeds the reserve": at any NAV from
\* par up, of any part of the shares.  Below par the offset alone does not give
\* it; WithdrawalsAlwaysPaid holds because nothing takes the vault there.
THEOREM PayoutWithinReserve ==
    ASSUME NEW total \in Nat, NEW nav \in Nat, total <= nav, NEW n \in 0 .. total
    PROVE  AssetsFor(n, total, nav) <= nav
  <1> DEFINE S == total + VirtualShares
             N == nav + VirtualAssets
             paid == AssetsFor(n, total, nav)
  <1>1. S \in Nat \ {0} /\ N \in Nat \ {0} /\ n \in Nat /\ n * N \in Nat
    BY VaultAssumption
  <1>2. paid \in Nat /\ S * paid <= n * N
    BY <1>1, DivBounds DEF AssetsFor
  <1>3. n * N <= total * N
    BY <1>1, MulMono
  <1>4. total * N <= nav * S
    <2>1. total * VirtualShares <= nav * VirtualShares
      BY VaultAssumption, MulMono
    <2> QED
      BY <2>1, VaultAssumption
  <1> HIDE DEF S, N, paid
  <1>5. S * paid <= S * nav
    <2>1. n * N \in Nat /\ total * N \in Nat /\ S * paid \in Nat /\ nav * S \in Nat
      BY <1>1, <1>2
    <2> QED
      BY <1>1, <1>2, <1>3, <1>4, <2>1
  <1>6. S * paid < S * (nav + 1)
    BY <1>1, <1>2, <1>5
  <1>7. paid < nav + 1
    BY <1>1, <1>2, <1>6, MulCancel
  <1> QED
    BY <1>2, <1>7 DEF paid
=============================================================================
