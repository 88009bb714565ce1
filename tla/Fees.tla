-------------------------------- MODULE Fees --------------------------------
(***************************************************************************)
(* move/sources/fees.move: how an amount is split between the agent's NAV, *)
(* its creator, and the platform (or, for token payments, the burn).  A    *)
(* share triple is a record [nav, creator, rest] of basis points.  The     *)
(* third part of a split is what is left, so it absorbs the rounding.      *)
(***************************************************************************)
EXTENDS BondingCurve,  \* for BpsDenominator and FeeOn
        FiniteSetsExt

\* compute_split aborts unless this holds.
SplitDefined(shares) == shares.nav + shares.creator <= BpsDenominator

ComputeSplit(total, shares) ==
    LET nav     == FeeOn(total, shares.nav)
        creator == FeeOn(total, shares.creator)
    IN  [nav |-> nav, creator |-> creator, rest |-> total - nav - creator]

\* Coins arriving at the address a.
Credit(wallet, a, amount) == [wallet EXCEPT ![a] = @ + amount]

\* Coins the address a hands over; callers check it holds them.
Debit(wallet, a, amount) == [wallet EXCEPT ![a] = @ - amount]

\* What all the balances of a map from holders to amounts come to.
Total(balances) == MapThenSumSet(LAMBDA a : balances[a], DOMAIN balances)

\* Mutant: the platform's part is dropped.
DistributeNoPlatform(wallet, split, creator, platform) ==
    Credit(wallet, creator, split.creator)

\* The wallets after distribute_sui: the creator's and the platform's parts
\* leave as coins.  The NAV part joins a balance of the account instead.
DistributeSui(wallet, split, creator, platform) ==
    Credit(Credit(wallet, creator, split.creator), platform, split.rest)
=============================================================================
