------------------------------ MODULE Standing ------------------------------
(***************************************************************************)
(* The pure arithmetic the dashboard shows of an agent: the hire price     *)
(* mirrored from the contract (app/src/lib/tai.ts) and the discovery score *)
(* with its signals about who paid (app/src/lib/standing.ts).  Integers    *)
(* are BigInts, so nothing overflows.                                      *)
(***************************************************************************)
EXTENDS Integers, FiniteSetsExt

CONSTANTS
    Base,                           \* BPS_BASE, scaled
    FundamentalWeight, MarketWeight \* STANDING_WEIGHTS

ASSUME StandingAssumption ==
    /\ Base \in Nat \ {0}
    /\ FundamentalWeight \in Nat /\ MarketWeight \in Nat
    /\ FundamentalWeight + MarketWeight > 0

\* hireQuote: the multiplier saturates at twice the base.
Multiplier(earned, target) ==
    LET bonus == (earned * Base) \div target
    IN  IF target = 0 THEN Base ELSE Base + (IF bonus > Base THEN Base ELSE bonus)

HireQuote(nav, earned, target) == (nav * Multiplier(earned, target)) \div Base

\* computeStanding: the weighted average of the hire price and the pooled SUI.
ComputeStanding(nav, multiplier, pooled) ==
    (((nav * multiplier) \div Base) * FundamentalWeight + pooled * MarketWeight)
        \div (FundamentalWeight + MarketWeight)

\* summarizePayers, of the payments that count: records of an id, a payer, an
\* amount and a time.
PaidBy(payments, payer) ==
    MapThenSumSet(LAMBDA p : p.amount, {p \in payments : p.payer = payer})

PayersOf(payments) == {p.payer : p \in payments}

CountedTotal(payments) == MapThenSumSet(LAMBDA p : p.amount, payments)

TopPayerShare(payments) ==
    IF CountedTotal(payments) = 0 THEN 0
    ELSE (Max({PaidBy(payments, a) : a \in PayersOf(payments)}) * Base)
            \div CountedTotal(payments)

LastPaid(payments) == IF payments = {} THEN 0 ELSE Max({p.at : p \in payments})

\* The caution on an agent's page.
SingleSource(payments) ==
    CountedTotal(payments) > 0 /\ Cardinality(PayersOf(payments)) <= 1
=============================================================================
