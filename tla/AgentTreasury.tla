--------------------------- MODULE AgentTreasury ---------------------------
(***************************************************************************)
(* The AgentTreasury<T> of move/sources/agent_treasury.move: an agent's    *)
(* working capital in SUI and in its own token, withdrawn by the OwnerCap  *)
(* without limit and spent by OperatorCaps within a daily budget.          *)
(* What is outside the treasury is kept as one total per coin type; coins  *)
(* sent to the treasury's address wait in its inbox until claimed.         *)
(***************************************************************************)
EXTENDS OperatorCaps, FiniteSetsExt

CONSTANTS
    Recipients,             \* addresses coins are sent to
    SuiTotal, TokenTotal    \* coins in existence

ASSUME TreasuryAssumption ==
    /\ SuiTotal \in Nat /\ TokenTotal \in Nat
    /\ TargetSets \subseteq SUBSET Recipients
    /\ TargetSets # {}

VARIABLES
    treasury,    \* sui_balance and token_balance
    inbox,       \* coins transferred to the treasury object, unclaimed
    outside,     \* coins everywhere else
    outflow      \* history: what each cap took out, per UTC day and coin

treasuryVars == <<now, caps, issued, active, treasury, inbox, outside, outflow>>

CoinTypes == {"sui", "token"}
Coins == [CoinTypes -> Nat]
Zero == [k \in CoinTypes |-> 0]
Days == 0 .. MaxTime \div DayLength

InExistence(k) == IF k = "sui" THEN SuiTotal ELSE TokenTotal

Add(coins, k, n) == [coins EXCEPT ![k] = @ + n]
Take(coins, k, n) == [coins EXCEPT ![k] = @ - n]

TreasuryInit ==
    /\ CapsInit
    /\ treasury = Zero
    /\ inbox = Zero
    /\ outside = [k \in CoinTypes |-> InExistence(k)]
    /\ outflow = [c \in CapIds |-> [d \in Days |-> Zero]]

\* withdraw_sui and withdraw_token, by the holder of the OwnerCap.
Withdraw(k, amount) ==
    /\ treasury[k] >= amount
    /\ treasury' = Take(treasury, k, amount)
    /\ outside' = Add(outside, k, amount)
    /\ UNCHANGED <<inbox, outflow>> /\ UNCHANGED capVars

\* top_up_sui and top_up_token; anyone may.
TopUp(k, amount) ==
    /\ outside' = Take(outside, k, amount)
    /\ treasury' = Add(treasury, k, amount)
    /\ UNCHANGED <<inbox, outflow>> /\ UNCHANGED capVars

\* A plain transfer of a coin to the address of the treasury object.
SendToTreasury(k, amount) ==
    /\ outside' = Take(outside, k, amount)
    /\ inbox' = Add(inbox, k, amount)
    /\ UNCHANGED <<treasury, outflow>> /\ UNCHANGED capVars

\* claim_received_sui and claim_received_token; anyone may, coin by coin.
ClaimReceived(k, amount) ==
    /\ inbox' = Take(inbox, k, amount)
    /\ treasury' = Add(treasury, k, amount)
    /\ UNCHANGED <<outside, outflow>> /\ UNCHANGED capVars

\* Mutant: the day is not recorded, so every spend finds a fresh budget.
RolloverForgetsDay(cap) ==
    IF Today > cap.epochDay THEN [cap EXCEPT !.spentSui = 0, !.spentToken = 0] ELSE cap

\* The cap as the daily rollover leaves it: both budgets reset together.
RolledOver(cap) ==
    IF Today > cap.epochDay
    THEN [cap EXCEPT !.epochDay = Today, !.spentSui = 0, !.spentToken = 0]
    ELSE cap

\* What the three spend functions assert before they look at the budget.
MaySpend(c) == c \in active /\ NotExpired(c)

\* Money leaves the treasury under cap c.
PayOut(c, k, amount) ==
    /\ treasury[k] >= amount
    /\ treasury' = Take(treasury, k, amount)
    /\ outside' = Add(outside, k, amount)
    /\ outflow' = [outflow EXCEPT ![c][Today][k] = @ + treasury[k] - treasury'[k]]
    /\ UNCHANGED <<inbox, now, issued, active>>

\* The SUI budget, charged by operator_spend_sui and operator_spend_sui_coin.
ChargeSui(c, amount) ==
    LET cap == RolledOver(caps[c])
    IN  /\ cap.spentSui + amount <= cap.limitSui
        /\ caps' = [caps EXCEPT ![c] = [cap EXCEPT !.spentSui = @ + amount]]

ChargeToken(c, amount) ==
    LET cap == RolledOver(caps[c])
    IN  /\ cap.spentToken + amount <= cap.limitToken
        /\ caps' = [caps EXCEPT ![c] = [cap EXCEPT !.spentToken = @ + amount]]

OperatorSpendSui(c, amount, to) ==
    /\ MaySpend(c)
    /\ to \in caps[c].targets
    /\ ChargeSui(c, amount)
    /\ PayOut(c, "sui", amount)

\* The composable variant returns the coin, so it has no destination to check.
OperatorSpendSuiCoin(c, amount) ==
    /\ MaySpend(c)
    /\ ChargeSui(c, amount)
    /\ PayOut(c, "sui", amount)

OperatorSpendToken(c, amount, to) ==
    /\ MaySpend(c)
    /\ to \in caps[c].targets
    /\ ChargeToken(c, amount)
    /\ PayOut(c, "token", amount)

OperatorStep(c) ==
    \/ \E n \in 0 .. SuiTotal : \/ \E to \in Recipients : OperatorSpendSui(c, n, to)
                               \/ OperatorSpendSuiCoin(c, n)
    \/ \E n \in 0 .. TokenTotal, to \in Recipients : OperatorSpendToken(c, n, to)

CoinStep(k) ==
    \/ \E n \in 1 .. InExistence(k) : Withdraw(k, n)
    \/ \E n \in 1 .. outside[k] : TopUp(k, n) \/ SendToTreasury(k, n)
    \/ \E n \in 1 .. inbox[k] : ClaimReceived(k, n)

TreasuryNext ==
    \/ CapsNext /\ UNCHANGED <<treasury, inbox, outside, outflow>>
    \/ \E k \in CoinTypes : CoinStep(k)
    \/ \E c \in CapIds : OperatorStep(c)

TreasurySpec == TreasuryInit /\ [][TreasuryNext]_treasuryVars

-----------------------------------------------------------------------------
TreasuryTypeOK ==
    /\ CapsTypeOK
    /\ treasury \in Coins /\ inbox \in Coins /\ outside \in Coins
    /\ outflow \in [CapIds -> [Days -> Coins]]

\* However spends through the three functions, both coin types, day rollovers,
\* top-ups and allowlist edits interleave, what really left the treasury under
\* one cap on one UTC day stays within that cap's daily limits.
DailyBudgetKept ==
    \A c \in issued, d \in Days :
        /\ outflow[c][d]["sui"] <= caps[c].limitSui
        /\ outflow[c][d]["token"] <= caps[c].limitToken

\* Why the budget is kept: the counters on the cap are exactly what was taken
\* out on the day of its last rollover, no later day has seen any outflow, and
\* neither has a cap before it is issued.
BudgetInv ==
    \A c \in CapIds :
        LET cap == caps[c]
        IN  /\ cap.epochDay <= Today
            /\ cap.spentSui <= cap.limitSui /\ cap.spentToken <= cap.limitToken
            /\ outflow[c][cap.epochDay]["sui"] = cap.spentSui
            /\ outflow[c][cap.epochDay]["token"] = cap.spentToken
            /\ \A d \in Days : c \notin issued \/ d > cap.epochDay => outflow[c][d] = Zero

\* A cap that was revoked or has expired stays so, and takes nothing out again:
\* no edit, re-issue or clock step revives it.
DeadCapsStayDead ==
    [][\A c \in CapIds : Dead(c) => Dead(c)' /\ outflow'[c] = outflow[c]]_treasuryVars

\* The caps implement the abstract allowance: a cap is one from its issue to its
\* revocation or expiry, of its two daily limits.
Standing(c) ==
    IF c \notin issued THEN "none" ELSE IF Dead(c) THEN "over" ELSE "live"

Promise == INSTANCE Allowance WITH
    Holders <- CapIds, Kinds <- CoinTypes,
    standing <- [c \in CapIds |-> Standing(c)],
    limit <- [c \in CapIds |-> [k \in CoinTypes |->
                 IF k = "sui" THEN caps[c].limitSui ELSE caps[c].limitToken]],
    taken <- outflow,
    day <- Today

ImplementsAllowance == Promise!Spec

\* No coin is created or lost between treasury, inbox and the outside.
CoinsConserved ==
    \A k \in CoinTypes :
        treasury[k] + inbox[k] + outside[k] = InExistence(k)
=============================================================================
