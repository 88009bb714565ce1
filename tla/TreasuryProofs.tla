--------------------------- MODULE TreasuryProofs ---------------------------
(***************************************************************************)
(* The daily budgets of the agent treasury hold for any number of caps,    *)
(* any limits, any day length and any amount of money, and a dead cap      *)
(* stays dead.                                                             *)
(***************************************************************************)
EXTENDS AgentTreasury, TLAPS

\* The inductive invariant.  The budget of a day is kept because BudgetInv ties
\* the counters on the cap to what really left.
TInv == TreasuryTypeOK /\ BudgetInv /\ DailyBudgetKept /\ CoinsConserved

\* Days follow the clock.
LEMMA DayMonotone ==
    ASSUME NEW a \in Nat, NEW b \in Nat, a <= b, NEW n \in Nat \ {0}
    PROVE  /\ a \div n \in Nat /\ b \div n \in Nat
           /\ a \div n <= b \div n
  <1> DEFINE p == a \div n
             q == b \div n
  <1>1. p \in Nat /\ n * p <= a /\ a < n * (p + 1)
    OBVIOUS
  <1>2. q \in Nat /\ n * q <= b /\ b < n * (q + 1)
    OBVIOUS
  <1>3. n * p < n * (q + 1)
    BY <1>1, <1>2
  <1> HIDE DEF p, q
  <1>4. p < q + 1
    BY <1>1, <1>2, <1>3
  <1>5. p \in Nat /\ q \in Nat /\ p <= q
    BY <1>1, <1>2, <1>4
  <1> QED
    BY <1>5 DEF p, q

\* The current day is one of the days the history is kept for.
LEMMA TodayTyped ==
    ASSUME now \in 0 .. MaxTime
    PROVE  Today \in Days /\ Today \in Nat
  <1>1. now \in Nat /\ MaxTime \in Nat /\ now <= MaxTime /\ DayLength \in Nat \ {0}
    BY CapsAssumption
  <1>2. /\ now \div DayLength \in Nat /\ MaxTime \div DayLength \in Nat
        /\ now \div DayLength <= MaxTime \div DayLength
    BY <1>1, DayMonotone
  <1> QED
    BY <1>2 DEF Today, Days

\* Nothing has been spent when the treasury is created.
LEMMA TreasuryInitInv == TreasuryInit => TInv
  <1> SUFFICES ASSUME TreasuryInit
               PROVE  TInv
    OBVIOUS
  <1> DEFINE t == CHOOSE s \in TargetSets : TRUE
  <1>1. t \in TargetSets
    BY TreasuryAssumption
  <1>2. now = 0 /\ now \in 0 .. MaxTime
    BY CapsAssumption DEF TreasuryInit, CapsInit
  <1>3. Today \in Days /\ Today \in Nat
    BY <1>2, TodayTyped
  <1> HIDE DEF t
  <1>4. caps \in [CapIds -> {NewCap(0, 0, t, 0)}]
    BY DEF TreasuryInit, CapsInit, t
  <1>5. \A c \in CapIds : caps[c] = NewCap(0, 0, t, 0)
    BY <1>4
  <1>6. NewCap(0, 0, t, 0) \in Cap
    BY <1>1, <1>3 DEF NewCap, Cap
  <1>7. CapsTypeOK
    BY <1>2, <1>4, <1>6 DEF CapsTypeOK, TreasuryInit, CapsInit
  <1>8. Zero \in Coins /\ outflow = [c \in CapIds |-> [d \in Days |-> Zero]]
    BY DEF Zero, Coins, TreasuryInit
  <1>9. [k \in CoinTypes |-> InExistence(k)] \in Coins
    BY TreasuryAssumption DEF Coins, CoinTypes, InExistence
  <1>10. TreasuryTypeOK
    BY <1>7, <1>8, <1>9 DEF TreasuryTypeOK, TreasuryInit
  <1>11. BudgetInv
    BY <1>3, <1>5, <1>8 DEF BudgetInv, NewCap, Zero, CoinTypes
  <1>12. DailyBudgetKept
    BY DEF DailyBudgetKept, TreasuryInit, CapsInit
  <1>13. CoinsConserved
    BY TreasuryAssumption DEF CoinsConserved, InExistence, TreasuryInit, Zero, CoinTypes
  <1> QED
    BY <1>10, <1>11, <1>12, <1>13 DEF TInv

\* The owner's calls.  A cap is issued with limits of its own, so it matters
\* that nothing left under it before.
LEMMA OwnerInv ==
    ASSUME TInv, OwnerStep, UNCHANGED <<treasury, inbox, outside, outflow>>
    PROVE  TInv'
  <1> USE DEF TInv
  <1>1. Today \in Days /\ Today \in Nat
    BY TodayTyped DEF TreasuryTypeOK, CapsTypeOK
  <1>2. PICK c \in CapIds, t \in TargetSets :
            \/ \E ls, lt \in LimitChoices, ttl \in TtlChoices : IssueOperatorCap(c, ls, lt, t, ttl)
            \/ UpdateOperatorCapTargets(c, t)
            \/ RevokeOperatorCap(c)
    BY DEF OwnerStep
  <1>3. CoinsConserved'
    BY DEF CoinsConserved
  <1>4. ASSUME NEW ls \in LimitChoices, NEW lt \in LimitChoices, NEW ttl \in TtlChoices,
               IssueOperatorCap(c, ls, lt, t, ttl)
        PROVE  TInv'
    <2> DEFINE new == NewCap(ls, lt, t, ttl)
    <2>1. new \in Cap
      BY <1>1, CapsAssumption DEF NewCap, Cap, TreasuryTypeOK, CapsTypeOK
    <2>2. /\ caps' = [caps EXCEPT ![c] = new]
          /\ c \notin issued /\ issued' = issued \cup {c} /\ active' = active \cup {c}
          /\ now' = now /\ Today' = Today
      BY <1>4 DEF IssueOperatorCap, Today
    <2>3. TreasuryTypeOK'
      BY <2>1, <2>2 DEF TreasuryTypeOK, CapsTypeOK
    <2>4. /\ caps'[c] = new
          /\ \A o \in CapIds \ {c} : caps'[o] = caps[o]
          /\ \A d \in Days : outflow[c][d] = Zero
      BY <2>2 DEF TreasuryTypeOK, CapsTypeOK, BudgetInv
    <2>5. /\ new.epochDay = Today /\ new.spentSui = 0 /\ new.spentToken = 0
          /\ new.limitSui \in Nat /\ new.limitToken \in Nat
      BY CapsAssumption DEF NewCap
    <2> HIDE DEF new
    <2>6. BudgetInv'
      BY <1>1, <2>2, <2>4, <2>5 DEF BudgetInv, Zero, CoinTypes
    <2>7. DailyBudgetKept'
      BY <2>2, <2>4, <2>5 DEF DailyBudgetKept, Zero, CoinTypes, TreasuryTypeOK, CapsTypeOK
    <2> QED
      BY <1>3, <2>3, <2>6, <2>7
  <1>5. CASE UpdateOperatorCapTargets(c, t)
    <2>1. /\ caps' = [caps EXCEPT ![c].targets = t]
          /\ UNCHANGED <<now, issued, active>> /\ Today' = Today
      BY <1>5 DEF UpdateOperatorCapTargets, Today
    <2>2. \A o \in CapIds : /\ caps'[o].limitSui = caps[o].limitSui
                            /\ caps'[o].limitToken = caps[o].limitToken
                            /\ caps'[o].spentSui = caps[o].spentSui
                            /\ caps'[o].spentToken = caps[o].spentToken
                            /\ caps'[o].epochDay = caps[o].epochDay
      BY <2>1 DEF TreasuryTypeOK, CapsTypeOK, Cap
    <2>3. TreasuryTypeOK'
      BY <2>1 DEF TreasuryTypeOK, CapsTypeOK, Cap
    <2>4. BudgetInv'
      BY <2>1, <2>2 DEF BudgetInv
    <2>5. DailyBudgetKept'
      BY <2>1, <2>2 DEF DailyBudgetKept, TreasuryTypeOK, CapsTypeOK
    <2> QED
      BY <1>3, <2>3, <2>4, <2>5
  <1>6. CASE RevokeOperatorCap(c)
    <2>1. active' \subseteq active /\ UNCHANGED <<now, caps, issued>> /\ Today' = Today
      BY <1>6 DEF RevokeOperatorCap, Today
    <2>2. TreasuryTypeOK'
      BY <2>1 DEF TreasuryTypeOK, CapsTypeOK
    <2> QED
      BY <1>3, <2>1, <2>2 DEF BudgetInv, DailyBudgetKept
  <1> QED
    BY <1>2, <1>4, <1>5, <1>6

\* The clock moves on: no later day can have seen any outflow yet.
LEMMA TickInv ==
    ASSUME TInv, Tick, UNCHANGED <<treasury, inbox, outside, outflow>>
    PROVE  TInv'
  <1> USE DEF TInv
  <1>1. now \in Nat /\ now' = now + 1 /\ now' \in 0 .. MaxTime
        /\ UNCHANGED <<caps, issued, active>>
    BY CapsAssumption DEF Tick, TreasuryTypeOK, CapsTypeOK
  <1>2. TreasuryTypeOK'
    BY <1>1 DEF TreasuryTypeOK, CapsTypeOK
  <1>3. Today \in Nat /\ Today' \in Nat /\ Today <= Today'
    BY <1>1, DayMonotone, CapsAssumption DEF Today
  <1>4. \A c \in CapIds : caps[c].epochDay \in Nat
    BY DEF TreasuryTypeOK, CapsTypeOK, Cap
  <1>5. BudgetInv'
    BY <1>1, <1>3, <1>4 DEF BudgetInv
  <1> QED
    BY <1>1, <1>2, <1>5 DEF DailyBudgetKept, CoinsConserved

\* Calls of the owner and of outsiders that only move coins.
LEMMA CoinInv ==
    ASSUME TInv, NEW k \in CoinTypes, CoinStep(k)
    PROVE  TInv'
  <1> USE DEF TInv
  <1>1. InExistence(k) \in Nat /\ treasury[k] \in Nat /\ inbox[k] \in Nat /\ outside[k] \in Nat
    BY TreasuryAssumption DEF InExistence, TreasuryTypeOK, Coins
  <1>2. treasury \in Coins /\ inbox \in Coins /\ outside \in Coins
    BY DEF TreasuryTypeOK
  <1> DEFINE Moved ==
        /\ treasury' \in Coins /\ inbox' \in Coins /\ outside' \in Coins
        /\ CoinsConserved'
        /\ UNCHANGED outflow /\ UNCHANGED capVars
  <1>3. ASSUME NEW n \in 1 .. InExistence(k), Withdraw(k, n)
        PROVE  Moved
    BY <1>1, <1>2, <1>3 DEF Withdraw, Take, Add, Coins, CoinsConserved
  <1>4. ASSUME NEW n \in 1 .. outside[k], TopUp(k, n)
        PROVE  Moved
    BY <1>1, <1>2, <1>4 DEF TopUp, Take, Add, Coins, CoinsConserved
  <1>5. ASSUME NEW n \in 1 .. outside[k], SendToTreasury(k, n)
        PROVE  Moved
    BY <1>1, <1>2, <1>5 DEF SendToTreasury, Take, Add, Coins, CoinsConserved
  <1>6. ASSUME NEW n \in 1 .. inbox[k], ClaimReceived(k, n)
        PROVE  Moved
    BY <1>1, <1>2, <1>6 DEF ClaimReceived, Take, Add, Coins, CoinsConserved
  <1>7. Moved
    BY <1>3, <1>4, <1>5, <1>6 DEF CoinStep
  <1>8. TreasuryTypeOK' /\ Today' = Today
    BY <1>7 DEF TreasuryTypeOK, CapsTypeOK, capVars, Today
  <1> QED
    BY <1>7, <1>8 DEF BudgetInv, DailyBudgetKept, capVars

\* What the daily rollover does to a cap when the day is new.
Reset(cap, d) == [cap EXCEPT !.epochDay = d, !.spentSui = 0, !.spentToken = 0]

\* A reset touches the day and the two counters only.
LEMMA ResetStaysCap ==
    ASSUME NEW cap \in Cap, NEW d \in Nat
    PROVE  /\ Reset(cap, d) \in Cap
           /\ Reset(cap, d).limitSui = cap.limitSui
           /\ Reset(cap, d).limitToken = cap.limitToken
           /\ Reset(cap, d).expiresAt = cap.expiresAt
           /\ Reset(cap, d).epochDay = d
           /\ Reset(cap, d).spentSui = 0 /\ Reset(cap, d).spentToken = 0
           /\ cap.limitSui \in Nat /\ cap.limitToken \in Nat
  BY DEF Cap, Reset

\* A cap after its daily rollover: what it says it spent is what left under it
\* today.
LEMMA RolledOverFacts ==
    ASSUME TInv, NEW c \in CapIds
    PROVE  LET cap == RolledOver(caps[c])
           IN  /\ cap \in Cap
               /\ cap.limitSui = caps[c].limitSui /\ cap.limitToken = caps[c].limitToken
               /\ cap.expiresAt = caps[c].expiresAt
               /\ cap.epochDay = Today
               /\ cap.spentSui <= cap.limitSui /\ cap.spentToken <= cap.limitToken
               /\ outflow[c][Today]["sui"] = cap.spentSui
               /\ outflow[c][Today]["token"] = cap.spentToken
               /\ c \in issued => \A d \in Days : d > Today => outflow[c][d] = Zero
  <1> USE DEF TInv
  <1>1. Today \in Days /\ Today \in Nat
    BY TodayTyped DEF TreasuryTypeOK, CapsTypeOK
  <1>2. caps[c] \in Cap
    BY DEF TreasuryTypeOK, CapsTypeOK
  <1>3. /\ caps[c].epochDay <= Today
        /\ caps[c].spentSui <= caps[c].limitSui /\ caps[c].spentToken <= caps[c].limitToken
        /\ outflow[c][caps[c].epochDay]["sui"] = caps[c].spentSui
        /\ outflow[c][caps[c].epochDay]["token"] = caps[c].spentToken
        /\ \A d \in Days : d > caps[c].epochDay => outflow[c][d] = Zero
    BY DEF BudgetInv
  <1>4. Days \subseteq Nat
    BY CapsAssumption, DayMonotone DEF Days
  <1>5. CASE Today > caps[c].epochDay
    <2>1. outflow[c][Today]["sui"] = 0 /\ outflow[c][Today]["token"] = 0
      BY <1>1, <1>3, <1>5 DEF Zero, CoinTypes
    <2>2. \A d \in Days : d > Today => outflow[c][d] = Zero
      BY <1>1, <1>2, <1>3, <1>4, <1>5 DEF Cap
    <2>3. RolledOver(caps[c]) = Reset(caps[c], Today)
      BY <1>5 DEF RolledOver, Reset
    <2>4. /\ RolledOver(caps[c]) \in Cap
          /\ RolledOver(caps[c]).limitSui = caps[c].limitSui
          /\ RolledOver(caps[c]).limitToken = caps[c].limitToken
          /\ RolledOver(caps[c]).expiresAt = caps[c].expiresAt
          /\ RolledOver(caps[c]).epochDay = Today
          /\ RolledOver(caps[c]).spentSui = 0 /\ RolledOver(caps[c]).spentToken = 0
          /\ caps[c].limitSui \in Nat /\ caps[c].limitToken \in Nat
      <3>1. caps[c] \in Cap /\ Today \in Nat
        BY <1>1, <1>2
      <3>2. /\ Reset(caps[c], Today) \in Cap
            /\ Reset(caps[c], Today).limitSui = caps[c].limitSui
            /\ Reset(caps[c], Today).limitToken = caps[c].limitToken
            /\ Reset(caps[c], Today).expiresAt = caps[c].expiresAt
            /\ Reset(caps[c], Today).epochDay = Today
            /\ Reset(caps[c], Today).spentSui = 0 /\ Reset(caps[c], Today).spentToken = 0
            /\ caps[c].limitSui \in Nat /\ caps[c].limitToken \in Nat
        BY <3>1, ResetStaysCap, Zenon
      <3> QED
        BY <2>3, <3>2, Zenon
    <2> QED
      BY <2>1, <2>2, <2>4
  <1>6. CASE ~(Today > caps[c].epochDay)
    <2>1. Today = caps[c].epochDay
      BY <1>1, <1>2, <1>3, <1>6 DEF Cap
    <2>2. RolledOver(caps[c]) = caps[c]
      BY <1>6 DEF RolledOver
    <2> QED
      BY <1>2, <1>3, <2>1, <2>2
  <1> QED
    BY <1>5, <1>6

\* A spend adds the same amount to the counter and to the outflow of today, and
\* touches no other cap and no other day.
LEMMA SpendInv ==
    ASSUME TInv, NEW c \in CapIds, MaySpend(c), NEW k \in CoinTypes, NEW amount \in Nat,
           IF k = "sui" THEN ChargeSui(c, amount) ELSE ChargeToken(c, amount),
           PayOut(c, k, amount)
    PROVE  TInv'
  <1> USE DEF TInv
  <1> DEFINE cap == RolledOver(caps[c])
  <1>1. Today \in Days /\ Today \in Nat /\ Today' = Today /\ now' = now
    BY TodayTyped DEF TreasuryTypeOK, CapsTypeOK, PayOut, Today
  <1>2. /\ cap \in Cap
        /\ cap.limitSui = caps[c].limitSui /\ cap.limitToken = caps[c].limitToken
        /\ cap.epochDay = Today
        /\ cap.spentSui <= cap.limitSui /\ cap.spentToken <= cap.limitToken
        /\ outflow[c][Today]["sui"] = cap.spentSui
        /\ outflow[c][Today]["token"] = cap.spentToken
        /\ c \in issued => \A d \in Days : d > Today => outflow[c][d] = Zero
    BY RolledOverFacts
  <1>3. c \in issued /\ issued' = issued /\ active' = active
    BY DEF MaySpend, TreasuryTypeOK, CapsTypeOK, PayOut
  <1>4. treasury[k] \in Nat /\ outside[k] \in Nat /\ treasury[k] >= amount
        /\ treasury \in Coins /\ inbox \in Coins /\ outside \in Coins
    BY DEF TreasuryTypeOK, Coins, PayOut
  <1>5. /\ treasury' = [treasury EXCEPT ![k] = @ - amount]
        /\ outside' = [outside EXCEPT ![k] = @ + amount]
        /\ inbox' = inbox
    BY DEF PayOut, Take, Add
  <1>6. treasury' \in Coins /\ outside' \in Coins /\ CoinsConserved'
    BY <1>4, <1>5 DEF Coins, CoinsConserved
  <1>7. outflow \in [CapIds -> [Days -> Coins]]
    BY DEF TreasuryTypeOK
  <1>8. outflow' = [outflow EXCEPT ![c][Today][k] = @ + amount]
    <2>1. treasury'[k] = treasury[k] - amount /\ outflow[c][Today][k] \in Nat
      BY <1>1, <1>4, <1>5, <1>7 DEF Coins
    <2>2. outflow[c][Today][k] + treasury[k] - treasury'[k] = outflow[c][Today][k] + amount
      BY <1>4, <2>1
    <2> QED
      BY <2>2 DEF PayOut
  <1>9. /\ outflow' \in [CapIds -> [Days -> Coins]]
        /\ outflow'[c][Today][k] = outflow[c][Today][k] + amount
        /\ \A j \in CoinTypes \ {k} : outflow'[c][Today][j] = outflow[c][Today][j]
        /\ \A d \in Days \ {Today} : outflow'[c][d] = outflow[c][d]
        /\ \A o \in CapIds \ {c} : outflow'[o] = outflow[o]
    BY <1>1, <1>7, <1>8 DEF Coins
  <1>10. PICK new \in Cap :
            /\ caps' = [caps EXCEPT ![c] = new]
            /\ new.limitSui = cap.limitSui /\ new.limitToken = cap.limitToken
            /\ new.epochDay = Today
            /\ new.spentSui <= new.limitSui /\ new.spentToken <= new.limitToken
            /\ outflow'[c][Today]["sui"] = new.spentSui
            /\ outflow'[c][Today]["token"] = new.spentToken
    <2> HIDE DEF cap
    <2>1. CASE k = "sui"
      <3>1. cap.spentSui + amount <= cap.limitSui
            /\ caps' = [caps EXCEPT ![c] = [cap EXCEPT !.spentSui = @ + amount]]
        BY <2>1 DEF ChargeSui, cap
      <3>2. [cap EXCEPT !.spentSui = @ + amount] \in Cap
        BY <1>2 DEF Cap
      <3> QED
        BY <1>2, <1>9, <2>1, <3>1, <3>2 DEF Cap, CoinTypes
    <2>2. CASE k = "token"
      <3>1. cap.spentToken + amount <= cap.limitToken
            /\ caps' = [caps EXCEPT ![c] = [cap EXCEPT !.spentToken = @ + amount]]
        BY <2>2 DEF ChargeToken, cap
      <3>2. [cap EXCEPT !.spentToken = @ + amount] \in Cap
        BY <1>2 DEF Cap
      <3> QED
        BY <1>2, <1>9, <2>2, <3>1, <3>2 DEF Cap, CoinTypes
    <2> QED
      BY <2>1, <2>2 DEF CoinTypes
  <1> HIDE DEF cap
  <1>11. caps'[c] = new /\ \A o \in CapIds \ {c} : caps'[o] = caps[o]
    BY <1>10 DEF TreasuryTypeOK, CapsTypeOK
  <1>12. TreasuryTypeOK'
    BY <1>1, <1>3, <1>5, <1>6, <1>9, <1>10 DEF TreasuryTypeOK, CapsTypeOK
  <1>13. BudgetInv'
    <2> SUFFICES ASSUME NEW o \in CapIds
                 PROVE  BudgetInv!(o)'
      BY DEF BudgetInv
    <2>1. CASE o = c
      <3>1. \A d \in Days : d > Today => outflow'[c][d] = Zero
        BY <1>1, <1>2, <1>3, <1>9, CapsAssumption, DayMonotone DEF Days
      <3> QED
        BY <1>1, <1>3, <1>10, <1>11, <2>1, <3>1
    <2>2. CASE o # c
      BY <1>1, <1>3, <1>9, <1>11, <2>2 DEF BudgetInv
    <2> QED
      BY <2>1, <2>2
  <1>14. DailyBudgetKept'
    <2> SUFFICES ASSUME NEW o \in issued, NEW d \in Days
                 PROVE  /\ outflow'[o][d]["sui"] <= caps'[o].limitSui
                        /\ outflow'[o][d]["token"] <= caps'[o].limitToken
      BY <1>3 DEF DailyBudgetKept
    <2>1. o \in CapIds
      BY DEF TreasuryTypeOK, CapsTypeOK
    <2> QED
      BY <1>2, <1>9, <1>10, <1>11, <2>1 DEF DailyBudgetKept
  <1> QED
    BY <1>6, <1>12, <1>13, <1>14

\* Every step preserves the invariant.
LEMMA TreasuryNextInv == TInv /\ [TreasuryNext]_treasuryVars => TInv'
  <1> SUFFICES ASSUME TInv, [TreasuryNext]_treasuryVars
               PROVE  TInv'
    OBVIOUS
  <1>1. CASE CapsNext /\ UNCHANGED <<treasury, inbox, outside, outflow>>
    BY <1>1, OwnerInv, TickInv DEF CapsNext
  <1>2. ASSUME NEW k \in CoinTypes, CoinStep(k)
        PROVE  TInv'
    BY <1>2, CoinInv
  <1>3. ASSUME NEW c \in CapIds, OperatorStep(c)
        PROVE  TInv'
    <2>1. "sui" \in CoinTypes /\ "token" \in CoinTypes /\ SuiTotal \in Nat /\ TokenTotal \in Nat
      BY TreasuryAssumption DEF CoinTypes
    <2>2. ASSUME NEW n \in 0 .. SuiTotal, MaySpend(c), ChargeSui(c, n), PayOut(c, "sui", n)
          PROVE  TInv'
      BY <2>1, <2>2, SpendInv
    <2>3. ASSUME NEW n \in 0 .. TokenTotal, MaySpend(c), ChargeToken(c, n), PayOut(c, "token", n)
          PROVE  TInv'
      BY <2>1, <2>3, SpendInv
    <2> QED
      BY <1>3, <2>2, <2>3
      DEF OperatorStep, OperatorSpendSui, OperatorSpendSuiCoin, OperatorSpendToken
  <1>4. CASE UNCHANGED treasuryVars
    BY <1>4 DEF treasuryVars, TInv, TreasuryTypeOK, CapsTypeOK, BudgetInv, DailyBudgetKept,
                CoinsConserved, Today
  <1> QED
    BY <1>1, <1>2, <1>3, <1>4 DEF TreasuryNext

\* The invariant holds in every reachable state.
THEOREM TreasuryInvariant == TreasurySpec => []TInv
  BY TreasuryInitInv, TreasuryNextInv, PTL DEF TreasurySpec

\* The treasury, its caps and the history of outflows are always well typed: no
\* call takes a balance below zero.
THEOREM TreasuryTypeCorrect == TreasurySpec => []TreasuryTypeOK
  BY TreasuryInvariant, PTL DEF TInv

\* What left the treasury under a cap on one UTC day is within that cap's daily
\* limits (agent_treasury.move, the three operator spends).
THEOREM BudgetAlwaysKept == TreasurySpec => []DailyBudgetKept
  BY TreasuryInvariant, PTL DEF TInv

\* The counters on a cap are what was taken out on the day of its last rollover.
THEOREM CountersExact == TreasurySpec => []BudgetInv
  BY TreasuryInvariant, PTL DEF TInv

\* No coin of either type is created or lost.
THEOREM CoinsAlwaysConserved == TreasurySpec => []CoinsConserved
  BY TreasuryInvariant, PTL DEF TInv

\* A step leaves a dead cap dead and its outflow as it was.
LEMMA DeadStep ==
    ASSUME TInv, [TreasuryNext]_treasuryVars, NEW c \in CapIds, Dead(c)
    PROVE  Dead(c)' /\ outflow'[c] = outflow[c]
  <1> USE DEF TInv, Dead, NotExpired
  <1>1. caps \in [CapIds -> Cap] /\ now \in Nat /\ active \subseteq issued
        /\ outflow \in [CapIds -> [Days -> Coins]]
    BY CapsAssumption DEF TreasuryTypeOK, CapsTypeOK
  <1>2. ASSUME OwnerStep, UNCHANGED outflow
        PROVE  Dead(c)'
    BY <1>1, <1>2 DEF OwnerStep, IssueOperatorCap, UpdateOperatorCapTargets, RevokeOperatorCap, Cap
  <1>3. CASE Tick /\ UNCHANGED outflow
    BY <1>1, <1>3 DEF Tick, Cap
  <1>4. ASSUME NEW k \in CoinTypes, CoinStep(k)
        PROVE  Dead(c)' /\ outflow'[c] = outflow[c]
    BY <1>4 DEF CoinStep, Withdraw, TopUp, SendToTreasury, ClaimReceived, capVars
  <1>5. ASSUME NEW o \in CapIds, OperatorStep(o)
        PROVE  Dead(c)' /\ outflow'[c] = outflow[c]
    <2>1. o # c
      BY <1>5 DEF OperatorStep, OperatorSpendSui, OperatorSpendSuiCoin, OperatorSpendToken, MaySpend
    <2>2. \E k \in CoinTypes, n \in Int : PayOut(o, k, n) /\ (ChargeSui(o, n) \/ ChargeToken(o, n))
      BY <1>5, TreasuryAssumption
      DEF OperatorStep, OperatorSpendSui, OperatorSpendSuiCoin, OperatorSpendToken, CoinTypes
    <2> QED
      BY <1>1, <2>1, <2>2 DEF PayOut, ChargeSui, ChargeToken
  <1>6. CASE UNCHANGED treasuryVars
    BY <1>6 DEF treasuryVars
  <1> QED
    BY <1>2, <1>3, <1>4, <1>5, <1>6 DEF TreasuryNext, CapsNext

\* A revoked or expired cap is never revived and takes nothing out again,
\* whatever the owner edits or issues and however time passes.
THEOREM DeadCapsAlwaysStayDead == TreasurySpec => DeadCapsStayDead
  <1>1. TInv /\ [TreasuryNext]_treasuryVars =>
            [\A c \in CapIds : Dead(c) => Dead(c)' /\ outflow'[c] = outflow[c]]_treasuryVars
    BY DeadStep
  <1> QED
    BY <1>1, TreasuryInvariant, PTL DEF TreasurySpec, DeadCapsStayDead
-----------------------------------------------------------------------------
(* The caps as allowances: the state Allowance.tla sees.                   *)
Stands == [c \in CapIds |-> Standing(c)]
Granted == [c \in CapIds |-> [k \in CoinTypes |->
                IF k = "sui" THEN caps[c].limitSui ELSE caps[c].limitToken]]

\* No cap is issued and nothing was taken when the treasury is created.
LEMMA AllowanceInit == TreasuryInit => Promise!Init
  <1> SUFFICES ASSUME TreasuryInit
               PROVE  Promise!Init
    OBVIOUS
  <1>1. TreasuryTypeOK
    BY TreasuryInitInv DEF TInv
  <1>2. Today \in Days
    BY <1>1, TodayTyped DEF TreasuryTypeOK, CapsTypeOK
  <1>3. Stands = [c \in CapIds |-> "none"]
    BY DEF TreasuryInit, CapsInit, Stands, Standing
  <1>4. Granted \in [CapIds -> [CoinTypes -> Nat]]
    BY <1>1 DEF TreasuryTypeOK, CapsTypeOK, Cap, Granted
  <1>5. outflow = [c \in CapIds |-> [d \in Days |-> [k \in CoinTypes |-> 0]]]
    BY DEF TreasuryInit, Zero
  <1> QED
    BY <1>2, <1>3, <1>4, <1>5 DEF Promise!Init, Stands, Granted

\* A step that leaves days, limits and outflow alone and changes how no cap
\* stands is a stutter of the allowance.
LEMMA AllowanceStutter ==
    ASSUME UNCHANGED <<outflow, Today>>,
           \A c \in CapIds : /\ Standing(c)' = Standing(c)
                             /\ caps'[c].limitSui = caps[c].limitSui
                             /\ caps'[c].limitToken = caps[c].limitToken
    PROVE  UNCHANGED Promise!allowanceVars
  <1>1. Stands' = Stands
    BY DEF Stands
  <1>2. Granted' = Granted
    BY DEF Granted
  <1> QED
    BY <1>1, <1>2 DEF Promise!allowanceVars, Stands, Granted

\* A cap is issued live, whatever its time to live, and its limits are its own.
LEMMA IssueGrants ==
    ASSUME TInv, NEW c \in CapIds, NEW ls \in LimitChoices, NEW lt \in LimitChoices,
           NEW t \in TargetSets, NEW ttl \in TtlChoices,
           IssueOperatorCap(c, ls, lt, t, ttl), outflow' = outflow
    PROVE  Promise!Grant(c)
  <1> DEFINE new == NewCap(ls, lt, t, ttl)
  <1>1. /\ caps \in [CapIds -> Cap] /\ issued \subseteq CapIds /\ active \subseteq issued
        /\ now \in Nat
    BY CapsAssumption DEF TInv, TreasuryTypeOK, CapsTypeOK
  <1>2. /\ caps' = [caps EXCEPT ![c] = new]
        /\ c \notin issued /\ issued' = issued \cup {c} /\ active' = active \cup {c}
        /\ now' = now /\ Today' = Today
    BY DEF IssueOperatorCap, Today
  <1>3. /\ new.limitSui \in Nat /\ new.limitToken \in Nat
        /\ new.expiresAt # 0 => now < new.expiresAt
    BY <1>1, CapsAssumption DEF NewCap
  <1> HIDE DEF new
  <1>4. caps'[c] = new /\ \A o \in CapIds \ {c} : caps'[o] = caps[o]
    BY <1>1, <1>2
  <1>5. Standing(c) = "none" /\ Standing(c)' = "live"
    BY <1>2, <1>3, <1>4 DEF Standing, Dead, NotExpired
  <1>6. \A o \in CapIds \ {c} : Standing(o)' = Standing(o)
    BY <1>2, <1>4 DEF Standing, Dead, NotExpired
  <1>7. Stands[c] = "none" /\ Stands' = [Stands EXCEPT ![c] = "live"]
    BY <1>5, <1>6 DEF Stands
  <1>8. Granted'[c] \in [CoinTypes -> Nat]
    BY <1>3, <1>4 DEF Granted
  <1>9. Granted' = [Granted EXCEPT ![c] = Granted'[c]]
    BY <1>4 DEF Granted
  <1> QED
    BY <1>2, <1>7, <1>8, <1>9 DEF Promise!Grant, Stands, Granted

\* An owner's call grants an allowance, takes one back, or changes none.
LEMMA OwnerAllowance ==
    ASSUME TInv, OwnerStep, outflow' = outflow
    PROVE  Promise!Next \/ UNCHANGED Promise!allowanceVars
  <1>1. /\ caps \in [CapIds -> Cap] /\ issued \subseteq CapIds /\ active \subseteq issued
        /\ now \in Nat
    BY CapsAssumption DEF TInv, TreasuryTypeOK, CapsTypeOK
  <1>2. PICK c \in CapIds, t \in TargetSets :
            \/ \E ls, lt \in LimitChoices, ttl \in TtlChoices : IssueOperatorCap(c, ls, lt, t, ttl)
            \/ UpdateOperatorCapTargets(c, t)
            \/ RevokeOperatorCap(c)
    BY DEF OwnerStep
  <1>3. ASSUME NEW ls \in LimitChoices, NEW lt \in LimitChoices, NEW ttl \in TtlChoices,
               IssueOperatorCap(c, ls, lt, t, ttl)
        PROVE  Promise!Next
    <2>1. Promise!Grant(c)
      BY <1>3, IssueGrants
    <2> QED
      BY <2>1 DEF Promise!Next
  <1>4. CASE UpdateOperatorCapTargets(c, t)
    <2>1. /\ caps' = [caps EXCEPT ![c].targets = t]
          /\ UNCHANGED <<now, issued, active>> /\ Today' = Today
      BY <1>4 DEF UpdateOperatorCapTargets, Today
    <2>2. \A o \in CapIds : /\ caps'[o].limitSui = caps[o].limitSui
                            /\ caps'[o].limitToken = caps[o].limitToken
                            /\ caps'[o].expiresAt = caps[o].expiresAt
      BY <1>1, <2>1 DEF Cap
    <2>3. \A o \in CapIds : Standing(o)' = Standing(o)
      BY <2>1, <2>2 DEF Standing, Dead, NotExpired
    <2> QED
      BY <2>1, <2>2, <2>3, AllowanceStutter
  <1>5. CASE RevokeOperatorCap(c)
    <2>1. /\ c \in active /\ c \in issued /\ active' = active \ {c}
          /\ UNCHANGED <<now, caps, issued>> /\ Today' = Today
      BY <1>1, <1>5 DEF RevokeOperatorCap, Today
    <2>2. /\ Standing(c)' = "over"
          /\ \A o \in CapIds \ {c} : Standing(o)' = Standing(o)
      BY <2>1 DEF Standing, Dead, NotExpired
    <2>3. CASE NotExpired(c)
      <3>1. Standing(c) = "live"
        BY <2>1, <2>3 DEF Standing, Dead
      <3>2. Stands[c] = "live" /\ Stands' = [Stands EXCEPT ![c] = "over"]
        BY <2>2, <3>1 DEF Stands
      <3>3. Granted' = Granted
        BY <2>1 DEF Granted
      <3>4. Promise!Revoke(c)
        BY <2>1, <3>2, <3>3 DEF Promise!Revoke, Stands, Granted
      <3> QED
        BY <3>4 DEF Promise!Next
    <2>4. CASE ~NotExpired(c)
      <3>1. Standing(c) = "over"
        BY <2>1, <2>4 DEF Standing, Dead
      <3> QED
        BY <2>1, <2>2, <3>1, AllowanceStutter
    <2> QED
      BY <2>3, <2>4
  <1> QED
    BY <1>2, <1>3, <1>4, <1>5

\* When the clock moves, any number of allowances run out and no other thing
\* happens to them.
LEMMA TickAllowance ==
    ASSUME TInv, Tick, outflow' = outflow
    PROVE  Promise!Next
  <1>1. /\ caps \in [CapIds -> Cap] /\ now \in Nat /\ now' = now + 1
        /\ now' \in 0 .. MaxTime
        /\ UNCHANGED <<caps, issued, active>>
    BY CapsAssumption DEF TInv, TreasuryTypeOK, CapsTypeOK, Tick
  <1>2. Today \in Nat /\ Today' \in Nat /\ Today <= Today'
    BY <1>1, DayMonotone, CapsAssumption DEF Today
  <1>3. Today' \in Days
    <2>1. MaxTime \in Nat /\ now' \in Nat /\ now' <= MaxTime /\ DayLength \in Nat \ {0}
      BY <1>1, CapsAssumption
    <2>2. now' \div DayLength \in Nat /\ now' \div DayLength <= MaxTime \div DayLength
          /\ MaxTime \div DayLength \in Nat
      BY <2>1, DayMonotone
    <2> QED
      BY <2>2 DEF Today, Days
  <1>4. Granted' = Granted
    BY <1>1 DEF Granted
  <1>5. \A c \in CapIds : /\ Standing(c)' = "over" => Standing(c) \in {"live", "over"}
                          /\ Standing(c)' # "over" => Standing(c)' = Standing(c)
    <2> TAKE c \in CapIds
    <2>1. caps[c].expiresAt \in Nat
      BY <1>1 DEF Cap
    <2>2. NotExpired(c)' => NotExpired(c)
      BY <1>1, <2>1 DEF NotExpired
    <2>3. Dead(c) => Dead(c)'
      BY <1>1, <2>2 DEF Dead
    <2> QED
      BY <1>1, <2>3 DEF Standing, Dead
  <1>6. /\ \A c \in CapIds : Stands'[c] = "over" => Stands[c] \in {"live", "over"}
        /\ Stands' = [c \in CapIds |-> IF Stands'[c] = "over" THEN "over" ELSE Stands[c]]
    BY <1>5 DEF Stands
  <1>7. Promise!TimePasses
    BY <1>2, <1>3, <1>4, <1>6 DEF Promise!TimePasses, Stands, Granted
  <1> QED
    BY <1>7 DEF Promise!Next

\* A spend under cap c takes of one kind of coin, today, what the limit still
\* allows: the counter it was charged to is all that left today.
LEMMA SpendTakes ==
    ASSUME TInv, NEW c \in CapIds, MaySpend(c), NEW k \in CoinTypes, NEW amount \in Nat,
           IF k = "sui" THEN ChargeSui(c, amount) ELSE ChargeToken(c, amount),
           PayOut(c, k, amount)
    PROVE  Promise!TakeOut(c, k)
  <1> DEFINE cap == RolledOver(caps[c])
  <1>1. Today \in Days /\ Today \in Nat /\ Today' = Today /\ now' = now
    BY TodayTyped DEF TInv, TreasuryTypeOK, CapsTypeOK, PayOut, Today
  <1>2. /\ caps \in [CapIds -> Cap] /\ issued \subseteq CapIds /\ active \subseteq issued
        /\ outflow \in [CapIds -> [Days -> Coins]]
        /\ treasury[k] \in Nat /\ treasury \in Coins
    BY DEF TInv, TreasuryTypeOK, CapsTypeOK, Coins
  <1>3. /\ cap \in Cap
        /\ cap.limitSui = caps[c].limitSui /\ cap.limitToken = caps[c].limitToken
        /\ cap.expiresAt = caps[c].expiresAt
        /\ outflow[c][Today]["sui"] = cap.spentSui
        /\ outflow[c][Today]["token"] = cap.spentToken
    BY RolledOverFacts
  <1>4. UNCHANGED <<issued, active>>
    BY DEF PayOut
  <1>5. outflow' = [outflow EXCEPT ![c][Today][k] = @ + amount]
    <2>1. treasury'[k] = treasury[k] - amount /\ outflow[c][Today][k] \in Nat
      BY <1>1, <1>2 DEF PayOut, Take, Coins
    <2>2. outflow[c][Today][k] + treasury[k] - treasury'[k] = outflow[c][Today][k] + amount
      BY <1>2, <2>1
    <2> QED
      BY <2>2 DEF PayOut
  <1>6. /\ outflow[c][Today][k] \in Nat
        /\ outflow'[c][Today][k] = outflow[c][Today][k] + amount
        /\ outflow' = [outflow EXCEPT ![c][Today][k] = outflow'[c][Today][k]]
    BY <1>1, <1>2, <1>5 DEF Coins
  <1>7. /\ outflow[c][Today][k] + amount <= Granted[c][k]
        /\ \A o \in CapIds : /\ caps'[o].limitSui = caps[o].limitSui
                             /\ caps'[o].limitToken = caps[o].limitToken
                             /\ caps'[o].expiresAt = caps[o].expiresAt
    <2> HIDE DEF cap
    <2>1. CASE k = "sui"
      <3>1. cap.spentSui + amount <= cap.limitSui
            /\ caps' = [caps EXCEPT ![c] = [cap EXCEPT !.spentSui = @ + amount]]
        BY <2>1 DEF ChargeSui, cap
      <3>2. outflow[c][Today][k] + amount <= Granted[c][k]
        BY <1>3, <2>1, <3>1 DEF Granted
      <3> QED
        BY <1>2, <1>3, <3>1, <3>2 DEF Cap
    <2>2. CASE k = "token"
      <3>1. cap.spentToken + amount <= cap.limitToken
            /\ caps' = [caps EXCEPT ![c] = [cap EXCEPT !.spentToken = @ + amount]]
        BY <2>2 DEF ChargeToken, cap
      <3>2. outflow[c][Today][k] + amount <= Granted[c][k]
        BY <1>3, <2>2, <3>1 DEF Granted
      <3> QED
        BY <1>2, <1>3, <3>1, <3>2 DEF Cap
    <2> QED
      BY <2>1, <2>2 DEF CoinTypes
  <1> HIDE DEF cap
  <1>8. Granted[c][k] \in Nat
    BY <1>2 DEF Granted, Cap
  <1>9. outflow'[c][Today][k] \in outflow[c][Today][k] .. Granted[c][k]
    BY <1>6, <1>7, <1>8
  <1>10. Granted' = Granted
    BY <1>7 DEF Granted
  <1>11. \A o \in CapIds : Standing(o)' = Standing(o)
    BY <1>1, <1>4, <1>7 DEF Standing, Dead, NotExpired
  <1>12. Stands' = Stands /\ Stands[c] = "live"
    BY <1>2, <1>11 DEF Stands, Standing, Dead, MaySpend
  <1> QED
    BY <1>1, <1>6, <1>9, <1>10, <1>12 DEF Promise!TakeOut, Stands, Granted

\* Every step of the treasury is a step of the allowance, or none.
LEMMA AllowanceStep ==
    TInv /\ [TreasuryNext]_treasuryVars => [Promise!Next]_(Promise!allowanceVars)
  <1> SUFFICES ASSUME TInv, [TreasuryNext]_treasuryVars
               PROVE  Promise!Next \/ UNCHANGED Promise!allowanceVars
    OBVIOUS
  <1>1. CASE CapsNext /\ UNCHANGED <<treasury, inbox, outside, outflow>>
    BY <1>1, OwnerAllowance, TickAllowance DEF CapsNext
  <1>2. ASSUME NEW k \in CoinTypes, CoinStep(k)
        PROVE  UNCHANGED Promise!allowanceVars
    <2>1. UNCHANGED <<outflow, now, caps, issued, active>> /\ Today' = Today
      BY <1>2 DEF CoinStep, Withdraw, TopUp, SendToTreasury, ClaimReceived, capVars, Today
    <2> QED
      BY <2>1, AllowanceStutter DEF Standing, Dead, NotExpired
  <1>3. ASSUME NEW c \in CapIds, OperatorStep(c)
        PROVE  Promise!Next
    <2>1. "sui" \in CoinTypes /\ "token" \in CoinTypes /\ SuiTotal \in Nat /\ TokenTotal \in Nat
      BY TreasuryAssumption DEF CoinTypes
    <2>2. ASSUME NEW n \in 0 .. SuiTotal, MaySpend(c), ChargeSui(c, n), PayOut(c, "sui", n)
          PROVE  \E k \in CoinTypes : Promise!TakeOut(c, k)
      BY <2>1, <2>2, SpendTakes
    <2>3. ASSUME NEW n \in 0 .. TokenTotal, MaySpend(c), ChargeToken(c, n), PayOut(c, "token", n)
          PROVE  \E k \in CoinTypes : Promise!TakeOut(c, k)
      BY <2>1, <2>3, SpendTakes
    <2>4. \E k \in CoinTypes : Promise!TakeOut(c, k)
      BY <1>3, <2>2, <2>3
      DEF OperatorStep, OperatorSpendSui, OperatorSpendSuiCoin, OperatorSpendToken
    <2> QED
      BY <2>4 DEF Promise!Next
  <1>4. CASE UNCHANGED treasuryVars
    <2>1. UNCHANGED <<outflow, now, caps, issued, active>> /\ Today' = Today
      BY <1>4 DEF treasuryVars, Today
    <2> QED
      BY <2>1, AllowanceStutter DEF Standing, Dead, NotExpired
  <1> QED
    BY <1>1, <1>2, <1>3, <1>4 DEF TreasuryNext

\* The treasury implements the allowance it promises its owner: through any
\* calls of owner, operators and outsiders, on any days, an operator takes of
\* each coin what he was granted for the day, no more, and only while his cap is
\* neither revoked nor expired.
THEOREM AllowanceImplemented == TreasurySpec => ImplementsAllowance
  <1>1. TreasuryInit => Promise!Init
    BY AllowanceInit
  <1>2. TInv /\ [TreasuryNext]_treasuryVars => [Promise!Next]_(Promise!allowanceVars)
    BY AllowanceStep
  <1> QED
    BY <1>1, <1>2, TreasuryInvariant, PTL DEF TreasurySpec, ImplementsAllowance, Promise!Spec
=============================================================================
