----------------------------- MODULE TradeForm -----------------------------
(***************************************************************************)
(* The buy and sell form of an agent's page (app/src/components/           *)
(* TradeForm.tsx) over the pool it trades with.  The form quotes from      *)
(* reserves and a fee that were read when the page was last rendered, and  *)
(* from balances it polls; by the time the transaction executes others may *)
(* have traded, the admin may have changed the fee, and the wallet may     *)
(* have been switched.                                                     *)
(***************************************************************************)
EXTENDS Launchpad

CONSTANTS
    GasReserve,      \* GAS_RESERVE_MIST, scaled
    Subunits,        \* an amount is typed more finely than a unit
    TypedAmounts,    \* what a user types, in subunits
    Slippages,       \* slippageBps, scaled
    OtherAmounts,    \* what anybody else trades
    MaxMoves,        \* trades and fee changes (a bound)
    Clicks,          \* submissions that may be open together (a bound)
    MaxPolls         \* balance requests in flight (a bound)

ASSUME FormAssumption ==
    /\ GasReserve \in Nat /\ Subunits \in Nat \ {0} /\ {MaxPolls, MaxMoves} \subseteq Nat
    /\ TypedAmounts \subseteq Nat /\ OtherAmounts \subseteq Nat
    /\ Slippages \subseteq 0 .. BpsDenominator

VARIABLES
    tokens,    \* Coin<T> each address holds
    props,     \* reserves and fee the form was last rendered with
    wallet,    \* the connected address
    balances,  \* what the form shows as the balance, and whose it is
    polls,     \* getBalance requests in flight
    attempts,  \* submissions in progress
    moves      \* how often the pool or the fee changed

formVars == <<tokens, props, wallet, balances, polls, attempts, moves>>
tradeVars == <<launchpadVars, formVars>>

NoBalance == [owner |-> None, sui |-> 0, tokens |-> 0]
NoAttempt == [pc |-> "none", sender |-> None, side |-> "buy", amount |-> 0,
              slippage |-> 0, props |-> <<>>, listed |-> 0]

Rendered == [realSui |-> account.realSui, realToken |-> account.realToken,
             fee |-> config.tradeFee]

FormInit ==
    /\ ConfigInit
    /\ account = FreshAccount(1, Publisher, None)
    /\ sui = SuiSupply /\ circulating = 0
    /\ tokens = [a \in Addr |-> 0]
    /\ props = Rendered
    /\ wallet = None /\ balances = NoBalance /\ polls = {}
    /\ attempts = [c \in Clicks |-> NoAttempt]
    /\ moves = 0

-----------------------------------------------------------------------------
(* What the form shows. *)

\* parseUnits drops what is finer than a unit.
ParseUnits(typed) == typed \div Subunits

\* Mutant: the mirror rounds the new token total down.
MirrorBuyFloor(p, suiIn) ==
    LET fee == FeeOn(suiIn, p.fee)
        k   == (p.realSui + VirtualSui) * (p.realToken + VirtualToken)
    IN  p.realToken + VirtualToken - k \div (p.realSui + VirtualSui + suiIn - fee)

\* tai.ts computeBuy: the curve without its assertion that the pool has the tokens.
MirrorBuy(p, suiIn) ==
    LET fee         == FeeOn(suiIn, p.fee)
        k           == (p.realSui + VirtualSui) * (p.realToken + VirtualToken)
        newTotalSui == p.realSui + VirtualSui + (suiIn - fee)
    IN  p.realToken + VirtualToken - (k + newTotalSui - 1) \div newTotalSui

\* tai.ts computeSell.
MirrorSell(p, tokensIn) ==
    LET k             == (p.realSui + VirtualSui) * (p.realToken + VirtualToken)
        newTotalToken == p.realToken + VirtualToken + tokensIn
        gross         == p.realSui + VirtualSui
                            - (k + newTotalToken - 1) \div newTotalToken
    IN  gross - FeeOn(gross, p.fee)

Estimate(p, side, amount) ==
    IF side = "buy" THEN MirrorBuy(p, amount) ELSE MirrorSell(p, amount)

\* Mutant: any amount will do.
MinOutNone(estimate, slippage) == 0

MinOut(estimate, slippage) ==
    (estimate * (BpsDenominator - slippage)) \div BpsDenominator

\* Judged by the balance on display; a missing one never stands in the way.
Insufficient(side, amount) ==
    /\ balances # NoBalance
    /\ IF side = "sell" THEN amount > balances.tokens
                        ELSE amount + GasReserve > balances.sui

Signing == \E c \in Clicks : attempts[c].pc = "signing"   \* isPending

\* The label of the submit button, which is enabled under the last one only.
SubmitLabel(side, amount) ==
    CASE Signing                    -> "signing"
      [] Insufficient(side, amount) -> "insufficient"
      [] amount = 0                 -> "enter an amount"
      [] OTHER                      -> side

\* What the "max" button fills in.
Spendable(side) ==
    IF side = "sell" THEN balances.tokens
    ELSE IF balances.sui > GasReserve THEN balances.sui - GasReserve ELSE 0

Amounts(side) ==
    {ParseUnits(t) : t \in TypedAmounts}
        \cup (IF balances = NoBalance THEN {} ELSE {Spendable(side)})

-----------------------------------------------------------------------------
(* The page around it, and the wallet. *)

\* fetchAccountState: the pool as it is, or as the cache of the previous render has it.
PoolsRead == {Rendered, props}

\* fetchLaunchpadConfig, read after the account and cached apart from it.
FeesRead == {config.tradeFee, props.fee}

\* AutoRefresh renders the page anew.
Render ==
    /\ \E pool \in PoolsRead, fee \in FeesRead : props' = [pool EXCEPT !.fee = fee]
    /\ UNCHANGED <<launchpadVars, tokens, wallet, balances, polls, attempts, moves>>

\* The effect on the account is cleaned up, which cancels its polls, and started
\* again.  Only a disconnect clears the balance.
SwitchWallet(a) ==
    /\ a # wallet
    /\ wallet' = a
    /\ polls' = {[p EXCEPT !.cancelled = TRUE] : p \in polls}
    /\ balances' = IF a = None THEN NoBalance ELSE balances
    /\ UNCHANGED <<launchpadVars, tokens, props, attempts, moves>>

StartPoll ==
    /\ wallet # None
    /\ Cardinality(polls) < MaxPolls
    /\ polls' = polls \cup {[owner |-> wallet, cancelled |-> FALSE]}
    /\ UNCHANGED <<launchpadVars, tokens, props, wallet, balances, attempts, moves>>

Balances(owner) == [owner |-> owner, sui |-> sui[owner], tokens |-> tokens[owner]]

\* Mutant: the cancelled flag is not looked at.
PollAnswersAnyway(p) ==
    /\ polls' = polls \ {p}
    /\ balances' = Balances(p.owner)
    /\ UNCHANGED <<launchpadVars, tokens, props, wallet, attempts, moves>>

PollAnswers(p) ==
    /\ polls' = polls \ {p}
    /\ balances' = IF p.cancelled THEN balances
                   ELSE Balances(p.owner)
    /\ UNCHANGED <<launchpadVars, tokens, props, wallet, attempts, moves>>

\* A failed poll keeps the balance that is on display.
PollFails(p) ==
    /\ polls' = polls \ {p}
    /\ UNCHANGED <<launchpadVars, tokens, props, wallet, balances, attempts, moves>>

-----------------------------------------------------------------------------
(* Submitting. *)

\* onSubmit up to its first await.  A buy goes to the wallet at once; a sell
\* first lists the wallet's coins, and until it has nothing shows it is pending.
Submit(c, side, amount, slippage) ==
    /\ wallet # None
    /\ attempts[c].pc = "none"
    /\ SubmitLabel(side, amount) = side
    /\ attempts' = [attempts EXCEPT ![c] =
            [pc |-> IF side = "buy" THEN "signing" ELSE "listing", sender |-> wallet,
             side |-> side, amount |-> amount, slippage |-> slippage, props |-> props,
             listed |-> 0]]
    /\ UNCHANGED <<launchpadVars, tokens, props, wallet, balances, polls, moves>>

\* getCoins answers with one page of coin objects, and the sale is built from
\* those.  What a wallet holds may lie in any number of coins of any worth, none
\* included, so a page may hold any part of it.
CoinsListed(c) ==
    /\ attempts[c].pc = "listing"
    /\ \E worth \in 0 .. tokens[attempts[c].sender] :
            attempts' = [attempts EXCEPT ![c] = [@ EXCEPT !.pc = "signing",
                                                          !.listed = worth]]
    /\ UNCHANGED <<launchpadVars, tokens, props, wallet, balances, polls, moves>>

\* Some of the coins the sale was built from are spent before it is.
CoinsGone(c) ==
    /\ attempts[c].pc = "signing"
    /\ \E worth \in 0 .. attempts[c].listed - 1 :
            attempts' = [attempts EXCEPT ![c].listed = worth]
    /\ UNCHANGED <<launchpadVars, tokens, props, wallet, balances, polls, moves>>

\* getCoins fails or finds nothing, or the wallet refuses to sign.
GiveUp(c) ==
    /\ attempts[c].pc # "none"
    /\ attempts' = [attempts EXCEPT ![c] = NoAttempt]
    /\ UNCHANGED <<launchpadVars, tokens, props, wallet, balances, polls, moves>>

Least(try) == MinOut(Estimate(try.props, try.side, try.amount), try.slippage)

ChainQuote(try) == IF try.side = "buy" THEN BuyQuote(try.amount) ELSE SellQuote(try.amount)

\* What the wallet holds covers the trade.
Affordable(try) ==
    IF try.side = "buy" THEN sui[try.sender] >= try.amount
                        ELSE tokens[try.sender] >= try.amount

\* splitCoins needs the amount in the coin the listed ones were merged into.
CoinsShort(try) == try.side = "sell" /\ try.amount > try.listed

Close(c) ==
    /\ attempts' = [attempts EXCEPT ![c] = NoAttempt]
    /\ UNCHANGED <<props, wallet, balances, polls>>

\* launchpad::buy or launchpad::sell executes, with the minimum the form put in.
Fill(c) ==
    LET try == attempts[c]
    IN  /\ try.pc = "signing"
        /\ Affordable(try) /\ ~CoinsShort(try)
        /\ \/ /\ try.side = "buy"
              /\ Buy(1, try.sender, try.amount, Least(try))
              /\ tokens' = [tokens EXCEPT ![try.sender] = @ + BuyQuote(try.amount).out]
           \/ /\ try.side = "sell"
              /\ Sell(1, try.sender, try.amount, Least(try))
              /\ tokens' = [tokens EXCEPT ![try.sender] = @ - try.amount]
        /\ moves < MaxMoves /\ moves' = moves + 1
        /\ Close(c)

Aborts(try) ==
    LET quote == ChainQuote(try)
    IN  \/ CoinsShort(try)
        \/ ~quote.ok
        \/ quote.out < Least(try)
        \/ try.side = "sell" /\ account.realSui < quote.out + quote.fee

\* The same call aborts, in the wallet's dry run or on chain.
Refuse(c) ==
    /\ attempts[c].pc = "signing"
    /\ Affordable(attempts[c])
    /\ Aborts(attempts[c])
    /\ Close(c)
    /\ UNCHANGED <<launchpadVars, tokens, moves>>

\* Anybody else, and the admin.
Others ==
    /\ moves < MaxMoves /\ moves' = moves + 1
    /\ \/ \E a \in Addr, n \in OtherAmounts :
            \/ /\ n <= sui[a] /\ Buy(1, a, n, 0)
               /\ tokens' = [tokens EXCEPT ![a] = @ + BuyQuote(n).out]
            \/ /\ n <= tokens[a] /\ Sell(1, a, n, 0)
               /\ tokens' = [tokens EXCEPT ![a] = @ - n]
       \/ /\ \E fee \in FeeChoices : SetTradeFeeBps(1, config.admin, fee)
          /\ UNCHANGED <<published, account, sui, circulating, tokens>>
    /\ UNCHANGED <<props, wallet, balances, polls, attempts>>

TradeNext ==
    \/ Render
    \/ \E a \in Addr \cup {None} : SwitchWallet(a)
    \/ StartPoll \/ \E p \in polls : PollAnswers(p) \/ PollFails(p)
    \/ \E c \in Clicks :
          \/ \E side \in {"buy", "sell"}, s \in Slippages :
                \E n \in Amounts(side) : Submit(c, side, n, s)
          \/ CoinsListed(c) \/ CoinsGone(c) \/ GiveUp(c) \/ Fill(c) \/ Refuse(c)
    \/ Others

-----------------------------------------------------------------------------
\* Whatever was traded and however the fee was set since the page was rendered, a
\* trade that goes through yields what the form estimated less the slippage that
\* was chosen, to within the rounding of the minimum.
Received(try) ==
    IF try.side = "buy" THEN tokens'[try.sender] - tokens[try.sender]
                        ELSE sui'[try.sender] - sui[try.sender]

FilledAsShown ==
    [][\A c \in Clicks :
          LET try == attempts[c]
          IN  try # NoAttempt /\ attempts'[c] = NoAttempt /\ circulating' # circulating =>
                (Received(try) + 1) * BpsDenominator
                  > Estimate(try.props, try.side, try.amount)
                        * (BpsDenominator - try.slippage)]_tradeVars

\* The quote mirrors the contract to the unit: while reserves and fee are as they
\* were rendered no trade the wallet can pay for is refused, at any slippage, but a
\* buy of more tokens than the pool has, which the mirror quotes and the contract
\* cannot sell, and a sale of more than the coins it was built from are worth.
QuietPoolFills ==
    \A c \in Clicks :
        LET try == attempts[c]
        IN  try.pc = "signing" /\ Affordable(try) /\ try.props = Rendered /\ Aborts(try) =>
              IF try.side = "buy" THEN MirrorBuy(try.props, try.amount) > try.props.realToken
                                  ELSE CoinsShort(try)

\* A balance is only ever replaced by one of the wallet that is connected: an
\* answer to a poll of an earlier wallet is dropped, however late it comes.
BalanceFollowsWallet ==
    [][balances' # balances => balances'.owner = wallet']_tradeVars
=============================================================================
