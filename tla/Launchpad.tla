----------------------------- MODULE Launchpad -----------------------------
(***************************************************************************)
(* One agent's LaunchpadAccount<T> of move/sources/launchpad.move: the     *)
(* object that is the pool, the productive treasury (NAV) and the service  *)
(* revenue record of one creator coin, with the config it is called with.  *)
(*                                                                         *)
(* SUI is held per address, because fees are paid to addresses.  Coin<T>   *)
(* objects are bearer instruments the code never looks up by owner: all    *)
(* that are outside the account are the number circulating.                *)
(* The running statistics (total_buys, cumulative_volume_sui and the like) *)
(* and the events are left out: no call reads them.                        *)
(***************************************************************************)
EXTENDS LaunchpadConfig

CONSTANTS
    VirtualSui, VirtualToken,  \* curve constants; no setter changes them
    SaleSupply, LpSupply,
    MaxU64,                    \* the largest u64, scaled
    SuiSupply,                 \* SUI each address starts with
    ObjectIds,                 \* values of the free-form object pointers
    CreatorChoices,            \* addresses the creator role is handed to
    Thresholds,                \* access thresholds a creator sets
    MinOuts                    \* slippage bounds callers pass

ASSUME LaunchpadAssumption ==
    /\ VirtualSui \in Nat \ {0} /\ VirtualToken \in Nat \ {0}
    /\ SaleSupply \in Nat \ {0} /\ LpSupply \in Nat
    /\ MaxU64 \in Nat
    /\ IsFiniteSet(Addr) /\ SuiSupply \in [Addr -> Nat]
    /\ None \notin ObjectIds
    /\ CreatorChoices \subseteq Addr
    /\ Thresholds \subseteq Nat /\ 0 \in Thresholds
    /\ MinOuts \subseteq Nat

VARIABLES
    account,     \* the LaunchpadAccount<T> and its TreasuryCapHolder<T>
    sui,         \* SUI held by each address
    circulating  \* Coin<T> value outside the account

launchpadVars == <<published, config, account, sui, circulating>>

\* Before launch there is no account; version 0 stands for that.
NoAccount ==
    [version |-> 0, creator |-> Publisher, linkedIdentity |-> None,
     dwallets |-> None, realSui |-> 0, realToken |-> 0, navSui |-> 0,
     navToken |-> 0, accessThreshold |-> 0, acceptCoinPayments |-> FALSE,
     revenue |-> 0, credTarget |-> DefaultCredTarget, totalSupply |-> 0]

Launched == account.version # 0

LaunchpadInit ==
    /\ ConfigInit
    /\ account = NoAccount
    /\ sui = SuiSupply
    /\ circulating = 0

\* The account right after launch_agent_coin; both mints have happened and the
\* LP part sits in lp_reserve, which nothing opens.
FreshAccount(pv, creator, identity) ==
    [NoAccount EXCEPT !.version = pv, !.creator = creator,
                      !.linkedIdentity = identity, !.realToken = SaleSupply,
                      !.credTarget = config.credTarget,
                      !.totalSupply = SaleSupply + LpSupply]

LaunchAgentCoin(pv, sender, identity) ==
    /\ ~Launched                  \* the fresh TreasuryCap is consumed
    /\ config.version = pv
    /\ account' = FreshAccount(pv, sender, identity)
    /\ UNCHANGED <<published, config, sui, circulating>>

MigrateAccount(pv) ==
    /\ Launched
    /\ account.version < pv
    /\ account' = [account EXCEPT !.version = pv]
    /\ UNCHANGED <<published, config, sui, circulating>>

\* Mutant: the config's version is not looked at.
AcceptsAccountOnly(pv) == account.version = pv

\* The version assertions of every call that moves value through the account.
Accepts(pv) == config.version = pv /\ account.version = pv

BuyQuote(suiIn) ==
    ComputeBuy(account.realSui, account.realToken, VirtualSui, VirtualToken,
               suiIn, config.tradeFee)

Buy(pv, sender, suiIn, minTokensOut) ==
    LET quote == BuyQuote(suiIn)
        split == ComputeSplit(quote.fee, config.tradeShares)
    IN  /\ Accepts(pv)
        /\ suiIn > 0
        /\ quote.ok
        /\ quote.out >= minTokensOut
        /\ account.realToken >= quote.out
        /\ SplitDefined(config.tradeShares)
        /\ account' = [account EXCEPT !.realSui = @ + suiIn - quote.fee,
                                      !.realToken = @ - quote.out,
                                      !.navSui = @ + split.nav]
        /\ sui' = DistributeSui(Debit(sui, sender, suiIn), split,
                                account.creator, config.platformTreasury)
        /\ circulating' = circulating + quote.out
        /\ UNCHANGED <<published, config>>

SellQuote(tokensIn) ==
    ComputeSell(account.realSui, account.realToken, VirtualSui, VirtualToken,
                tokensIn, config.tradeFee)

Sell(pv, sender, tokensIn, minSuiOut) ==
    LET quote == SellQuote(tokensIn)
        split == ComputeSplit(quote.fee, config.tradeShares)
    IN  /\ Accepts(pv)
        /\ tokensIn > 0
        /\ quote.ok
        /\ quote.out >= minSuiOut
        /\ account.realSui >= quote.out + quote.fee
        /\ SplitDefined(config.tradeShares)
        /\ account' = [account EXCEPT !.realSui = @ - quote.out - quote.fee,
                                      !.realToken = @ + tokensIn,
                                      !.navSui = @ + split.nav]
        /\ sui' = DistributeSui(Credit(sui, sender, quote.out), split,
                                account.creator, config.platformTreasury)
        /\ circulating' = circulating - tokensIn
        /\ UNCHANGED <<published, config>>

\* Mutant: the creator's own payments count as revenue.
RecordSelfPump(pv, payer, amount, wallet) ==
    LET split == ComputeSplit(amount, config.serviceShares)
    IN  /\ Accepts(pv) /\ amount > 0
        /\ account.revenue + amount <= MaxU64
        /\ account' = [account EXCEPT !.navSui = @ + split.nav, !.revenue = @ + amount]
        /\ sui' = DistributeSui(wallet, split, account.creator, config.platformTreasury)
        /\ UNCHANGED <<published, config, circulating>>

\* Mutant: the NAV part is never joined to the NAV.
RecordNoNav(pv, payer, amount, wallet) ==
    LET split == ComputeSplit(amount, config.serviceShares)
    IN  /\ Accepts(pv) /\ amount > 0
        /\ account.revenue + amount <= MaxU64
        /\ account' = [account EXCEPT !.revenue =
                          IF payer # account.creator THEN @ + amount ELSE @]
        /\ sui' = DistributeSui(wallet, split, account.creator, config.platformTreasury)
        /\ UNCHANGED <<published, config, circulating>>

\* record_service_payment_sui, also called by the work-order module.  The coin
\* has already left the place it came from, which leaves the wallets at wallet.
RecordServicePaymentSui(pv, payer, amount, wallet) ==
    LET split   == ComputeSplit(amount, config.serviceShares)
        counted == payer # account.creator
    IN  /\ Accepts(pv)
        /\ amount > 0
        /\ SplitDefined(config.serviceShares)
        /\ counted => account.revenue + amount <= MaxU64
        /\ account' = [account EXCEPT !.navSui = @ + split.nav,
                                      !.revenue = IF counted THEN @ + amount ELSE @]
        /\ sui' = DistributeSui(wallet, split, account.creator, config.platformTreasury)
        /\ UNCHANGED <<published, config, circulating>>

PayServiceSui(pv, payer, amount) ==
    RecordServicePaymentSui(pv, payer, amount, Debit(sui, payer, amount))

\* Mutant: the burn is recorded but the tokens go back to the payer.
PayTokenNoBurn(pv, amount) ==
    LET split == ComputeSplit(amount, config.tokenServiceShares)
    IN  /\ Accepts(pv) /\ account.acceptCoinPayments /\ amount > 0
        /\ account' = [account EXCEPT !.navToken = @ + split.nav,
                                      !.totalSupply = @ - split.rest]
        /\ circulating' = circulating - split.nav
        /\ UNCHANGED <<published, config, sui>>

\* The NAV part stays in the account, the creator's part goes back into
\* circulation, the rest is burned through the wrapped TreasuryCap.
RecordServicePaymentToken(pv, amount) ==
    LET split == ComputeSplit(amount, config.tokenServiceShares)
    IN  /\ Accepts(pv)
        /\ account.acceptCoinPayments
        /\ amount > 0
        /\ SplitDefined(config.tokenServiceShares)
        /\ account' = [account EXCEPT !.navToken = @ + split.nav,
                                      !.totalSupply = @ - split.rest]
        /\ circulating' = circulating - amount + split.creator
        /\ UNCHANGED <<published, config, sui>>

\* The assertions of the creator-only setters.
CreatorCall(pv, sender) == account.version = pv /\ sender = account.creator

SetAccessConfig(pv, sender, threshold, acceptCoin) ==
    /\ CreatorCall(pv, sender)
    /\ account' = [account EXCEPT !.accessThreshold = threshold,
                                  !.acceptCoinPayments = acceptCoin]
    /\ UNCHANGED <<published, config, sui, circulating>>

SetLinkedIdentity(pv, sender, identity) ==
    /\ CreatorCall(pv, sender)
    /\ account' = [account EXCEPT !.linkedIdentity = identity]
    /\ UNCHANGED <<published, config, sui, circulating>>

SetCreator(pv, sender, newCreator) ==
    /\ CreatorCall(pv, sender)
    /\ account' = [account EXCEPT !.creator = newCreator]
    /\ UNCHANGED <<published, config, sui, circulating>>

SetDwalletsObjectId(pv, sender, id) ==
    /\ CreatorCall(pv, sender)
    /\ account' = [account EXCEPT !.dwallets = id]
    /\ UNCHANGED <<published, config, sui, circulating>>

LaunchpadStep(pv, sender) ==
    \/ \E id \in ObjectIds \cup {None} : \/ LaunchAgentCoin(pv, sender, id)
                                         \/ SetLinkedIdentity(pv, sender, id)
                                         \/ SetDwalletsObjectId(pv, sender, id)
    \/ \E n \in 1 .. sui[sender] : \/ \E m \in MinOuts : Buy(pv, sender, n, m)
                                   \/ PayServiceSui(pv, sender, n)
    \/ \E n \in 1 .. circulating : \/ \E m \in MinOuts : Sell(pv, sender, n, m)
                                   \/ RecordServicePaymentToken(pv, n)
    \/ \E t \in Thresholds, b \in BOOLEAN : SetAccessConfig(pv, sender, t, b)
    \/ \E a \in CreatorChoices : SetCreator(pv, sender, a)
    \/ MigrateAccount(pv)

LaunchpadNext ==
    \/ ConfigNext /\ UNCHANGED <<account, sui, circulating>>
    \/ \E pv \in PackageVersions, sender \in Addr : LaunchpadStep(pv, sender)

LaunchpadSpec == LaunchpadInit /\ [][LaunchpadNext]_launchpadVars

-----------------------------------------------------------------------------
\* Mutant: the target is read from the config, where the admin can move it.
MultLiveTarget ==
    LET bonus == (account.revenue * BpsDenominator) \div config.credTarget
    IN  BpsDenominator + (IF bonus > BpsDenominator THEN BpsDenominator ELSE bonus)

\* views::quote_internal.  The multiplier saturates at twice the base.
MultBps ==
    LET bonus == (account.revenue * BpsDenominator) \div account.credTarget
    IN  BpsDenominator + (IF bonus > BpsDenominator THEN BpsDenominator ELSE bonus)

HirePrice == (account.navSui * MultBps) \div BpsDenominator

-----------------------------------------------------------------------------
Account ==
    [version : 0 .. MaxVersion, creator : Addr,
     linkedIdentity : ObjectIds \cup {None}, dwallets : ObjectIds \cup {None},
     realSui : Nat, realToken : Nat, navSui : Nat, navToken : Nat,
     accessThreshold : Thresholds, acceptCoinPayments : BOOLEAN, revenue : Nat,
     credTarget : Nat \ {0}, totalSupply : Nat]

LaunchpadTypeOK ==
    /\ ConfigTypeOK
    /\ account \in Account
    /\ account.version <= published
    /\ sui \in [Addr -> Nat]
    /\ circulating \in Nat

\* Whatever was bought, sold, paid, burned or re-parameterised before, any part
\* of the circulating supply can be sold back: compute_sell meets its overflow
\* assertion and sell its liquidity assertion (bonding_curve.move on why both
\* sides round up; launchpad.move, EInsufficientLiquidity in sell).
Solvent ==
    Launched => \A n \in 1 .. circulating :
                    LET quote == SellQuote(n)
                    IN  /\ quote.ok
                        /\ quote.out >= 0
                        /\ account.realSui >= quote.out + quote.fee

\* The pool product never falls below where launch set it, and every token the
\* account does not hold is one of the tokens it sold.  With these two facts
\* the pool is solvent.
PoolInv ==
    Launched =>
        /\ (account.realSui + VirtualSui) * (account.realToken + VirtualToken)
              >= VirtualSui * (VirtualToken + SaleSupply)
        /\ circulating + account.realToken <= SaleSupply

\* No SUI is created or lost by any trade, fee split or payment.
SuiConserved ==
    account.realSui + account.navSui + Total(sui) = Total(SuiSupply)

\* The TreasuryCap's total supply is exactly what the pool, the token NAV, the
\* locked LP reserve and the holders have: burning and minting are the only
\* changes of supply.
TokensConserved ==
    Launched => account.totalSupply = account.realToken + account.navToken
                                        + LpSupply + circulating

\* The product of the reserves never falls, so no order of buys and sells takes
\* out of the pool more than it put in ("protocol keeps the rounding remainder").
KNeverFalls ==
    [][Launched => (account'.realSui + VirtualSui) * (account'.realToken + VirtualToken)
                     >= (account.realSui + VirtualSui) * (account.realToken + VirtualToken)]_launchpadVars

\* Nor does the pool keep more than the remainder of one unit: a buyer given one
\* token more, or a seller whose tokens release one unit of SUI more, would
\* lower the product (bonding_curve.move, the rounding of the two divisions).
TradesAreTight ==
    [][Launched =>
          /\ account'.realSui > account.realSui =>
                (account'.realSui + VirtualSui) * (account'.realToken + VirtualToken - 1)
                   < (account.realSui + VirtualSui) * (account.realToken + VirtualToken)
          /\ account'.realToken > account.realToken =>
                (account'.realSui + VirtualSui - 1) * (account'.realToken + VirtualToken)
                   < (account.realSui + VirtualSui) * (account.realToken + VirtualToken)]_launchpadVars

\* The quoted hire price of an agent never falls: the NAV only grows, revenue
\* only grows, and the cred target an agent was launched with cannot be moved
\* under it by the admin (views.move; launchpad.move, the snapshot at launch).
HirePriceNeverFalls ==
    [][Launched => HirePrice' >= HirePrice /\ account'.navToken >= account.navToken]_launchpadVars

\* Cred is always backed: lifetime revenue grows by an amount only when the NAV
\* grows by at least its minimum share of that amount, under every share triple
\* an admin can set.
CredBacked ==
    [][account'.revenue # account.revenue =>
          /\ account'.revenue > account.revenue
          /\ account'.navSui - account.navSui
                >= FeeOn(account'.revenue - account.revenue, MinNavShare)]_launchpadVars

\* Basic self-pump protection: in a step that adds to lifetime revenue the
\* creator's wallet is never the one that pays.
NoSelfCred ==
    [][account'.revenue > account.revenue =>
          sui'[account.creator] >= sui[account.creator]]_launchpadVars

\* While config and account are on different schema versions (one migrated
\* after an upgrade, the other not yet) no value moves and nothing is burned.
FrozenOnVersionSkew ==
    [][Launched /\ config.version # account.version =>
          /\ UNCHANGED <<sui, circulating>>
          /\ \A f \in {"realSui", "realToken", "navSui", "navToken", "revenue", "totalSupply"} :
                account'[f] = account[f]]_launchpadVars

\* An address becomes admin only by accepting a nomination that is still open;
\* a cancelled or replaced nominee cannot, and the nomination is used up.
AdminHandover ==
    [][config'.admin # config.admin =>
          config.pendingAdmin = config'.admin /\ config'.pendingAdmin = None]_launchpadVars
=============================================================================
