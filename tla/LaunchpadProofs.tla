-------------------------- MODULE LaunchpadProofs --------------------------
(***************************************************************************)
(* The launchpad's state is well typed, its pool stays solvent, no SUI or  *)
(* token is lost, and no step takes from an agent what it has, for every   *)
(* curve, share triple, fee and number of addresses.                       *)
(***************************************************************************)
EXTENDS Launchpad, CurveProofs

\* There is nothing before the launch.
PreLaunch == ~Launched => account = NoAccount /\ circulating = 0

\* The inductive invariant.  The pool facts need tokens to be conserved (a burn
\* must not take the supply below what circulates) and the shares to be valid
\* (a split must not pay out more than it is given).
IInv ==
    /\ LaunchpadTypeOK
    /\ SharesSafe
    /\ PoolInv
    /\ TokensConserved
    /\ PreLaunch

Product == (account.realSui + VirtualSui) * (account.realToken + VirtualToken)

SuiHeld == account.realSui + account.navSui + Total(sui)

Credited == account'.revenue - account.revenue

\* What no step does to an account: the pool's product, the NAV, the revenue and
\* the cred target never get worse, and revenue is matched by NAV and not paid by
\* the creator.
Unharmed ==
    /\ Product' >= Product
    /\ account'.navSui >= account.navSui /\ account'.navToken >= account.navToken
    /\ account'.revenue >= account.revenue
    /\ Launched => account'.credTarget = account.credTarget
    /\ account'.revenue # account.revenue =>
          /\ account'.navSui - account.navSui >= FeeOn(Credited, MinNavShare)
          /\ sui'[account.creator] >= sui[account.creator]

\* The launchpad's own steps keep the SUI there is, too.
Sound == Unharmed /\ SuiHeld' = SuiHeld

\* What the config's invariants say to the arithmetic lemmas.
LEMMA ConfigFacts ==
    ASSUME LaunchpadTypeOK, SharesSafe
    PROVE  /\ config.tradeFee \in 0 .. BpsDenominator
           /\ \A s \in {config.tradeShares, config.serviceShares, config.tokenServiceShares} :
                 s.nav \in Nat /\ s.creator \in Nat /\ s.rest \in Nat /\ SplitDefined(s)
  <1>1. /\ config.tradeFee \in 1 .. MaxTradeFee
        /\ config.tradeShares \in ShareTriple
        /\ config.serviceShares \in ShareTriple
        /\ config.tokenServiceShares \in ShareTriple
    BY DEF LaunchpadTypeOK, ConfigTypeOK, Config
  <1>2. config.tradeFee \in 0 .. BpsDenominator
    BY <1>1, ConfigAssumption, BpsAssumption
  <1>3. \A s \in ShareTriple : ValidShares(s) =>
            s.nav \in Nat /\ s.creator \in Nat /\ s.rest \in Nat /\ SplitDefined(s)
    BY BpsAssumption DEF ShareTriple, ValidShares, SplitDefined
  <1> QED
    BY <1>1, <1>2, <1>3 DEF SharesSafe

\* Distributing a split keeps the wallets balances, takes from none, and adds
\* what it pays out.
LEMMA WalletsPaid ==
    ASSUME NEW w \in [Addr -> Nat], NEW c \in Addr, NEW p \in Addr,
           NEW split, split.creator \in Nat, split.rest \in Nat
    PROVE  /\ DistributeSui(w, split, c, p) \in [Addr -> Nat]
           /\ \A a \in Addr : DistributeSui(w, split, c, p)[a] >= w[a]
           /\ Total(w) \in Int
           /\ Total(DistributeSui(w, split, c, p)) = Total(w) + split.creator + split.rest
  <1>1. /\ Credit(w, c, split.creator) \in [Addr -> Nat]
        /\ \A a \in Addr : Credit(w, c, split.creator)[a] >= w[a]
    BY DEF Credit
  <1>2. /\ DistributeSui(w, split, c, p) \in [Addr -> Nat]
        /\ \A a \in Addr : DistributeSui(w, split, c, p)[a] >= Credit(w, c, split.creator)[a]
    <2> DEFINE u == Credit(w, c, split.creator)
    <2>1. u \in [Addr -> Nat]
      BY <1>1
    <2> HIDE DEF u
    <2>2. DistributeSui(w, split, c, p) = Credit(u, p, split.rest)
      BY DEF DistributeSui, u
    <2>3. /\ DistributeSui(w, split, c, p) \in [Addr -> Nat]
          /\ \A a \in Addr : DistributeSui(w, split, c, p)[a] >= u[a]
      BY <2>1, <2>2 DEF Credit
    <2> QED
      BY <2>3 DEF u
  <1>3. w \in [Addr -> Int] /\ split.creator \in Int /\ split.rest \in Int
    OBVIOUS
  <1>4. /\ Total(w) \in Int
        /\ Total(DistributeSui(w, split, c, p)) = Total(w) + split.creator + split.rest
    BY <1>3, LaunchpadAssumption, SplitTotal
  <1>5. ASSUME NEW a \in Addr
        PROVE  DistributeSui(w, split, c, p)[a] >= w[a]
    <2>1. /\ DistributeSui(w, split, c, p)[a] \in Nat /\ w[a] \in Nat
          /\ Credit(w, c, split.creator)[a] \in Nat
      BY <1>1, <1>2
    <2> QED
      BY <1>1, <1>2, <2>1
  <1> QED
    BY <1>2, <1>4, <1>5

\* Coins that are in a wallet can be taken out of it.
LEMMA WalletDebited ==
    ASSUME NEW w \in [Addr -> Nat], NEW a \in Addr, NEW n \in Nat, n <= w[a]
    PROVE  /\ Debit(w, a, n) \in [Addr -> Nat]
           /\ Total(w) \in Int
           /\ Total(Debit(w, a, n)) = Total(w) - n
  <1>1. Debit(w, a, n) \in [Addr -> Nat]
    BY DEF Debit
  <1>2. w \in [Addr -> Int] /\ n \in Int /\ IsFiniteSet(Addr)
    BY LaunchpadAssumption
  <1>3. Total(w) \in Int
    BY <1>2, MoveTotal, SMT
  <1>4. Total(Debit(w, a, n)) = Total(w) - n
    BY <1>2, MoveTotal, SMT
  <1> QED
    BY <1>1, <1>3, <1>4

\* And coins can be put into any wallet.
LEMMA WalletCredited ==
    ASSUME NEW w \in [Addr -> Nat], NEW a \in Addr, NEW n \in Nat
    PROVE  /\ Credit(w, a, n) \in [Addr -> Nat]
           /\ Total(w) \in Int
           /\ Total(Credit(w, a, n)) = Total(w) + n
  <1>1. Credit(w, a, n) \in [Addr -> Nat]
    BY DEF Credit
  <1>2. w \in [Addr -> Int] /\ n \in Int /\ IsFiniteSet(Addr)
    BY LaunchpadAssumption
  <1>3. Total(w) \in Int
    BY <1>2, MoveTotal, SMT
  <1>4. Total(Credit(w, a, n)) = Total(w) + n
    BY <1>2, MoveTotal, SMT
  <1> QED
    BY <1>1, <1>3, <1>4

\* The state the package is published in satisfies the invariant.
LEMMA InitInv == LaunchpadInit => IInv
  <1> SUFFICES ASSUME LaunchpadInit
               PROVE  IInv
    OBVIOUS
  <1> USE DEF LaunchpadInit, ConfigInit
  <1>1. config \in Config /\ ConfigTypeOK
    BY ConfigAssumption DEF Config, ConfigTypeOK
  <1>2. account \in Account /\ account.version = 0
    BY ConfigAssumption, LaunchpadAssumption DEF NoAccount, Account
  <1>3. LaunchpadTypeOK
    BY <1>1, <1>2, LaunchpadAssumption DEF LaunchpadTypeOK
  <1>4. SharesSafe
    BY ConfigAssumption DEF SharesSafe
  <1> QED
    BY <1>2, <1>3, <1>4 DEF IInv, PoolInv, TokensConserved, PreLaunch, Launched

\* A step that leaves what the account and the wallets hold is sound.
LEMMA QuietStep ==
    ASSUME IInv, UNCHANGED sui,
           \A f \in {"realSui", "realToken", "navSui", "navToken", "revenue", "credTarget"} :
                account'[f] = account[f]
    PROVE  Sound
  <1>1. /\ account'.realSui = account.realSui /\ account'.realToken = account.realToken
        /\ account'.navSui = account.navSui /\ account'.navToken = account.navToken
        /\ account'.revenue = account.revenue /\ account'.credTarget = account.credTarget
    OBVIOUS
  <1>2. /\ account.realSui \in Nat /\ account.realToken \in Nat
        /\ account.navSui \in Nat /\ account.navToken \in Nat /\ account.revenue \in Nat
    BY DEF IInv, LaunchpadTypeOK, Account
  <1>3. Product' = Product /\ Product \in Int /\ SuiHeld' = SuiHeld
    BY <1>1, <1>2, LaunchpadAssumption DEF Product, SuiHeld
  <1> QED
    BY <1>1, <1>2, <1>3 DEF Sound, Unharmed

\* A config step leaves the account, the wallets and the tokens alone.
LEMMA ConfigStep ==
    IInv /\ ConfigNext /\ UNCHANGED <<account, sui, circulating>> => IInv'
  <1> SUFFICES ASSUME IInv, ConfigNext, UNCHANGED <<account, sui, circulating>>
               PROVE  IInv'
    OBVIOUS
  <1>1. ConfigTypeOK /\ SharesSafe /\ config \in Config
    BY DEF IInv, LaunchpadTypeOK, ConfigTypeOK
  <1>2. ConfigTypeOK' /\ SharesSafe' /\ published' >= published
    <2>1. ASSUME NEW pv \in PackageVersions, NEW s \in Addr,
                 AdminStep(pv, s), UNCHANGED published
          PROVE  ConfigTypeOK' /\ SharesSafe'
      <3> USE <1>1, <2>1, ConfigAssumption
              DEF ConfigTypeOK, SharesSafe, Config, AdminCall, PackageVersions
      <3>1. CASE \E a \in AddressChoices : SetPlatformTreasury(pv, s, a)
        BY <3>1 DEF SetPlatformTreasury
      <3>2. CASE \E a \in AddressChoices : ProposeAdmin(pv, s, a)
        BY <3>2 DEF ProposeAdmin
      <3>3. CASE \E t \in ShareChoices : SetTradeShares(pv, s, t)
        BY <3>3 DEF SetTradeShares
      <3>4. CASE \E t \in ShareChoices : SetServiceShares(pv, s, t)
        BY <3>4 DEF SetServiceShares
      <3>5. CASE \E t \in ShareChoices : SetTokenServiceShares(pv, s, t)
        BY <3>5 DEF SetTokenServiceShares
      <3>6. CASE \E b \in FeeChoices : SetTradeFeeBps(pv, s, b)
        BY <3>6 DEF SetTradeFeeBps
      <3>7. CASE \E t \in CredTargetChoices : SetCredRevenueTarget(pv, s, t)
        BY <3>7 DEF SetCredRevenueTarget
      <3>8. CASE AcceptAdmin(pv, s)
        BY <3>8 DEF AcceptAdmin
      <3>9. CASE CancelPendingAdmin(pv, s)
        BY <3>9 DEF CancelPendingAdmin
      <3>10. CASE MigrateConfig(pv, s)
        BY <3>10 DEF MigrateConfig
      <3> QED
        BY <2>1, <3>1, <3>2, <3>3, <3>4, <3>5, <3>6, <3>7, <3>8, <3>9, <3>10 DEF AdminStep
    <2>2. ASSUME Upgrade
          PROVE  ConfigTypeOK' /\ SharesSafe'
      BY <1>1, <2>2, ConfigAssumption DEF Upgrade, ConfigTypeOK, SharesSafe, Config
    <2>3. published' >= published
      BY <1>1, ConfigAssumption DEF ConfigNext, Upgrade, ConfigTypeOK
    <2> QED
      BY <2>1, <2>2, <2>3 DEF ConfigNext
  <1>3. LaunchpadTypeOK'
    <2>1. published \in Int /\ published' \in Int
      BY <1>1, <1>2, ConfigAssumption DEF ConfigTypeOK
    <2>2. account \in Account /\ account.version \in Int
      BY ConfigAssumption DEF IInv, LaunchpadTypeOK, Account
    <2> QED
      BY <1>2, <2>1, <2>2 DEF IInv, LaunchpadTypeOK
  <1> QED
    BY <1>2, <1>3 DEF IInv, PoolInv, TokensConserved, PreLaunch, Launched

\* What a fresh account is.
LEMMA FreshFacts ==
    ASSUME NEW pv \in 1 .. MaxVersion, NEW s \in Addr, NEW id \in ObjectIds \cup {None},
           config \in Config
    PROVE  LET fresh == FreshAccount(pv, s, id)
           IN  /\ fresh.version = pv /\ fresh.version # 0
               /\ fresh.creator = s /\ fresh.linkedIdentity = id
               /\ fresh.realSui = 0 /\ fresh.realToken = SaleSupply
               /\ fresh.navSui = 0 /\ fresh.navToken = 0 /\ fresh.revenue = 0
               /\ fresh.totalSupply = SaleSupply + LpSupply
               /\ fresh \in Account
  <1> DEFINE fresh == [version |-> pv, creator |-> s, linkedIdentity |-> id,
                       dwallets |-> None, realSui |-> 0, realToken |-> SaleSupply,
                       navSui |-> 0, navToken |-> 0, accessThreshold |-> 0,
                       acceptCoinPayments |-> FALSE, revenue |-> 0,
                       credTarget |-> config.credTarget,
                       totalSupply |-> SaleSupply + LpSupply]
  <1>1. FreshAccount(pv, s, id) = fresh
    <2>1. PICK new : new = FreshAccount(pv, s, id)
      OBVIOUS
    <2>2. new = fresh
      BY <2>1 DEF FreshAccount, NoAccount
    <2> QED
      BY <2>1, <2>2
  <1>2. config.credTarget \in Nat \ {0} /\ pv \in 0 .. MaxVersion /\ pv # 0
    BY ConfigAssumption DEF Config
  <1>3. SaleSupply \in Nat /\ SaleSupply + LpSupply \in Nat
    BY LaunchpadAssumption
  <1>4. fresh \in Account
    BY <1>2, <1>3, LaunchpadAssumption DEF Account
  <1> QED
    BY <1>1, <1>2, <1>4

\* A launch sets up a pool at the virtual reserves' product.
LEMMA LaunchStep ==
    ASSUME NEW pv \in PackageVersions, NEW s \in Addr, NEW id \in ObjectIds \cup {None}
    PROVE  IInv /\ LaunchAgentCoin(pv, s, id) => IInv' /\ Sound
  <1> SUFFICES ASSUME IInv, LaunchAgentCoin(pv, s, id)
               PROVE  IInv' /\ Sound
    OBVIOUS
  <1> USE DEF LaunchAgentCoin
  <1>1. circulating = 0 /\ LaunchpadTypeOK /\ ConfigTypeOK /\ config \in Config
    BY DEF IInv, PreLaunch, LaunchpadTypeOK, ConfigTypeOK
  <1>2. pv \in 1 .. MaxVersion /\ pv <= published
    BY <1>1, ConfigAssumption DEF ConfigTypeOK, PackageVersions
  <1>3. /\ account'.version = pv /\ account'.creator = s /\ account'.linkedIdentity = id
        /\ account'.realSui = 0 /\ account'.realToken = SaleSupply
        /\ account'.navSui = 0 /\ account'.navToken = 0 /\ account'.revenue = 0
        /\ account'.totalSupply = SaleSupply + LpSupply
        /\ account' \in Account
    BY <1>1, <1>2, FreshFacts
  <1>4. LaunchpadTypeOK'
    BY <1>1, <1>2, <1>3 DEF LaunchpadTypeOK, ConfigTypeOK
  <1>5. PoolInv'
    BY <1>1, <1>3, LaunchpadAssumption DEF PoolInv
  <1>6. TokensConserved' /\ PreLaunch'
    <2>1. account'.version # 0
      BY <1>2, <1>3, ConfigAssumption
    <2> QED
      BY <2>1, <1>1, <1>3, LaunchpadAssumption DEF TokensConserved, PreLaunch, Launched
  <1>7. Sound
    <2>1. /\ ~Launched
          /\ account.realSui = 0 /\ account.realToken = 0 /\ account.navSui = 0
          /\ account.navToken = 0 /\ account.revenue = 0
      BY DEF IInv, PreLaunch, NoAccount
    <2>2. SuiHeld' = SuiHeld
      BY <1>3, <2>1 DEF SuiHeld
    <2>3. Product' >= Product
      <3>1. /\ Product = VirtualSui * VirtualToken
            /\ Product' = VirtualSui * (SaleSupply + VirtualToken)
        BY <1>3, <2>1, LaunchpadAssumption DEF Product
      <3> QED
        BY <3>1, LaunchpadAssumption
    <2> QED
      BY <1>3, <2>1, <2>2, <2>3 DEF Sound, Unharmed
  <1> QED
    BY <1>4, <1>5, <1>6, <1>7 DEF IInv, SharesSafe

\* Steps that change no balance of the account.
LEMMA BookkeepingStep ==
    ASSUME IInv, Launched, account' \in Account,
           account'.version \in 1 .. published,
           UNCHANGED <<published, config, sui, circulating>>,
           \A f \in {"realSui", "realToken", "navSui", "navToken", "totalSupply",
                     "revenue", "credTarget"} : account'[f] = account[f]
    PROVE  IInv' /\ Sound
  <1>1. /\ account'.realSui = account.realSui
        /\ account'.realToken = account.realToken
        /\ account'.navToken = account.navToken
        /\ account'.totalSupply = account.totalSupply
    OBVIOUS
  <1>2. published \in Nat
    BY ConfigAssumption DEF IInv, LaunchpadTypeOK, ConfigTypeOK
  <1>3. LaunchpadTypeOK' /\ SharesSafe'
    BY <1>2 DEF IInv, LaunchpadTypeOK, ConfigTypeOK, SharesSafe
  <1>4. PoolInv' /\ TokensConserved' /\ PreLaunch'
    BY <1>1, <1>2 DEF IInv, PoolInv, TokensConserved, PreLaunch, Launched
  <1>5. Sound
    BY QuietStep
  <1> QED
    BY <1>3, <1>4, <1>5 DEF IInv

\* The creator's setters and the migration move no balance.
LEMMA AccountStep ==
    ASSUME NEW pv \in PackageVersions, NEW s \in Addr
    PROVE  IInv /\ (\/ \E id \in ObjectIds \cup {None} :
                            SetLinkedIdentity(pv, s, id) \/ SetDwalletsObjectId(pv, s, id)
                    \/ \E t \in Thresholds, b \in BOOLEAN : SetAccessConfig(pv, s, t, b)
                    \/ \E a \in CreatorChoices : SetCreator(pv, s, a)
                    \/ MigrateAccount(pv))
              => IInv' /\ Sound
  <1> SUFFICES ASSUME IInv
               PROVE  (\/ \E id \in ObjectIds \cup {None} :
                            SetLinkedIdentity(pv, s, id) \/ SetDwalletsObjectId(pv, s, id)
                       \/ \E t \in Thresholds, b \in BOOLEAN : SetAccessConfig(pv, s, t, b)
                       \/ \E a \in CreatorChoices : SetCreator(pv, s, a)
                       \/ MigrateAccount(pv)) => IInv' /\ Sound
    OBVIOUS
  <1>1. /\ account \in Account /\ published \in 1 .. MaxVersion
        /\ account.version <= published /\ pv \in 1 .. published /\ pv \in 1 .. MaxVersion
    BY ConfigAssumption DEF IInv, LaunchpadTypeOK, ConfigTypeOK, PackageVersions
  <1>2. ASSUME NEW id \in ObjectIds \cup {None}, SetLinkedIdentity(pv, s, id)
        PROVE  IInv' /\ Sound
    BY <1>1, <1>2, BookkeepingStep DEF SetLinkedIdentity, CreatorCall, Account, Launched
  <1>3. ASSUME NEW id \in ObjectIds \cup {None}, SetDwalletsObjectId(pv, s, id)
        PROVE  IInv' /\ Sound
    BY <1>1, <1>3, BookkeepingStep DEF SetDwalletsObjectId, CreatorCall, Account, Launched
  <1>4. ASSUME NEW t \in Thresholds, NEW b \in BOOLEAN, SetAccessConfig(pv, s, t, b)
        PROVE  IInv' /\ Sound
    <2>1. account' = [account EXCEPT !.accessThreshold = t, !.acceptCoinPayments = b]
      BY <1>4 DEF SetAccessConfig
    <2>2. account' \in Account
      BY <1>1, <2>1, Zenon DEF Account
    <2>3. /\ account'.version = account.version
          /\ account'.realSui = account.realSui /\ account'.realToken = account.realToken
          /\ account'.navSui = account.navSui /\ account'.navToken = account.navToken
          /\ account'.revenue = account.revenue
          /\ account'.credTarget = account.credTarget
          /\ account'.totalSupply = account.totalSupply
      BY <1>1, <2>1, Zenon DEF Account
    <2>4. account.version = pv /\ UNCHANGED <<published, config, sui, circulating>>
      BY <1>4 DEF SetAccessConfig, CreatorCall
    <2>5. account'.version \in 1 .. published
      BY <1>1, <2>3, <2>4
    <2>6. Launched
      BY <1>1, <2>4 DEF Launched
    <2> QED
      BY <2>2, <2>3, <2>4, <2>5, <2>6, BookkeepingStep
  <1>5. ASSUME NEW a \in CreatorChoices, SetCreator(pv, s, a)
        PROVE  IInv' /\ Sound
    BY <1>1, <1>5, BookkeepingStep, LaunchpadAssumption
       DEF SetCreator, CreatorCall, Account, Launched
  <1>6. ASSUME MigrateAccount(pv)
        PROVE  IInv' /\ Sound
    BY <1>1, <1>6, BookkeepingStep DEF MigrateAccount, Account, Launched
  <1> QED
    BY <1>2, <1>3, <1>4, <1>5, <1>6

\* What the lemmas on value-moving steps need of the state they start from.
LEMMA LaunchedFacts ==
    ASSUME NEW pv \in PackageVersions, IInv, Accepts(pv)
    PROVE  /\ Launched
           /\ account \in Account /\ config \in Config
           /\ sui \in [Addr -> Nat] /\ circulating \in Nat
           /\ account.realSui \in Nat /\ account.realToken \in Nat
           /\ account.navSui \in Nat /\ account.navToken \in Nat
           /\ account.totalSupply \in Nat /\ account.revenue \in Nat
           /\ account.creator \in Addr /\ config.platformTreasury \in Addr
           /\ config.tradeFee \in 0 .. BpsDenominator
  <1>1. /\ account \in Account /\ sui \in [Addr -> Nat] /\ circulating \in Nat
        /\ config \in Config /\ pv # 0 /\ account.version = pv
    BY ConfigAssumption DEF IInv, LaunchpadTypeOK, ConfigTypeOK, Accepts, PackageVersions
  <1>2. config.tradeFee \in 0 .. BpsDenominator
    BY ConfigFacts DEF IInv
  <1> QED
    BY <1>1, <1>2 DEF Account, Config, Launched

\* A step that changes balances only needs its new balances looked at.
LEMMA BalanceStep ==
    ASSUME IInv, Launched,
           account' \in Account, account'.version = account.version,
           sui' \in [Addr -> Nat], circulating' \in Nat,
           UNCHANGED <<published, config>>,
           (account'.realSui + VirtualSui) * (account'.realToken + VirtualToken)
             >= (account.realSui + VirtualSui) * (account.realToken + VirtualToken),
           circulating' + account'.realToken <= SaleSupply,
           account'.totalSupply = account'.realToken + account'.navToken
                                    + LpSupply + circulating'
    PROVE  IInv'
  <1>1. LaunchpadTypeOK' /\ SharesSafe'
    BY DEF IInv, LaunchpadTypeOK, ConfigTypeOK, SharesSafe
  <1>2. PoolInv'
    <2>1. /\ account.realSui \in Nat /\ account.realToken \in Nat
          /\ account'.realSui \in Nat /\ account'.realToken \in Nat
      BY DEF IInv, LaunchpadTypeOK, Account
    <2>2. /\ (account.realSui + VirtualSui) * (account.realToken + VirtualToken) \in Nat
          /\ (account'.realSui + VirtualSui) * (account'.realToken + VirtualToken) \in Nat
          /\ VirtualSui * (VirtualToken + SaleSupply) \in Nat
      BY <2>1, LaunchpadAssumption
    <2>3. (account.realSui + VirtualSui) * (account.realToken + VirtualToken)
             >= VirtualSui * (VirtualToken + SaleSupply)
      BY DEF IInv, PoolInv
    <2> QED
      BY <2>2, <2>3 DEF PoolInv
  <1>3. TokensConserved' /\ PreLaunch'
    BY DEF TokensConserved, PreLaunch, Launched
  <1> QED
    BY <1>1, <1>2, <1>3 DEF IInv

\* A buy keeps the inductive invariant: the fee rounds down, the new token total
\* rounds up, so the product grows.
LEMMA BuyStep ==
    ASSUME NEW pv \in PackageVersions, NEW s \in Addr,
           NEW n \in 1 .. sui[s], NEW m
    PROVE  IInv /\ Buy(pv, s, n, m) => IInv' /\ Sound
  <1> SUFFICES ASSUME IInv, Buy(pv, s, n, m)
               PROVE  IInv' /\ Sound
    OBVIOUS
  <1> DEFINE q     == BuyQuote(n)
             split == ComputeSplit(q.fee, config.tradeShares)
  <1>1. /\ Launched /\ account \in Account /\ config \in Config
        /\ sui \in [Addr -> Nat] /\ circulating \in Nat
        /\ account.realSui \in Nat /\ account.realToken \in Nat
        /\ account.navSui \in Nat /\ account.navToken \in Nat
        /\ account.creator \in Addr /\ config.platformTreasury \in Addr
        /\ config.tradeFee \in 0 .. BpsDenominator
    BY LaunchedFacts DEF Buy
  <1>2. n \in Nat \ {0} /\ sui[s] \in Nat /\ n <= sui[s]
    <2>1. sui[s] \in Nat
      BY <1>1
    <2> QED
      BY <2>1
  <1>3. /\ q.out \in Nat /\ q.fee \in 0 .. n
        /\ (account.realSui + n - q.fee + VirtualSui) * (account.realToken - q.out + VirtualToken)
             >= (account.realSui + VirtualSui) * (account.realToken + VirtualToken)
    BY <1>1, <1>2, LaunchpadAssumption, BuyKeepsProduct DEF BuyQuote
  <1>4. /\ split.nav \in Nat /\ split.creator \in Nat /\ split.rest \in Nat
        /\ split.nav + split.creator + split.rest = q.fee
    BY <1>3, ConfigFacts, SplitExact DEF IInv
  <1>5. /\ q.out <= account.realToken
        /\ account' = [account EXCEPT !.realSui = @ + n - q.fee,
                                      !.realToken = @ - q.out,
                                      !.navSui = @ + split.nav]
        /\ sui' = DistributeSui(Debit(sui, s, n), split, account.creator, config.platformTreasury)
        /\ circulating' = circulating + q.out
        /\ UNCHANGED <<published, config>>
    BY <1>1, <1>3 DEF Buy
  <1> HIDE DEF q, split
  <1>6. /\ sui' \in [Addr -> Nat]
        /\ Total(sui) \in Int
        /\ Total(sui') = Total(sui) - n + split.creator + split.rest
    <2>1. /\ Debit(sui, s, n) \in [Addr -> Nat]
          /\ Total(sui) \in Int /\ Total(Debit(sui, s, n)) = Total(sui) - n
      BY <1>1, <1>2, WalletDebited
    <2> QED
      BY <2>1, <1>1, <1>4, <1>5, WalletsPaid
  <1> DEFINE rs == account.realSui + n - q.fee
             rt == account.realToken - q.out
             nv == account.navSui + split.nav
  <1>7. rs \in Nat /\ rt \in Nat /\ nv \in Nat
    BY <1>1, <1>2, <1>3, <1>4, <1>5
  <1>8. /\ account' \in Account /\ account'.version = account.version
        /\ account'.realSui = rs /\ account'.realToken = rt
        /\ account'.navSui = nv /\ account'.navToken = account.navToken
        /\ account'.revenue = account.revenue
        /\ account'.credTarget = account.credTarget
        /\ account'.totalSupply = account.totalSupply
    <2>1. account' = [account EXCEPT !.realSui = rs, !.realToken = rt, !.navSui = nv]
      BY <1>5
    <2> HIDE DEF rs, rt, nv
    <2> QED
      BY <1>1, <1>7, <2>1 DEF Account
  <1>9. (account'.realSui + VirtualSui) * (account'.realToken + VirtualToken)
             >= (account.realSui + VirtualSui) * (account.realToken + VirtualToken)
    BY <1>3, <1>8
  <1>10. /\ circulating' \in Nat
         /\ circulating' + account'.realToken = circulating + account.realToken
    BY <1>1, <1>3, <1>5, <1>8
  <1>11. /\ circulating + account.realToken <= SaleSupply
         /\ account.totalSupply = account.realToken + account.navToken + LpSupply + circulating
    BY <1>1 DEF IInv, PoolInv, TokensConserved
  <1>12. /\ circulating' + account'.realToken <= SaleSupply
         /\ account'.totalSupply = account'.realToken + account'.navToken
                                     + LpSupply + circulating'
    BY <1>1, <1>3, <1>5, <1>8, <1>10, <1>11, LaunchpadAssumption
  <1>13. IInv'
    BY <1>1, <1>5, <1>6, <1>8, <1>9, <1>10, <1>12, BalanceStep
  <1>14. SuiHeld' = SuiHeld
    BY <1>1, <1>2, <1>3, <1>4, <1>6, <1>8 DEF SuiHeld
  <1>15. /\ account'.navSui >= account.navSui /\ account'.navToken >= account.navToken
         /\ account'.revenue = account.revenue /\ account'.revenue >= account.revenue
    BY <1>1, <1>4, <1>8 DEF Account
  <1>16. Product' >= Product
    BY <1>9 DEF Product
  <1> QED
    BY <1>8, <1>13, <1>14, <1>15, <1>16, Zenon DEF Sound, Unharmed

\* A sell keeps the inductive invariant: what it pays rounds down.
LEMMA SellStep ==
    ASSUME NEW pv \in PackageVersions, NEW s \in Addr,
           NEW n \in 1 .. circulating, NEW m
    PROVE  IInv /\ Sell(pv, s, n, m) => IInv' /\ Sound
  <1> SUFFICES ASSUME IInv, Sell(pv, s, n, m)
               PROVE  IInv' /\ Sound
    OBVIOUS
  <1> DEFINE q     == SellQuote(n)
             split == ComputeSplit(q.fee, config.tradeShares)
  <1>1. /\ Launched /\ account \in Account /\ config \in Config
        /\ sui \in [Addr -> Nat] /\ circulating \in Nat
        /\ account.realSui \in Nat /\ account.realToken \in Nat
        /\ account.navSui \in Nat /\ account.navToken \in Nat
        /\ account.creator \in Addr /\ config.platformTreasury \in Addr
        /\ config.tradeFee \in 0 .. BpsDenominator
    BY LaunchedFacts DEF Sell
  <1>2. n \in Nat \ {0} /\ n <= circulating
    BY <1>1
  <1>3. /\ q.out \in Nat /\ q.fee \in Nat
        /\ (account.realSui - (q.out + q.fee) + VirtualSui) * (account.realToken + n + VirtualToken)
             >= (account.realSui + VirtualSui) * (account.realToken + VirtualToken)
    BY <1>1, <1>2, LaunchpadAssumption, SellKeepsProduct DEF SellQuote
  <1>4. /\ split.nav \in Nat /\ split.creator \in Nat /\ split.rest \in Nat
        /\ split.nav + split.creator + split.rest = q.fee
    BY <1>3, ConfigFacts, SplitExact DEF IInv
  <1>5. /\ account.realSui >= q.out + q.fee
        /\ account' = [account EXCEPT !.realSui = @ - q.out - q.fee,
                                      !.realToken = @ + n,
                                      !.navSui = @ + split.nav]
        /\ sui' = DistributeSui(Credit(sui, s, q.out), split,
                                account.creator, config.platformTreasury)
        /\ circulating' = circulating - n
        /\ UNCHANGED <<published, config>>
    BY DEF Sell
  <1> HIDE DEF q, split
  <1>6. /\ sui' \in [Addr -> Nat]
        /\ Total(sui) \in Int
        /\ Total(sui') = Total(sui) + q.out + split.creator + split.rest
    <2>1. /\ Credit(sui, s, q.out) \in [Addr -> Nat]
          /\ Total(sui) \in Int /\ Total(Credit(sui, s, q.out)) = Total(sui) + q.out
      BY <1>1, <1>3, WalletCredited
    <2> QED
      BY <2>1, <1>1, <1>4, <1>5, WalletsPaid
  <1> DEFINE rs == account.realSui - q.out - q.fee
             rt == account.realToken + n
             nv == account.navSui + split.nav
  <1>7. rs \in Nat /\ rt \in Nat /\ nv \in Nat /\ rs = account.realSui - (q.out + q.fee)
    BY <1>1, <1>2, <1>3, <1>4, <1>5
  <1>8. /\ account' \in Account /\ account'.version = account.version
        /\ account'.realSui = rs /\ account'.realToken = rt
        /\ account'.navSui = nv /\ account'.navToken = account.navToken
        /\ account'.revenue = account.revenue
        /\ account'.credTarget = account.credTarget
        /\ account'.totalSupply = account.totalSupply
    <2>1. account' = [account EXCEPT !.realSui = rs, !.realToken = rt, !.navSui = nv]
      BY <1>5
    <2> HIDE DEF rs, rt, nv
    <2> QED
      BY <1>1, <1>7, <2>1 DEF Account
  <1>9. (account'.realSui + VirtualSui) * (account'.realToken + VirtualToken)
             >= (account.realSui + VirtualSui) * (account.realToken + VirtualToken)
    BY <1>3, <1>7, <1>8
  <1>10. /\ circulating' \in Nat
         /\ circulating' + account'.realToken = circulating + account.realToken
    BY <1>1, <1>2, <1>5, <1>8
  <1>11. /\ circulating + account.realToken <= SaleSupply
         /\ account.totalSupply = account.realToken + account.navToken + LpSupply + circulating
    BY <1>1 DEF IInv, PoolInv, TokensConserved
  <1>12. /\ circulating' + account'.realToken <= SaleSupply
         /\ account'.totalSupply = account'.realToken + account'.navToken
                                     + LpSupply + circulating'
    BY <1>1, <1>2, <1>5, <1>8, <1>10, <1>11, LaunchpadAssumption
  <1>13. IInv'
    BY <1>1, <1>5, <1>6, <1>8, <1>9, <1>10, <1>12, BalanceStep
  <1>14. SuiHeld' = SuiHeld
    BY <1>1, <1>2, <1>3, <1>4, <1>6, <1>8 DEF SuiHeld
  <1>15. /\ account'.navSui >= account.navSui /\ account'.navToken >= account.navToken
         /\ account'.revenue = account.revenue /\ account'.revenue >= account.revenue
    BY <1>1, <1>4, <1>8 DEF Account
  <1>16. Product' >= Product
    BY <1>9 DEF Product
  <1> QED
    BY <1>8, <1>13, <1>14, <1>15, <1>16, Zenon DEF Sound, Unharmed

\* A service payment in SUI, whoever made it and wherever the coin comes from,
\* feeds the NAV and leaves the pool alone.
LEMMA RecordStep ==
    ASSUME NEW pv \in PackageVersions, NEW s \in Addr, NEW n \in Nat,
           NEW w \in [Addr -> Nat]
    PROVE  IInv /\ RecordServicePaymentSui(pv, s, n, w) =>
             /\ IInv'
             /\ Product' = Product
             /\ account'.realSui = account.realSui
             /\ account'.navSui + Total(sui') = account.navSui + Total(w) + n
             /\ Total(w) \in Int /\ Total(sui') \in Int
             /\ account'.navSui - account.navSui >= FeeOn(n, MinNavShare)
             /\ account'.navSui >= account.navSui
             /\ account'.navToken = account.navToken
             /\ account'.revenue = IF s # account.creator THEN account.revenue + n
                                                          ELSE account.revenue
             /\ account'.credTarget = account.credTarget
             /\ \A a \in Addr : sui'[a] >= w[a]
  <1> SUFFICES ASSUME IInv, RecordServicePaymentSui(pv, s, n, w)
               PROVE  /\ IInv'
                      /\ Product' = Product
                      /\ account'.realSui = account.realSui
                      /\ account'.navSui + Total(sui') = account.navSui + Total(w) + n
                      /\ Total(w) \in Int /\ Total(sui') \in Int
                      /\ account'.navSui - account.navSui >= FeeOn(n, MinNavShare)
                      /\ account'.navSui >= account.navSui
                      /\ account'.navToken = account.navToken
                      /\ account'.revenue = IF s # account.creator THEN account.revenue + n
                                                                   ELSE account.revenue
                      /\ account'.credTarget = account.credTarget
                      /\ \A a \in Addr : sui'[a] >= w[a]
    OBVIOUS
  <1> DEFINE split == ComputeSplit(n, config.serviceShares)
             rev   == IF s # account.creator THEN account.revenue + n ELSE account.revenue
             nv    == account.navSui + split.nav
  <1>1. /\ Launched /\ account \in Account /\ config \in Config
        /\ sui \in [Addr -> Nat] /\ circulating \in Nat
        /\ account.realSui \in Nat /\ account.realToken \in Nat
        /\ account.navSui \in Nat /\ account.revenue \in Nat
        /\ account.creator \in Addr /\ config.platformTreasury \in Addr
    BY LaunchedFacts DEF RecordServicePaymentSui
  <1>2. /\ split.nav \in Nat /\ split.creator \in Nat /\ split.rest \in Nat
        /\ split.nav + split.creator + split.rest = n
    BY ConfigFacts, SplitExact DEF IInv
  <1>3. split.nav >= FeeOn(n, MinNavShare) /\ FeeOn(n, MinNavShare) \in Int
    <2>1. /\ config.serviceShares.nav \in Nat
          /\ MinNavShare <= config.serviceShares.nav
      BY ConfigFacts DEF IInv, SharesSafe, ValidShares
    <2>2. FeeOn(n, MinNavShare) <= FeeOn(n, config.serviceShares.nav)
      BY <2>1, ConfigAssumption, FeeMono
    <2>3. n * MinNavShare \in Nat
      BY ConfigAssumption
    <2>4. FeeOn(n, MinNavShare) \in Int
      BY <2>3, BpsAssumption, DivBounds DEF FeeOn
    <2>5. split.nav = FeeOn(n, config.serviceShares.nav)
      BY DEF ComputeSplit
    <2> QED
      BY <1>2, <2>2, <2>4, <2>5
  <1>4. /\ account' = [account EXCEPT !.navSui = nv, !.revenue = rev]
        /\ sui' = DistributeSui(w, split, account.creator, config.platformTreasury)
        /\ UNCHANGED <<published, config, circulating>>
    BY DEF RecordServicePaymentSui
  <1>5. nv \in Nat /\ rev \in Nat
    BY <1>1, <1>2
  <1> HIDE DEF split
  <1>6. /\ sui' \in [Addr -> Nat] /\ \A a \in Addr : sui'[a] >= w[a]
        /\ Total(w) \in Int /\ Total(sui') = Total(w) + split.creator + split.rest
    BY <1>1, <1>2, <1>4, WalletsPaid
  <1>7. /\ account' \in Account /\ account'.version = account.version
        /\ account'.realSui = account.realSui /\ account'.realToken = account.realToken
        /\ account'.navToken = account.navToken
        /\ account'.totalSupply = account.totalSupply
        /\ account'.credTarget = account.credTarget
        /\ account'.navSui = nv /\ account'.revenue = rev
    <2> HIDE DEF rev, nv
    <2> QED
      BY <1>1, <1>4, <1>5 DEF Account
  <1>8. IInv'
    <2>1. (account'.realSui + VirtualSui) * (account'.realToken + VirtualToken)
             >= (account.realSui + VirtualSui) * (account.realToken + VirtualToken)
      BY <1>1, <1>7, LaunchpadAssumption
    <2>2. /\ circulating' + account'.realToken <= SaleSupply
          /\ account'.totalSupply = account'.realToken + account'.navToken
                                      + LpSupply + circulating'
      BY <1>1, <1>4, <1>7 DEF IInv, PoolInv, TokensConserved
    <2> QED
      BY <1>1, <1>4, <1>6, <1>7, <2>1, <2>2, BalanceStep
  <1>9. /\ account'.navSui + Total(sui') = account.navSui + Total(w) + n
        /\ Total(sui') \in Int
        /\ account'.navSui - account.navSui >= FeeOn(n, MinNavShare)
        /\ account'.navSui >= account.navSui
    BY <1>1, <1>2, <1>3, <1>6, <1>7
  <1> QED
    BY <1>6, <1>7, <1>8, <1>9 DEF Product

\* Paying for a service is such a payment out of the payer's wallet.
LEMMA PayServiceStep ==
    ASSUME NEW pv \in PackageVersions, NEW s \in Addr, NEW n \in 1 .. sui[s]
    PROVE  IInv /\ PayServiceSui(pv, s, n) => IInv' /\ Sound
  <1> SUFFICES ASSUME IInv, PayServiceSui(pv, s, n)
               PROVE  IInv' /\ Sound
    OBVIOUS
  <1> DEFINE w == Debit(sui, s, n)
  <1>1. /\ account \in Account /\ sui \in [Addr -> Nat]
        /\ account.realSui \in Nat /\ account.navSui \in Nat /\ account.revenue \in Nat
        /\ account.creator \in Addr
    BY DEF IInv, LaunchpadTypeOK, Account
  <1>2. n \in Nat \ {0} /\ n <= sui[s]
    <2>1. sui[s] \in Nat
      BY <1>1
    <2> QED
      BY <2>1
  <1>3. w \in [Addr -> Nat] /\ Total(sui) \in Int /\ Total(w) = Total(sui) - n
    BY <1>1, <1>2, WalletDebited
  <1>4. \A a \in Addr : a # s => w[a] = sui[a]
    BY <1>1 DEF Debit
  <1>5. RecordServicePaymentSui(pv, s, n, w)
    BY DEF PayServiceSui
  <1> HIDE DEF w
  <1>6. /\ IInv'
        /\ Product' = Product
        /\ account'.realSui = account.realSui
        /\ account'.navSui + Total(sui') = account.navSui + Total(w) + n
        /\ Total(sui') \in Int
        /\ account'.navSui - account.navSui >= FeeOn(n, MinNavShare)
        /\ account'.navSui >= account.navSui
        /\ account'.navToken = account.navToken
        /\ account'.revenue = IF s # account.creator THEN account.revenue + n
                                                     ELSE account.revenue
        /\ account'.credTarget = account.credTarget
        /\ \A a \in Addr : sui'[a] >= w[a]
    BY <1>2, <1>3, <1>5, RecordStep
  <1>7. account'.navSui \in Nat /\ account.navToken \in Nat /\ Product \in Int
    BY <1>1, <1>6, LaunchpadAssumption DEF IInv, LaunchpadTypeOK, Account, Product
  <1>8. SuiHeld' = SuiHeld
    BY <1>1, <1>2, <1>3, <1>6, <1>7 DEF SuiHeld
  <1>9. account'.revenue # account.revenue =>
            /\ account'.revenue - account.revenue = n
            /\ account.creator # s
    BY <1>1, <1>2, <1>6
  <1> QED
    BY <1>1, <1>2, <1>4, <1>6, <1>7, <1>8, <1>9 DEF Sound, Unharmed, Credited

\* A token payment burns no more than it took out of circulation.
LEMMA TokenPaymentStep ==
    ASSUME NEW pv \in PackageVersions, NEW n \in 1 .. circulating
    PROVE  IInv /\ RecordServicePaymentToken(pv, n) => IInv' /\ Sound
  <1> SUFFICES ASSUME IInv, RecordServicePaymentToken(pv, n)
               PROVE  IInv' /\ Sound
    OBVIOUS
  <1> DEFINE split == ComputeSplit(n, config.tokenServiceShares)
             nt    == account.navToken + split.nav
             ts    == account.totalSupply - split.rest
  <1>1. /\ Launched /\ account \in Account
        /\ sui \in [Addr -> Nat] /\ circulating \in Nat
        /\ account.realSui \in Nat /\ account.realToken \in Nat
        /\ account.navToken \in Nat /\ account.totalSupply \in Nat
    BY LaunchedFacts DEF RecordServicePaymentToken
  <1>2. n \in Nat /\ n <= circulating
    BY <1>1
  <1>3. /\ split.nav \in Nat /\ split.creator \in Nat /\ split.rest \in Nat
        /\ split.nav + split.creator + split.rest = n
    BY <1>2, ConfigFacts, SplitExact DEF IInv
  <1>4. /\ circulating + account.realToken <= SaleSupply
        /\ account.totalSupply = account.realToken + account.navToken + LpSupply + circulating
    BY <1>1 DEF IInv, PoolInv, TokensConserved
  <1>5. /\ account' = [account EXCEPT !.navToken = nt, !.totalSupply = ts]
        /\ circulating' = circulating - n + split.creator
        /\ UNCHANGED <<published, config, sui>>
    BY DEF RecordServicePaymentToken
  <1>6. nt \in Nat /\ ts \in Nat
    BY <1>1, <1>2, <1>3, <1>4, LaunchpadAssumption
  <1>7. /\ account' \in Account /\ account'.version = account.version
        /\ account'.realSui = account.realSui /\ account'.realToken = account.realToken
        /\ account'.navToken = nt /\ account'.totalSupply = ts
        /\ account'.navSui = account.navSui /\ account'.revenue = account.revenue
        /\ account'.credTarget = account.credTarget
    <2> HIDE DEF nt, ts
    <2> QED
      BY <1>1, <1>5, <1>6 DEF Account
  <1>8. (account'.realSui + VirtualSui) * (account'.realToken + VirtualToken)
             >= (account.realSui + VirtualSui) * (account.realToken + VirtualToken)
    BY <1>1, <1>7, LaunchpadAssumption
  <1> HIDE DEF split
  <1>9. /\ circulating' \in Nat
        /\ circulating' + account'.realToken <= SaleSupply
        /\ account'.totalSupply = account'.realToken + account'.navToken
                                    + LpSupply + circulating'
    BY <1>1, <1>2, <1>3, <1>4, <1>5, <1>7, LaunchpadAssumption
  <1>10. IInv'
    BY <1>1, <1>5, <1>7, <1>8, <1>9, BalanceStep
  <1>11. SuiHeld' = SuiHeld
    BY <1>5, <1>7 DEF SuiHeld
  <1>12. /\ account'.navSui >= account.navSui /\ account'.navToken >= account.navToken
         /\ account'.revenue = account.revenue /\ account'.revenue >= account.revenue
    BY <1>1, <1>3, <1>7 DEF Account
  <1>13. Product' >= Product
    BY <1>8 DEF Product
  <1> QED
    BY <1>7, <1>10, <1>11, <1>12, <1>13, Zenon DEF Sound, Unharmed

\* Every step of the launchpad keeps the inductive invariant, and is sound.
LEMMA NextInv == IInv /\ [LaunchpadNext]_launchpadVars => IInv' /\ Sound
  <1> SUFFICES ASSUME IInv, [LaunchpadNext]_launchpadVars
               PROVE  IInv' /\ Sound
    OBVIOUS
  <1>1. CASE UNCHANGED launchpadVars
    <2>1. IInv'
      BY <1>1 DEF launchpadVars, IInv, LaunchpadTypeOK, ConfigTypeOK, SharesSafe,
                  PoolInv, TokensConserved, PreLaunch, Launched
    <2> QED
      BY <1>1, <2>1, QuietStep DEF launchpadVars
  <1>2. CASE ConfigNext /\ UNCHANGED <<account, sui, circulating>>
    BY <1>2, ConfigStep, QuietStep
  <1>3. ASSUME NEW pv \in PackageVersions, NEW s \in Addr, LaunchpadStep(pv, s)
        PROVE  IInv' /\ Sound
    <2>1. CASE \E id \in ObjectIds \cup {None} : LaunchAgentCoin(pv, s, id)
      BY <2>1, LaunchStep
    <2>2. CASE \E n \in 1 .. sui[s], m \in MinOuts : Buy(pv, s, n, m)
      BY <2>2, BuyStep
    <2>3. CASE \E n \in 1 .. sui[s] : PayServiceSui(pv, s, n)
      BY <2>3, PayServiceStep
    <2>4. CASE \E n \in 1 .. circulating, m \in MinOuts : Sell(pv, s, n, m)
      BY <2>4, SellStep
    <2>5. CASE \E n \in 1 .. circulating : RecordServicePaymentToken(pv, n)
      BY <2>5, TokenPaymentStep
    <2>6. CASE \/ \E id \in ObjectIds \cup {None} :
                      SetLinkedIdentity(pv, s, id) \/ SetDwalletsObjectId(pv, s, id)
               \/ \E t \in Thresholds, b \in BOOLEAN : SetAccessConfig(pv, s, t, b)
               \/ \E a \in CreatorChoices : SetCreator(pv, s, a)
               \/ MigrateAccount(pv)
      BY <2>6, AccountStep
    <2> QED
      BY <1>3, <2>1, <2>2, <2>3, <2>4, <2>5, <2>6, Zenon DEF LaunchpadStep
  <1> QED
    BY <1>1, <1>2, <1>3 DEF LaunchpadNext

\* The inductive invariant holds in every reachable state.
THEOREM InductiveInvariant == LaunchpadSpec => []IInv
  <1>1. IInv /\ [LaunchpadNext]_launchpadVars => IInv'
    BY NextInv
  <1> QED
    BY <1>1, InitInv, PTL DEF LaunchpadSpec

\* The launchpad is well typed at every step: no balance is ever negative, no
\* schema version is ahead of the package.
THEOREM TypeCorrect == LaunchpadSpec => []LaunchpadTypeOK
  <1>1. IInv => LaunchpadTypeOK
    BY DEF IInv
  <1> QED
    BY <1>1, InductiveInvariant, PTL

\* The admin can never leave an unfair or non-adding share triple behind.
THEOREM SharesStaySafe == LaunchpadSpec => []SharesSafe
  <1>1. IInv => SharesSafe
    BY DEF IInv
  <1> QED
    BY <1>1, InductiveInvariant, PTL

\* Token supply is exactly accounted for.
THEOREM TokenSupplyExact == LaunchpadSpec => []TokensConserved
  <1>1. IInv => TokensConserved
    BY DEF IInv
  <1> QED
    BY <1>1, InductiveInvariant, PTL

\* The pool product never falls below its value at launch, and the tokens outside
\* the account are tokens the pool sold, for every config and every order of calls.
THEOREM PoolNeverDrained == LaunchpadSpec => []PoolInv
  <1>1. IInv => PoolInv
    BY DEF IInv
  <1> QED
    BY <1>1, InductiveInvariant, PTL

\* The pool invariant makes every sale of circulating tokens payable.
LEMMA PoolSolvent == IInv => Solvent
  <1> SUFFICES ASSUME IInv, Launched, NEW n \in 1 .. circulating
               PROVE  LET quote == SellQuote(n)
                      IN  /\ quote.ok
                          /\ quote.out >= 0
                          /\ account.realSui >= quote.out + quote.fee
    BY DEF Solvent
  <1> DEFINE rs == account.realSui
             rt == account.realToken
             q  == SellQuote(n)
  <1>1. /\ rs \in Nat /\ rt \in Nat /\ circulating \in Nat
        /\ config.tradeFee \in 0 .. BpsDenominator
    BY ConfigFacts DEF IInv, LaunchpadTypeOK, Account
  <1>2. n \in Nat \ {0} /\ n <= circulating
    BY <1>1
  <1>3. /\ SellGross(rs, rt, VirtualSui, VirtualToken, n) \in Nat
        /\ VirtualSui * (rt + n + VirtualToken) <= (rs + VirtualSui) * (rt + VirtualToken)
              => SellGross(rs, rt, VirtualSui, VirtualToken, n) <= rs
    BY <1>1, <1>2, LaunchpadAssumption, GrossCovered
  <1>4. /\ (rs + VirtualSui) * (rt + VirtualToken) >= VirtualSui * (VirtualToken + SaleSupply)
        /\ circulating + rt <= SaleSupply
    BY DEF IInv, PoolInv
  <1>5. rt + n + VirtualToken <= VirtualToken + SaleSupply
    BY <1>1, <1>2, <1>4, LaunchpadAssumption
  <1>6. (rt + n + VirtualToken) * VirtualSui <= (VirtualToken + SaleSupply) * VirtualSui
    BY <1>1, <1>2, <1>5, LaunchpadAssumption, MulMono
  <1>7. (rs + VirtualSui) * (rt + VirtualToken) >= VirtualSui * (rt + n + VirtualToken)
    BY <1>1, <1>2, <1>4, <1>6, LaunchpadAssumption
  <1>8. SellGross(rs, rt, VirtualSui, VirtualToken, n) <= rs
    BY <1>1, <1>2, <1>3, <1>7, LaunchpadAssumption
  <1>9. q.ok
    BY <1>2, <1>8, Zenon DEF SellQuote, ComputeSell
  <1>10. /\ q.out \in Nat /\ q.fee \in Nat
         /\ q.out + q.fee = SellGross(rs, rt, VirtualSui, VirtualToken, n)
    BY <1>1, <1>2, <1>3, SellSplit DEF SellQuote
  <1> HIDE DEF rs, q
  <1>11. q.out >= 0 /\ rs >= q.out + q.fee
    BY <1>1, <1>8, <1>10
  <1> QED
    BY <1>9, <1>11, Zenon DEF q, rs

\* Whatever was traded, paid, burned or re-parameterised before, every holder
\* can sell: sell's overflow and liquidity assertions never fire.
THEOREM AlwaysSolvent == LaunchpadSpec => []Solvent
  BY PoolSolvent, InductiveInvariant, PTL

-----------------------------------------------------------------------------
\* No SUI is created or lost by any trade, fee split or payment, however many
\* addresses hold it.
THEOREM SuiAlwaysConserved == LaunchpadSpec => []SuiConserved
  <1>1. LaunchpadInit => SuiConserved
    <2> SUFFICES ASSUME LaunchpadInit
                 PROVE  SuiConserved
      OBVIOUS
    <2>1. account.realSui = 0 /\ account.navSui = 0 /\ sui = SuiSupply
      BY DEF LaunchpadInit, NoAccount
    <2>2. SuiSupply \in [Addr -> Nat] /\ Publisher \in Addr
      BY LaunchpadAssumption, ConfigAssumption
    <2>3. Total(SuiSupply) \in Int
      BY <2>2, WalletCredited
    <2> QED
      BY <2>1, <2>3 DEF SuiConserved
  <1>2. IInv /\ SuiConserved /\ [LaunchpadNext]_launchpadVars => SuiConserved'
    BY NextInv DEF Sound, Unharmed, SuiHeld, SuiConserved
  <1> QED
    BY <1>1, <1>2, InductiveInvariant, PTL DEF LaunchpadSpec

\* Every step of a behaviour is sound.
LEMMA StepsSound == LaunchpadSpec => [][Sound]_launchpadVars
  <1>1. IInv /\ [LaunchpadNext]_launchpadVars => [Sound]_launchpadVars
    BY NextInv
  <1> QED
    BY <1>1, InductiveInvariant, PTL DEF LaunchpadSpec

\* No order of buys and sells takes out of the pool more than it put in.
THEOREM ProductNeverFalls == LaunchpadSpec => KNeverFalls
  <1>1. [Sound]_launchpadVars =>
          [Launched => (account'.realSui + VirtualSui) * (account'.realToken + VirtualToken)
              >= (account.realSui + VirtualSui) * (account.realToken + VirtualToken)]_launchpadVars
    BY DEF Sound, Unharmed, Product
  <1> QED
    BY <1>1, StepsSound, PTL DEF KNeverFalls

\* The hire price is monotone in the NAV and in the revenue.
LEMMA HirePriceMono ==
    ASSUME NEW nav \in Nat, NEW nav2 \in Nat, nav <= nav2,
           NEW rev \in Nat, NEW rev2 \in Nat, rev <= rev2, NEW target \in Nat \ {0}
    PROVE  LET Bonus(r) == (r * BpsDenominator) \div target
               Mult(r) == BpsDenominator + (IF Bonus(r) > BpsDenominator
                                            THEN BpsDenominator ELSE Bonus(r))
           IN  (nav * Mult(rev)) \div BpsDenominator <= (nav2 * Mult(rev2)) \div BpsDenominator
  <1> DEFINE Bonus(r) == (r * BpsDenominator) \div target
             Mult(r) == BpsDenominator + (IF Bonus(r) > BpsDenominator
                                          THEN BpsDenominator ELSE Bonus(r))
  <1>1. /\ rev * BpsDenominator \in Nat /\ rev2 * BpsDenominator \in Nat
        /\ rev * BpsDenominator <= rev2 * BpsDenominator
    BY BpsAssumption, MulMono
  <1>2. Bonus(rev) \in Nat /\ Bonus(rev2) \in Nat /\ Bonus(rev) <= Bonus(rev2)
    BY <1>1, DivBounds, DivMono
  <1> HIDE DEF Bonus
  <1>3. Mult(rev) \in Nat /\ Mult(rev2) \in Nat /\ Mult(rev) <= Mult(rev2)
    BY <1>2, BpsAssumption
  <1> HIDE DEF Mult
  <1>4. nav * Mult(rev) <= nav2 * Mult(rev)
    BY <1>3, MulMono
  <1>5. Mult(rev) * nav2 <= Mult(rev2) * nav2
    BY <1>3, MulMono
  <1>6. /\ nav * Mult(rev) \in Nat /\ nav2 * Mult(rev2) \in Nat
        /\ nav * Mult(rev) <= nav2 * Mult(rev2)
    BY <1>3, <1>4, <1>5
  <1> QED
    BY <1>6, BpsAssumption, DivMono DEF Mult, Bonus

\* So a step that harms no account does not lower the price of its hire.
LEMMA HireKept ==
    ASSUME IInv, IInv', Unharmed, Launched
    PROVE  HirePrice' >= HirePrice /\ account'.navToken >= account.navToken
  <1>1. /\ account.navSui \in Nat /\ account'.navSui \in Nat
        /\ account.revenue \in Nat /\ account'.revenue \in Nat
        /\ account.credTarget \in Nat \ {0}
    BY DEF IInv, LaunchpadTypeOK, Account
  <1>2. /\ account.navSui <= account'.navSui /\ account.revenue <= account'.revenue
        /\ account'.credTarget = account.credTarget
        /\ account'.navToken >= account.navToken
    BY <1>1 DEF Unharmed
  <1> DEFINE Bonus(r) == (r * BpsDenominator) \div account.credTarget
             Mult(r) == BpsDenominator + (IF Bonus(r) > BpsDenominator
                                          THEN BpsDenominator ELSE Bonus(r))
  <1>3. (account.navSui * Mult(account.revenue)) \div BpsDenominator
           <= (account'.navSui * Mult(account'.revenue)) \div BpsDenominator
    BY <1>1, <1>2, HirePriceMono
  <1>4. /\ HirePrice = (account.navSui * Mult(account.revenue)) \div BpsDenominator
        /\ HirePrice' = (account'.navSui * Mult(account'.revenue)) \div BpsDenominator
    BY <1>2 DEF HirePrice, MultBps
  <1>5. HirePrice \in Int /\ HirePrice' \in Int
    BY <1>1, <1>2, BpsAssumption DEF HirePrice, MultBps
  <1> HIDE DEF Mult, Bonus
  <1> QED
    BY <1>2, <1>3, <1>4, <1>5

\* The price of an agent's hire never falls, whatever is traded, paid, burned or
\* set by the admin or the creator.
THEOREM HireNeverCheaper == LaunchpadSpec => HirePriceNeverFalls
  <1>1. IInv /\ [LaunchpadNext]_launchpadVars =>
          [Launched => HirePrice' >= HirePrice /\ account'.navToken >= account.navToken]_launchpadVars
    BY NextInv, HireKept DEF Sound
  <1> QED
    BY <1>1, InductiveInvariant, PTL DEF LaunchpadSpec, HirePriceNeverFalls

\* Lifetime revenue is never credited without the NAV getting its minimum share.
THEOREM CredAlwaysBacked == LaunchpadSpec => CredBacked
  <1>1. IInv /\ [LaunchpadNext]_launchpadVars =>
          [account'.revenue # account.revenue =>
              /\ account'.revenue > account.revenue
              /\ account'.navSui - account.navSui
                    >= FeeOn(account'.revenue - account.revenue, MinNavShare)]_launchpadVars
    <2> SUFFICES ASSUME IInv, [LaunchpadNext]_launchpadVars, account'.revenue # account.revenue
                 PROVE  /\ account'.revenue > account.revenue
                        /\ account'.navSui - account.navSui
                              >= FeeOn(account'.revenue - account.revenue, MinNavShare)
      OBVIOUS
    <2>1. IInv' /\ Sound
      BY NextInv
    <2>2. account.revenue \in Nat /\ account'.revenue \in Nat
      BY <2>1 DEF IInv, LaunchpadTypeOK, Account
    <2> QED
      BY <2>1, <2>2 DEF Sound, Unharmed, Credited
  <1> QED
    BY <1>1, InductiveInvariant, PTL DEF LaunchpadSpec, CredBacked

\* A creator's own payment never counts as revenue.
THEOREM CreatorEarnsNoCred == LaunchpadSpec => NoSelfCred
  <1>1. IInv /\ [LaunchpadNext]_launchpadVars =>
          [account'.revenue > account.revenue =>
              sui'[account.creator] >= sui[account.creator]]_launchpadVars
    <2> SUFFICES ASSUME IInv, [LaunchpadNext]_launchpadVars, account'.revenue > account.revenue
                 PROVE  sui'[account.creator] >= sui[account.creator]
      OBVIOUS
    <2>1. IInv' /\ Sound
      BY NextInv
    <2>2. account.revenue \in Nat /\ account'.revenue \in Nat
      BY <2>1 DEF IInv, LaunchpadTypeOK, Account
    <2> QED
      BY <2>1, <2>2 DEF Sound, Unharmed
  <1> QED
    BY <1>1, InductiveInvariant, PTL DEF LaunchpadSpec, NoSelfCred

\* While one of config and account is migrated and the other is not, no value
\* moves through the account.
THEOREM SkewFreezes == LaunchpadSpec => FrozenOnVersionSkew
  <1> DEFINE Still == /\ UNCHANGED <<sui, circulating>>
                      /\ \A f \in {"realSui", "realToken", "navSui", "navToken",
                                   "revenue", "totalSupply"} : account'[f] = account[f]
  <1>1. IInv /\ [LaunchpadNext]_launchpadVars =>
          [Launched /\ config.version # account.version => Still]_launchpadVars
    <2> SUFFICES ASSUME IInv, LaunchpadNext, Launched, config.version # account.version
                 PROVE  Still
      OBVIOUS
    <2>1. account \in Account /\ \A pv \in PackageVersions : ~ Accepts(pv)
      BY DEF IInv, LaunchpadTypeOK, Accepts
    <2>2. CASE ConfigNext /\ UNCHANGED <<account, sui, circulating>>
      BY <2>2
    <2>3. ASSUME NEW pv \in PackageVersions, NEW s \in Addr, LaunchpadStep(pv, s)
          PROVE  Still
      <3>1. ASSUME NEW id \in ObjectIds \cup {None},
                   SetLinkedIdentity(pv, s, id) \/ SetDwalletsObjectId(pv, s, id)
            PROVE  Still
        BY <2>1, <3>1 DEF SetLinkedIdentity, SetDwalletsObjectId, Account
      <3>2. ASSUME NEW u \in Thresholds, NEW b \in BOOLEAN, SetAccessConfig(pv, s, u, b)
            PROVE  Still
        BY <2>1, <3>2 DEF SetAccessConfig, Account
      <3>3. ASSUME NEW a \in CreatorChoices, SetCreator(pv, s, a)
            PROVE  Still
        BY <2>1, <3>3 DEF SetCreator, Account
      <3>4. ASSUME MigrateAccount(pv)
            PROVE  Still
        BY <2>1, <3>4 DEF MigrateAccount, Account
      <3>5. ~ \E id \in ObjectIds \cup {None} : LaunchAgentCoin(pv, s, id)
        BY DEF LaunchAgentCoin
      <3>6. /\ ~ \E n \in 1 .. sui[s], m \in MinOuts : Buy(pv, s, n, m)
            /\ ~ \E n \in 1 .. sui[s] : PayServiceSui(pv, s, n)
        BY <2>1 DEF Buy, PayServiceSui, RecordServicePaymentSui
      <3>7. /\ ~ \E n \in 1 .. circulating, m \in MinOuts : Sell(pv, s, n, m)
            /\ ~ \E n \in 1 .. circulating : RecordServicePaymentToken(pv, n)
        BY <2>1 DEF Sell, RecordServicePaymentToken
      <3> HIDE DEF Still
      <3> QED
        BY <2>3, <3>1, <3>2, <3>3, <3>4, <3>5, <3>6, <3>7, Zenon DEF LaunchpadStep
    <2> QED
      BY <2>2, <2>3 DEF LaunchpadNext
  <1> QED
    BY <1>1, InductiveInvariant, PTL DEF LaunchpadSpec, FrozenOnVersionSkew

\* The role of the admin changes hands only with the consent of both, and each
\* nomination is used once.
THEOREM AdminNeedsNomination == LaunchpadSpec => AdminHandover
  <1> DEFINE Handed == config.pendingAdmin = config'.admin /\ config'.pendingAdmin = None
  <1>1. IInv /\ [LaunchpadNext]_launchpadVars =>
          [config'.admin # config.admin => Handed]_launchpadVars
    <2> SUFFICES ASSUME IInv, LaunchpadNext, config'.admin # config.admin
                 PROVE  Handed
      OBVIOUS
    <2>1. config \in Config
      BY DEF IInv, LaunchpadTypeOK, ConfigTypeOK
    <2>2. ASSUME NEW pv \in PackageVersions, NEW s \in Addr, LaunchpadStep(pv, s)
          PROVE  UNCHANGED config
      BY <2>2 DEF LaunchpadStep, LaunchAgentCoin, SetLinkedIdentity, SetDwalletsObjectId,
                  Buy, PayServiceSui, RecordServicePaymentSui, Sell,
                  RecordServicePaymentToken, SetAccessConfig, SetCreator, MigrateAccount
    <2>3. ASSUME NEW pv \in PackageVersions, NEW s \in Addr, AdminStep(pv, s)
          PROVE  Handed
      <3>1. CASE AcceptAdmin(pv, s)
        BY <2>1, <3>1 DEF AcceptAdmin, Config
      <3>2. CASE ~ AcceptAdmin(pv, s)
        BY <2>1, <2>3, <3>2 DEF AdminStep, SetPlatformTreasury, ProposeAdmin, SetTradeShares,
             SetServiceShares, SetTokenServiceShares, SetTradeFeeBps, SetCredRevenueTarget,
             CancelPendingAdmin, MigrateConfig, Config
      <3> QED
        BY <3>1, <3>2
    <2> QED
      BY <2>2, <2>3 DEF LaunchpadNext, ConfigNext, Upgrade
  <1> QED
    BY <1>1, InductiveInvariant, PTL DEF LaunchpadSpec, AdminHandover

\* A buy moves the reserves to the tightest pair the product allows.
LEMMA BuyIsTight ==
    ASSUME NEW pv \in PackageVersions, NEW s \in Addr, NEW n \in 1 .. sui[s], NEW m,
           IInv, Buy(pv, s, n, m)
    PROVE  /\ (account'.realSui + VirtualSui) * (account'.realToken + VirtualToken - 1) < Product
           /\ account'.realToken <= account.realToken
  <1> DEFINE q == BuyQuote(n)
  <1>1. /\ account \in Account
        /\ sui \in [Addr -> Nat]
        /\ account.realSui \in Nat /\ account.realToken \in Nat
        /\ config.tradeFee \in 0 .. BpsDenominator
    BY LaunchedFacts DEF Buy
  <1>2. n \in Nat \ {0}
    BY <1>1
  <1>3. /\ account'.realSui = account.realSui + n - q.fee
        /\ account'.realToken = account.realToken - q.out
    BY <1>1 DEF Buy, Account
  <1>4. q.out \in Nat /\ q.fee \in 0 .. n
    BY <1>1, <1>2, LaunchpadAssumption, BuyKeepsProduct DEF BuyQuote
  <1>5. (account.realSui + n - q.fee + VirtualSui)
            * (account.realToken - q.out + VirtualToken - 1) < Product
    BY <1>1, <1>2, LaunchpadAssumption, BuyTight DEF BuyQuote, Product
  <1> HIDE DEF q
  <1>6. account'.realToken <= account.realToken
    BY <1>1, <1>3, <1>4
  <1> QED
    BY <1>3, <1>5, <1>6

\* And so does a sell.
LEMMA SellIsTight ==
    ASSUME NEW pv \in PackageVersions, NEW s \in Addr, NEW n \in 1 .. circulating, NEW m,
           IInv, Sell(pv, s, n, m)
    PROVE  /\ (account'.realSui + VirtualSui - 1) * (account'.realToken + VirtualToken) < Product
           /\ account'.realSui <= account.realSui
  <1> DEFINE q == SellQuote(n)
  <1>1. /\ account \in Account
        /\ circulating \in Nat
        /\ account.realSui \in Nat /\ account.realToken \in Nat
        /\ config.tradeFee \in 0 .. BpsDenominator
    BY LaunchedFacts DEF Sell
  <1>2. n \in Nat \ {0}
    BY <1>1
  <1>3. /\ account'.realSui = account.realSui - q.out - q.fee
        /\ account'.realToken = account.realToken + n
    BY <1>1 DEF Sell, Account
  <1>4. q.out \in Nat /\ q.fee \in Nat
    BY <1>1, <1>2, LaunchpadAssumption, SellKeepsProduct DEF SellQuote
  <1>5. (account.realSui - (q.out + q.fee) + VirtualSui - 1)
            * (account.realToken + n + VirtualToken) < Product
    BY <1>1, <1>2, LaunchpadAssumption, SellTight DEF SellQuote, Product
  <1> HIDE DEF q
  <1>6. account'.realSui = account.realSui - (q.out + q.fee)
    BY <1>1, <1>3, <1>4
  <1>7. account'.realSui <= account.realSui
    BY <1>1, <1>4, <1>6
  <1> QED
    BY <1>3, <1>5, <1>6, <1>7

\* No trade, at any fee and in any pool, costs the trader more than the remainder
\* of the one division it needs.
THEOREM TradesAlwaysTight == LaunchpadSpec => TradesAreTight
  <1> DEFINE Tight ==
        /\ account'.realSui > account.realSui =>
              (account'.realSui + VirtualSui) * (account'.realToken + VirtualToken - 1) < Product
        /\ account'.realToken > account.realToken =>
              (account'.realSui + VirtualSui - 1) * (account'.realToken + VirtualToken) < Product
  <1>1. IInv /\ [LaunchpadNext]_launchpadVars => [Launched => Tight]_launchpadVars
    <2> SUFFICES ASSUME IInv, LaunchpadNext, Launched
                 PROVE  Tight
      OBVIOUS
    <2>1. account \in Account /\ account.realSui \in Nat /\ account.realToken \in Nat
      BY DEF IInv, LaunchpadTypeOK, Account
    <2>2. ASSUME UNCHANGED <<account.realSui, account.realToken>>
          PROVE  Tight
      BY <2>1, <2>2
    <2>3. CASE ConfigNext /\ UNCHANGED <<account, sui, circulating>>
      BY <2>2, <2>3
    <2>4. ASSUME NEW pv \in PackageVersions, NEW s \in Addr, LaunchpadStep(pv, s)
          PROVE  Tight
      <3>1. ASSUME NEW n \in 1 .. sui[s], NEW m \in MinOuts, Buy(pv, s, n, m)
            PROVE  Tight
        <4>1. /\ (account'.realSui + VirtualSui) * (account'.realToken + VirtualToken - 1) < Product
              /\ account'.realToken <= account.realToken
          BY <3>1, BuyIsTight
        <4>2. account'.realToken \in Nat
          BY NextInv, <2>1 DEF IInv, LaunchpadTypeOK, Account
        <4> QED
          BY <2>1, <4>1, <4>2
      <3>2. ASSUME NEW n \in 1 .. circulating, NEW m \in MinOuts, Sell(pv, s, n, m)
            PROVE  Tight
        <4>1. /\ (account'.realSui + VirtualSui - 1) * (account'.realToken + VirtualToken) < Product
              /\ account'.realSui <= account.realSui
          BY <3>2, SellIsTight
        <4>2. account'.realSui \in Nat
          BY NextInv, <2>1 DEF IInv, LaunchpadTypeOK, Account
        <4> QED
          BY <2>1, <4>1, <4>2
      <3>3. CASE \E n \in 1 .. sui[s] : PayServiceSui(pv, s, n)
        BY <2>1, <2>2, <3>3 DEF PayServiceSui, RecordServicePaymentSui, Account
      <3>4. CASE \E n \in 1 .. circulating : RecordServicePaymentToken(pv, n)
        BY <2>1, <2>2, <3>4 DEF RecordServicePaymentToken, Account
      <3>5. CASE \E id \in ObjectIds \cup {None} :
                    SetLinkedIdentity(pv, s, id) \/ SetDwalletsObjectId(pv, s, id)
        BY <2>1, <2>2, <3>5 DEF SetLinkedIdentity, SetDwalletsObjectId, Account
      <3>6. CASE \E u \in Thresholds, b \in BOOLEAN : SetAccessConfig(pv, s, u, b)
        BY <2>1, <2>2, <3>6 DEF SetAccessConfig, Account
      <3>7. CASE \E a \in CreatorChoices : SetCreator(pv, s, a)
        BY <2>1, <2>2, <3>7 DEF SetCreator, Account
      <3>8. CASE MigrateAccount(pv)
        BY <2>1, <2>2, <3>8 DEF MigrateAccount, Account
      <3>9. ~ \E id \in ObjectIds \cup {None} : LaunchAgentCoin(pv, s, id)
        BY DEF LaunchAgentCoin
      <3> HIDE DEF Tight
      <3> QED
        BY <2>4, <3>1, <3>2, <3>3, <3>4, <3>5, <3>6, <3>7, <3>8, <3>9, Zenon DEF LaunchpadStep
    <2> QED
      BY <2>3, <2>4 DEF LaunchpadNext
  <1>2. [Launched => Tight]_launchpadVars =>
          [Launched =>
             /\ account'.realSui > account.realSui =>
                   (account'.realSui + VirtualSui) * (account'.realToken + VirtualToken - 1)
                      < (account.realSui + VirtualSui) * (account.realToken + VirtualToken)
             /\ account'.realToken > account.realToken =>
                   (account'.realSui + VirtualSui - 1) * (account'.realToken + VirtualToken)
                      < (account.realSui + VirtualSui) * (account.realToken + VirtualToken)]_launchpadVars
    BY DEF Product
  <1> QED
    BY <1>1, <1>2, InductiveInvariant, PTL DEF LaunchpadSpec, TradesAreTight

-----------------------------------------------------------------------------
\* The product a pool has with at least s and t, and what a pool with no less
\* product than that has left for its tokens.
LEMMA ValueStart ==
    ASSUME IInv, NEW s \in Nat, NEW t \in Nat, account.realSui >= s, account.realToken >= t
    PROVE  Product >= (s + VirtualSui) * (t + VirtualToken)
  <1> DEFINE S == account.realSui + VirtualSui
             T == account.realToken + VirtualToken
  <1>1. /\ S \in Nat /\ T \in Nat /\ s + VirtualSui \in Nat /\ t + VirtualToken \in Nat
        /\ s + VirtualSui <= S /\ t + VirtualToken <= T
    BY LaunchpadAssumption DEF IInv, LaunchpadTypeOK, Account
  <1> HIDE DEF S, T
  <1>2. (s + VirtualSui) * (t + VirtualToken) <= S * (t + VirtualToken)
    BY <1>1, MulMono
  <1>3. (t + VirtualToken) * S <= T * S
    BY <1>1, MulMono
  <1>4. S * T >= (s + VirtualSui) * (t + VirtualToken)
    BY <1>1, <1>2, <1>3
  <1> QED
    BY <1>4 DEF Product, S, T

LEMMA ValueEnd ==
    ASSUME IInv, NEW s \in Nat, NEW t \in Nat,
           Product >= (s + VirtualSui) * (t + VirtualToken), account.realToken <= t
    PROVE  account.realSui >= s
  <1> SUFFICES ASSUME ~ (account.realSui >= s)
               PROVE  FALSE
    OBVIOUS
  <1> DEFINE S == account.realSui + VirtualSui
             T == account.realToken + VirtualToken
  <1>1. /\ S \in Nat /\ T \in Nat \ {0} /\ s + VirtualSui \in Nat /\ t + VirtualToken \in Nat
        /\ S + 1 <= s + VirtualSui /\ T <= t + VirtualToken
    BY LaunchpadAssumption DEF IInv, LaunchpadTypeOK, Account
  <1>2. S * T >= (s + VirtualSui) * (t + VirtualToken)
    BY DEF Product
  <1> HIDE DEF S, T
  <1>3. (S + 1) * T <= (s + VirtualSui) * T
    BY <1>1, MulMono
  <1>4. T * (s + VirtualSui) <= (t + VirtualToken) * (s + VirtualSui)
    BY <1>1, MulMono
  <1> QED
    BY <1>1, <1>2, <1>3, <1>4

\* No step lowers the product.
LEMMA ValueStep ==
    ASSUME IInv, IInv', Unharmed, NEW s \in Nat, NEW t \in Nat,
           Product >= (s + VirtualSui) * (t + VirtualToken)
    PROVE  (Product >= (s + VirtualSui) * (t + VirtualToken))'
  <1>1. Product \in Nat /\ Product' \in Nat /\ (s + VirtualSui) * (t + VirtualToken) \in Nat
    BY LaunchpadAssumption DEF IInv, LaunchpadTypeOK, Account, Product
  <1>2. Product' >= Product
    BY DEF Unharmed
  <1> QED
    BY <1>1, <1>2

\* The tokens are the claim on the pool's SUI: from any state on, and whatever
\* is called by whomever after it, the pool has less SUI than it had only while
\* it has more tokens.  So nobody can buy and sell his way to a gain, alone or
\* with others, across any changes of the fee.
THEOREM PoolKeepsItsValue ==
    ASSUME NEW s \in Nat, NEW t \in Nat
    PROVE  LaunchpadSpec =>
             [](account.realSui >= s /\ account.realToken >= t
                  => [](account.realToken <= t => account.realSui >= s))
  <1> DEFINE Start == account.realSui >= s /\ account.realToken >= t
             Held  == Product >= (s + VirtualSui) * (t + VirtualToken)
             End   == account.realToken <= t => account.realSui >= s
  <1>1. IInv /\ Start => Held
    BY ValueStart
  <1>2. IInv /\ Held => End
    BY ValueEnd
  <1>3. IInv /\ Held /\ [LaunchpadNext]_launchpadVars => Held'
    BY NextInv, ValueStep DEF Sound
  <1> HIDE DEF Start, Held, End
  <1>4. LaunchpadSpec => [](Start => []End)
    BY <1>1, <1>2, <1>3, InductiveInvariant, PTL DEF LaunchpadSpec
  <1> QED
    BY <1>4 DEF Start, End

\* After the launch nothing mints: the supply only falls, and only by tokens that
\* leave circulation with it, so the pool, the token NAV and the locked reserve
\* are never burned.
THEOREM SupplyOnlyBurns ==
    LaunchpadSpec =>
        [][Launched => /\ account'.totalSupply <= account.totalSupply
                       /\ account'.totalSupply # account.totalSupply =>
                             /\ account'.realToken = account.realToken
                             /\ account.totalSupply - account'.totalSupply
                                   <= circulating - circulating']_launchpadVars
  <1> DEFINE Burns ==
        /\ account'.totalSupply <= account.totalSupply
        /\ account'.totalSupply # account.totalSupply =>
              /\ account'.realToken = account.realToken
              /\ account.totalSupply - account'.totalSupply <= circulating - circulating'
  <1>1. IInv /\ [LaunchpadNext]_launchpadVars => [Launched => Burns]_launchpadVars
    <2> SUFFICES ASSUME IInv, LaunchpadNext, Launched
                 PROVE  Burns
      OBVIOUS
    <2>1. account \in Account /\ account.totalSupply \in Nat /\ circulating \in Nat
      BY DEF IInv, LaunchpadTypeOK, Account
    <2>2. ASSUME account'.totalSupply = account.totalSupply
          PROVE  Burns
      BY <2>1, <2>2
    <2>3. CASE ConfigNext /\ UNCHANGED <<account, sui, circulating>>
      BY <2>2, <2>3
    <2>4. ASSUME NEW pv \in PackageVersions, NEW s \in Addr, LaunchpadStep(pv, s)
          PROVE  Burns
      <3>1. CASE \E n \in 1 .. sui[s], m \in MinOuts : Buy(pv, s, n, m)
        BY <2>1, <2>2, <3>1 DEF Buy, Account
      <3>2. CASE \E n \in 1 .. circulating, m \in MinOuts : Sell(pv, s, n, m)
        BY <2>1, <2>2, <3>2 DEF Sell, Account
      <3>3. CASE \E n \in 1 .. sui[s] : PayServiceSui(pv, s, n)
        BY <2>1, <2>2, <3>3 DEF PayServiceSui, RecordServicePaymentSui, Account
      <3>4. ASSUME NEW n \in 1 .. circulating, RecordServicePaymentToken(pv, n)
            PROVE  Burns
        <4> DEFINE split == ComputeSplit(n, config.tokenServiceShares)
        <4>1. n \in Nat /\ account.realToken \in Nat
          BY <2>1 DEF Account
        <4>2. /\ split.nav \in Nat /\ split.creator \in Nat /\ split.rest \in Nat
              /\ split.nav + split.creator + split.rest = n
          BY <4>1, ConfigFacts, SplitExact DEF IInv
        <4>3. /\ account'.totalSupply = account.totalSupply - split.rest
              /\ account'.realToken = account.realToken
              /\ circulating' = circulating - n + split.creator
          BY <2>1, <3>4 DEF RecordServicePaymentToken, Account
        <4> HIDE DEF split
        <4> QED
          BY <2>1, <4>1, <4>2, <4>3
      <3>5. CASE \E id \in ObjectIds \cup {None} :
                    SetLinkedIdentity(pv, s, id) \/ SetDwalletsObjectId(pv, s, id)
        BY <2>1, <2>2, <3>5 DEF SetLinkedIdentity, SetDwalletsObjectId, Account
      <3>6. CASE \E u \in Thresholds, b \in BOOLEAN : SetAccessConfig(pv, s, u, b)
        BY <2>1, <2>2, <3>6 DEF SetAccessConfig, Account
      <3>7. CASE \E a \in CreatorChoices : SetCreator(pv, s, a)
        BY <2>1, <2>2, <3>7 DEF SetCreator, Account
      <3>8. CASE MigrateAccount(pv)
        BY <2>1, <2>2, <3>8 DEF MigrateAccount, Account
      <3>9. ~ \E id \in ObjectIds \cup {None} : LaunchAgentCoin(pv, s, id)
        BY DEF LaunchAgentCoin
      <3> HIDE DEF Burns
      <3> QED
        BY <2>4, <3>1, <3>2, <3>3, <3>4, <3>5, <3>6, <3>7, <3>8, <3>9, Zenon DEF LaunchpadStep
    <2> QED
      BY <2>3, <2>4 DEF LaunchpadNext
  <1> QED
    BY <1>1, InductiveInvariant, PTL DEF LaunchpadSpec
=============================================================================
