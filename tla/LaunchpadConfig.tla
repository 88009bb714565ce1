-------------------------- MODULE LaunchpadConfig --------------------------
(***************************************************************************)
(* The shared LaunchpadConfig object of move/sources/launchpad.move: who   *)
(* administers the launchpad, the fee shares every trade and payment uses, *)
(* and the schema version that gates every call.                           *)
(*                                                                         *)
(* A published Move package stays callable after an upgrade, so a call is  *)
(* made against some package version pv, at most the newest one published, *)
(* and pv is what the code calls CURRENT_VERSION.                          *)
(***************************************************************************)
EXTENDS Fees

CONSTANTS
    Addr,             \* transaction senders
    None,             \* no pending admin, no linked object
    Publisher,        \* the address that publishes the package
    MaxVersion,       \* package versions ever published (a bound)
    MinNavShare, MinCreatorShare, MaxTradeFee,
    DefaultTradeFee, DefaultTradeShares, DefaultServiceShares,
    DefaultTokenServiceShares, DefaultCredTarget,
    AddressChoices,   \* addresses an admin nominates or pays to
    ShareChoices,     \* share triples an admin tries to set
    FeeChoices,       \* trade fees an admin tries to set
    CredTargetChoices \* cred targets an admin tries to set

VARIABLES
    published,        \* newest package version on chain
    config            \* the LaunchpadConfig object

ShareTriple == [nav : Nat, creator : Nat, rest : Nat]

\* The three assertions of set_trade_shares, set_service_shares and
\* set_token_service_shares.
ValidShares(s) ==
    /\ s.nav + s.creator + s.rest = BpsDenominator
    /\ s.nav >= MinNavShare
    /\ s.creator >= MinCreatorShare

ASSUME ConfigAssumption ==
    /\ None \notin Addr
    /\ Publisher \in Addr
    /\ MaxVersion \in Nat \ {0}
    /\ MinNavShare \in Nat /\ MinCreatorShare \in Nat
    /\ MaxTradeFee \in 1 .. BpsDenominator
    /\ DefaultTradeFee \in 1 .. MaxTradeFee
    /\ DefaultCredTarget \in Nat \ {0}
    /\ AddressChoices \subseteq Addr
    /\ ShareChoices \subseteq ShareTriple
    /\ FeeChoices \subseteq Nat
    /\ CredTargetChoices \subseteq Nat
    /\ \A s \in {DefaultTradeShares, DefaultServiceShares, DefaultTokenServiceShares} :
            s \in ShareTriple /\ ValidShares(s)

ConfigInit ==
    /\ published = 1
    /\ config = [version |-> 1, admin |-> Publisher, pendingAdmin |-> None,
                 platformTreasury |-> Publisher, tradeFee |-> DefaultTradeFee,
                 tradeShares |-> DefaultTradeShares,
                 serviceShares |-> DefaultServiceShares,
                 tokenServiceShares |-> DefaultTokenServiceShares,
                 credTarget |-> DefaultCredTarget]

PackageVersions == 1 .. published

\* The two assertions every admin setter starts with.
AdminCall(pv, sender) == config.version = pv /\ sender = config.admin

SetPlatformTreasury(pv, sender, newTreasury) ==
    /\ AdminCall(pv, sender)
    /\ config' = [config EXCEPT !.platformTreasury = newTreasury]

SetTradeShares(pv, sender, shares) ==
    /\ AdminCall(pv, sender)
    /\ ValidShares(shares)
    /\ config' = [config EXCEPT !.tradeShares = shares]

SetServiceShares(pv, sender, shares) ==
    /\ AdminCall(pv, sender)
    /\ ValidShares(shares)
    /\ config' = [config EXCEPT !.serviceShares = shares]

SetTokenServiceShares(pv, sender, shares) ==
    /\ AdminCall(pv, sender)
    /\ ValidShares(shares)
    /\ config' = [config EXCEPT !.tokenServiceShares = shares]

SetTradeFeeBps(pv, sender, bps) ==
    /\ AdminCall(pv, sender)
    /\ bps > 0
    /\ bps <= MaxTradeFee
    /\ config' = [config EXCEPT !.tradeFee = bps]

SetCredRevenueTarget(pv, sender, target) ==
    /\ AdminCall(pv, sender)
    /\ target > 0
    /\ config' = [config EXCEPT !.credTarget = target]

ProposeAdmin(pv, sender, newAdmin) ==
    /\ AdminCall(pv, sender)
    /\ config' = [config EXCEPT !.pendingAdmin = newAdmin]

\* Mutant: the nomination is not used up.
AcceptAdminAgain(pv, sender) ==
    /\ config.version = pv
    /\ sender = config.pendingAdmin
    /\ config' = [config EXCEPT !.admin = sender]

AcceptAdmin(pv, sender) ==
    /\ config.version = pv
    /\ config.pendingAdmin # None
    /\ sender = config.pendingAdmin
    /\ config' = [config EXCEPT !.admin = config.pendingAdmin, !.pendingAdmin = None]

CancelPendingAdmin(pv, sender) ==
    /\ AdminCall(pv, sender)
    /\ config' = [config EXCEPT !.pendingAdmin = None]

MigrateConfig(pv, sender) ==
    /\ sender = config.admin
    /\ config.version < pv
    /\ config' = [config EXCEPT !.version = pv]

\* A package upgrade raises CURRENT_VERSION; it is made with the UpgradeCap,
\* outside this package.
Upgrade ==
    /\ published < MaxVersion
    /\ published' = published + 1
    /\ UNCHANGED config

AdminStep(pv, sender) ==
    \/ \E a \in AddressChoices : \/ SetPlatformTreasury(pv, sender, a)
                                \/ ProposeAdmin(pv, sender, a)
    \/ \E s \in ShareChoices : \/ SetTradeShares(pv, sender, s)
                               \/ SetServiceShares(pv, sender, s)
                               \/ SetTokenServiceShares(pv, sender, s)
    \/ \E b \in FeeChoices : SetTradeFeeBps(pv, sender, b)
    \/ \E t \in CredTargetChoices : SetCredRevenueTarget(pv, sender, t)
    \/ AcceptAdmin(pv, sender)
    \/ CancelPendingAdmin(pv, sender)
    \/ MigrateConfig(pv, sender)

ConfigNext ==
    \/ \E pv \in PackageVersions, sender \in Addr : AdminStep(pv, sender) /\ UNCHANGED published
    \/ Upgrade

-----------------------------------------------------------------------------
Config ==
    [version : 1 .. MaxVersion, admin : Addr, pendingAdmin : Addr \cup {None},
     platformTreasury : Addr, tradeFee : 1 .. MaxTradeFee,
     tradeShares : ShareTriple, serviceShares : ShareTriple,
     tokenServiceShares : ShareTriple, credTarget : Nat \ {0}]

ConfigTypeOK ==
    /\ published \in 1 .. MaxVersion
    /\ config \in Config
    /\ config.version <= published

\* No sequence of admin calls, by whichever admin and package version, leaves
\* a split that starves the NAV or the creator or fails to add up
\* (launchpad.move, "Prevents the admin from starving any one party").
SharesSafe ==
    /\ ValidShares(config.tradeShares)
    /\ ValidShares(config.serviceShares)
    /\ ValidShares(config.tokenServiceShares)
=============================================================================
