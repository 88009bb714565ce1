# Tai Launchpad: specifications, model checks and proofs

This directory holds TLA+ specifications of the Tai Launchpad: the Move
contracts under `move/sources` (bonding curve, launchpad account, agent
treasury, work-order escrow, market-making vault), the two example agents
that sell work for on-chain payments (`examples/cloudflare-agent`,
`examples/sovereign-agent`) and the dashboard (`app`) that reads, pays and
trades on behalf of people. TLC checks them on small instances; TLAPS proves,
for every value of the constants, all but one of the safety properties that TLC
checks, and that the escrow and the operators' caps of the code implement the
abstract ones, the escrow in a world in which anybody makes any call.

Paths below are relative to the repository root.

## 1. Inventory

| Component | State | Operations | What makes it correct | Hard because |
|---|---|---|---|---|
| Bonding curve (`bonding_curve.move`) | none | `compute_buy`, `compute_sell` | both divisions round against the trader; the assertions never stop a holder | rounding over long mixes of trades |
| Fee split (`fees.move`) | none | `compute_split`, `distribute_sui` | the three parts are exact | shares on the boundary |
| Config and admin (`launchpad.move`) | shares, fee, cred target, admin, pending admin, version | six setters, two-step admin transfer, `migrate_config` | shares stay valid; the role passes only to an open nominee | orders of calls across hand-overs and upgrades |
| Launchpad account (`launchpad.move`) | pool, NAV in SUI and tokens, revenue, creator, TreasuryCap, version | `launch_agent_coin`, `buy`, `sell`, two service payments, creator setters, `migrate_account` | solvency, conservation, cred is backed, hire price never falls, frozen while versions differ | all callers share one object; admin and creator change under it |
| Views (`views.move`) | none | `effective_hire_price`, `hire_quote` | as above | |
| Agent treasury and caps (`agent_treasury.move`) | two balances, active caps; per cap: limits, spent, day, allowlist, expiry | owner withdraws, anybody tops up or claims, three operator spends; issue, edit, revoke | no cap takes out more than its daily limits; a dead cap takes nothing | day rollover, shared day counter, revocation racing spends |
| Work orders (`work_order.move`) | status, locked SUI, deadline, window, receipt time | create, accept and submit (three variants each), release, refund, dispute, resolve | each order pays once, whole, for an admitted reason; nothing stays locked | six kinds of actors, the clock, and the account's versions |
| MM vault (`mm_vault.move`) | reserve, shares, epoch | deposit, withdraw, strike | positions are always redeemable | rounding, virtual offset |
| Paid endpoints (`cloudflare-agent`, `sovereign-agent`) | KV of used payments; per form: price, digest | `/hire`, `/promote`; the form's ping, payment and post (`CommandRunner.tsx`) | one payment, one piece of work; no honest payer locked out | requests interleave at every await; cut-off requests; expiring keys |
| Ecosystem feed, daily digest (`cloudflare-agent`) | KV of seen events, bootstrap flag, day of the last digest | cron tick | each event announced once, no backlog announced, none forgotten; one digest a day | failing queries, posts and puts; ticks cut off half-way |
| Dashboard RPC cache (`lib/sui.ts`) | entries, requests in flight | read, fail over, prune | answers are young; a reader never goes back within one lifetime | joined requests, slow nodes, a fallback that is behind |
| Dashboard pages (`lib/tai.ts`, `lib/standing.ts`, `page.tsx`) | none; the browser keeps the last render | agent, directory, network; refresh | nothing is missing, ranked, cautioned about or called live without a reason | one page shows several instants; each read may fail or be cut short |
| Trade form (`TradeForm.tsx`) | rendered reserves, polled balances, open submissions | type, poll, switch wallet, submit | filled as shown or refused; a quiet pool refuses nothing it can pay for, if the form found the coins | pool, fee and wallet change under it; a sale is built from one page of coins |
| Work-order page (`work/[id]`, `WorkOrderActions.tsx`, `runEscrow`) | a copy of the order, the browser's clock | five buttons, commissioning | buttons are the contract's rules; a click acts on what was seen | stale copy, wrong clock, other callers |
| `/work/accept`, `/work/submit` (`sovereign-agent`) | none | build, sign and execute one call | a receipt is delivered once | no idempotency; effects are never read |
| `tai-core`, `tai-cli`, `tai-mcp`, DeepBook agent | none persistent | build, sign and execute one transaction; `tai launch` does two | | lost answers, stale quotes, a crash between two transactions |

**How they interact.** A release or a dispute decided for the payee
(`work_order`) is a call of `launchpad::record_service_payment_sui`; the
launchpad calls `bonding_curve`, `fees` and, at launch, `agent_treasury`; the
`_v2` operator calls of `work_order` read the treasury's active caps. The
config and the account are separate shared objects with a version each, which
are migrated in separate transactions. The example agents read payments from
chain events and share a KV namespace between their requests; the feed reads
events of all contracts. A Move call is one atomic transaction, so a step of a
contract module is one call. An await of a worker is a point where anything
else may happen, so a step of an agent module reaches to the next await. The
dashboard's server reads the chain through one cache; its pages are rendered
from such reads and refreshed every 15 or 20 s, and its forms, in the browser,
sign calls of the launchpad and the work orders from what was rendered. The
pay-and-run form pays on chain and then posts the digest to Larry's `/hire`.

## 2. Modules

| Module | Models | Notes |
|---|---|---|
| `BondingCurve` | `bonding_curve.move` | results carry an `ok` field for the overflow assertions |
| `Fees` | `fees.move` | `DistributeSui` on wallets |
| `LaunchpadConfig` | config part of `launchpad.move` | `published` is the newest package version; every earlier one stays callable |
| `Launchpad` | account part of `launchpad.move`, `views.move` | EXTENDS `LaunchpadConfig`; one account |
| `OperatorCaps` | caps of `agent_treasury.move`, the clock | shared by the next two |
| `Allowance` | the abstract promise of operator caps: so much a day | no counters, rollovers, balances or allowlists |
| `AgentTreasury` | the rest of `agent_treasury.move` | EXTENDS `OperatorCaps`; implements `Allowance` |
| `Escrow` | the abstract promise of an escrow | no accounts, caps, clock or versions |
| `WorkOrder` | `work_order.move` | EXTENDS `Launchpad` and `OperatorCaps`; implements `Escrow` |
| `MMVault` | `mm_vault.move` | |
| `PaymentGate` | what both agents share: payments, claims in KV, request bookkeeping | |
| `LarryHire`, `SovereignHire` | the handlers of each agent | EXTEND `PaymentGate` |
| `PaidEndpoints` | either worker, deployed over `PaymentGate` | INSTANCEs both |
| `CommandForm` | pay and run of `CommandRunner.tsx` | EXTENDS `PaidEndpoints`; Larry only, as the form is configured |
| `EcosystemFeed`, `DailyDigest` | the two jobs of a cron tick | ticks may overlap |
| `CronTick` | `scheduled()` | EXTENDS both; a behaviour follows one of them, since neither reads what the other writes |
| `RpcCache` | `lib/sui.ts` | readers, one request per key in flight, nodes that lag |
| `Standing` | the arithmetic of `lib/tai.ts` and `lib/standing.ts` | pure |
| `AgentPage` | the reads of the live pages and what they show | EXTENDS `Standing`; the chain is a log of events |
| `TradeForm` | `TradeForm.tsx` | EXTENDS `Launchpad`: a fill is its `Buy` or `Sell` |
| `Dashboard` | cache, pages and form | EXTENDS the three; each relies on its neighbour only through a bound (`AgeLimit`, `MaxAge`) or not at all, so a behaviour runs one of them |
| `OrderClients` | work-order page, `runEscrow`, the sovereign agent's work endpoints | EXTENDS `WorkOrder`: every call is one of its actions |
| `CurveProofs`, `LaunchpadProofs`, `TreasuryProofs`, `EscrowProofs`, `VaultProofs`, `GateProofs`, `FeedProofs`, `DashboardProofs` | proofs | see section 5 |
| `MC*` | constants for TLC that a .cfg cannot write | |

Definitions keep the names of the code (`RecordServicePaymentSui` is
`record_service_payment_sui`). An abort is an action that is not enabled: a
Move transaction that aborts changes nothing. Operators marked *Mutant* are
not part of the specification; each is a slip somebody might make in the code,
and a property above that slip would fail.

### Abstractions

- **`pv`.** A deployed package has its own `CURRENT_VERSION`, and after an
  upgrade the old package can still be called. Every versioned action takes the
  version `pv` of the package it is called through.
- **Coins.** `Coin<T>` objects are bearer instruments; all outside the account
  are one number, `circulating`, and in `TradeForm` one number for each address. What
  the form sells from is the one page of coins its `getCoins` answers with: the
  worth of that page is any part of what the wallet holds (`CoinsListed`). SUI is kept per address, since fees are paid
  to addresses. `account.totalSupply` is the supply in the wrapped TreasuryCap.
- **Left out:** statistics counters that no call reads (`total_buys`,
  `cumulative_volume_sui` ...), events, hashes, URLs, Display templates. The
  type parameter `T` ties account, treasury and caps of one agent together, so
  assertions that compare their ids hold of every call that type-checks, in an
  instance with one agent.
- **Scale.** `BpsDenominator` stands for 10 000 and `MaxU64` for 2^64 - 1; both
  are constants. The u128 intermediates of the code cannot overflow for u64
  inputs, so integers are unbounded there. `MaxU64` bounds what is asserted to
  be a u64: quotes and lifetime revenue.
- **KV.** Gets see every put and delete that has returned. Workers KV promises
  less (see hazards); properties that fail here fail there too.
- **Clocks** of the agents, of the dashboard's server and of the chain are one clock.
- **Expiry.** `ClaimTtl > Freshness + RequestLimit` is an assumption: 604 800 s
  against 600 s and the platform's limit on a request.
- **History variables** (`outflow`, `channel`, `unmarked`, `backlog`, `missed`,
  `digests`, `ticked`, `faulty`, `crossed`, `abandoned`, `contended`, and the fields `disputed`,
  `settledBy`, `settledAt` of an order) record facts for the
  properties; no guard reads them.
- **`LaunchpadEnv`** of `WorkOrder` leaves out trades and direct payments: no
  work-order call reads what they change. Nothing is lost by it: the theorems about
  orders are of `WorldSpec`, which has every call of the launchpad
  (`RunsAreInTheWorld`).
- **Profit and loss of the vault.** `Vault.deployed` is only ever 0 and nothing
  but deposit and withdraw moves the reserve, so the vault is always at par. Its share
  arithmetic away from par, which the trading part will need, no run reaches;
  the theorems of `VaultProofs` are about it.
- **A page's reads.** Each answers with the log as of an instant of its own, at
  most `MaxAge` before the render began, or fails. Every event moves one unit.
  One package lineage: the swallowed failure of another lineage's query takes
  nothing from an agent of this one. Of treasury, config and display only
  whether they answered matters to what is checked.
- **Clocks of browsers** are off by a constant (`Skews`), in `OrderClients` and in
  `AgentPage`, where the live mark subtracts the server's stamp from the browser's
  clock (`Live`).
- **A wallet** signs, refuses, or reports an error; after an error the
  transaction may have executed (`WalletFails`) or not. In `TradeForm` and
  `OrderClients`, where nothing is done with the digest, an execution that is
  reported as an error is an execution.
- **The spec's text** (`serializeEscrowSpec`, receipts, hashes) is left out; a
  text that is too long aborts before anything is signed.

## 3. Runs

Passing runs:

| Run | Question | Bounds |
|---|---|---|
| `Launchpad_trading` | solvency, conservation, product, tight rounding, hire price, cred, with three addresses trading and paying in any order while fee, target and creator change | pool of 4 tokens with reserves 3 and 2, 2 fees (a quarter and a half), no upgrade |
| `Launchpad_admin` | the version freeze, the admin hand-over | two addresses, two package versions, valid and invalid shares |
| `AgentTreasury` | the daily budget; implements `Allowance`, so a dead cap takes nothing | two caps, 3 instants over 2 days, allowlists of size 0, 1 and (refused) 2 |
| `WorkOrder_safety` | settled once, in full and for an admitted reason; orders only go forward, on the terms they were opened on; money of two orders never mixes; implements `Escrow` | two orders, three addresses, one cap, deadlines, windows and amounts on both sides of their limits |
| `WorkOrder_liveness` | no money stays locked | one order, an upgrade, a change of admin, all windows can run out |
| `MMVault` | a redemption of shares somebody holds never aborts | three positions, 14 units |
| `PaidEndpoints` | one payment, one piece of work; what a claim stands for, for either agent; whoever pays through the form is served | three requests on one digest, interleaved at every await, two routes, prices below, at and above the floors (4 and 5), time to claim, expire and claim again |
| `CronTick` | repeated, early and missing announcements and digests need a fault or an overlap; nothing postable is forgotten | two ticks at a time, two kinds, two events, window and cap 1, two faults; four days, one fault of the digest |
| `Dashboard` | how old and how consistent an answer is; what a page leaves out and claims; what a trade yields | cache: one key, two readers, two nodes with the fallback two instants behind, six instants; page: two agents, three events, four instants, browser off by -1 or 1, queries of one or two; payers and readers are symmetric; form: pool of 4 tokens, one submission, one poll, three moves of others |
| `OrderClients` | what a page offers and what a click does; receipts stand | one order, two addresses, one cap, browser off by -1, 0 or 1, two requests to the agent, one click, deadline 2, window 1, three instants |

Four properties of these modules are proved and no run repeats them: `SharesSafe`
and `CoinsConserved`, which each single call keeps; `PoolInv`, the strengthening
from which `Solvent` follows; and `DeadCapsStayDead`, which `ImplementsAllowance`
contains.

**Why the bounds are enough.** The curve rounds differently in nearly every
state already with reserves below 10: floor in place of ceiling breaks
`Solvent` and `KNeverFalls` in a few steps, and the proofs cover all sizes. Two
caps are what the active set and the shared day counter can tell apart; three
addresses are buyer, creator and anybody else. Two orders are enough for one to
disturb another; for liveness one suffices, since no call of one order disables
a call of another. One digest with three requests covers: one that is served,
one that fails, and one that profits from it. The feed's window and cap are 1,
so a second event of a kind pushes one out and a second post in a tick is over
the cap. A directory query of one launch or one order is overrun by two agents.
The tape's query of two events of a type is not overrun in the run: the first of
three events is always a launch, and a fourth event is beyond TLC here. That the
tape may lose events is covered by `ListingsAlwaysExplained` and
`CautionAlwaysExplained`, which are about any log and any limit. Two readers are one
who starts a request and one who joins it or finds its answer; two nodes are the
primary and the fallback. One click against two requests of the agent and every
other caller covers what a stale page can meet; a second click would start from
a copy as free as the first.

**Deadlock.** `CHECK_DEADLOCK FALSE` is set where a behaviour really stops: the
clock reached `MaxTime` or all requests, orders and events are used up. It is
on in the launchpad and vault runs.

**Fairness.** Safety runs assume none. `WorkOrder_liveness` assumes that the
clock advances, that a buyer takes back what it may, that somebody finalises
what anybody may finalise (the call is permissionless), that the admin decides
disputes and that stale objects are migrated; it assumes nothing of the payee,
of revocations or hand-overs. The admin part is a promise of an operator and
not of the code: without it a disputed order stays locked, as the code has no
timeout for disputes. `CronTick` assumes that the cron fires again and a tick
that is not cut off runs to its end; faults are finitely many.

Violation runs, each showing that a document or comment says one thing and the
code does another (the quotes are in `PROJECT.json`):

| Run | Statement | What the code does |
|---|---|---|
| `WorkOrder_cred` | comment: the buyer is the payer of a release | the sender is: a creator who finalises earns no cred for a stranger's order, and a release by others counts even when the buyer is the creator |
| `PaidEndpoints_overlap` | README: a receipt is single-use | two overlapping requests are both answered |

Smaller disagreements between text and code, seen while modelling and visible
in the definitions named, without a run of their own:

- `SPEC.md:436` floors the new SUI total of a sell; `SellGross` and
  `bonding_curve.move:98` round it up, in the pool's favour.
- `SPEC.md:781` says the allowlist caps an operator's destination;
  `OperatorSpendSuiCoin` (`agent_treasury.move:476`) has no destination to check.
- `SPEC.md:250` says a revoked cap aborts; the deprecated `AcceptWithOperator`
  (`work_order.move:315`) and `SubmitReceiptWithOperator` check the cap's expiry
  only, and take a revoked one. What is accepted with it is bound by
  `SettlementJustified` like any other order.
- `SPEC.md:802` says every entry asserts versions; `ResolveForBuyer`
  (`work_order.move:620`) asserts none.
- `mm_vault.move:142` says that the virtual offset keeps a payout within the
  reserve. Below par the offset would do the opposite: `AssetsFor` may then ask
  for more than the reserve has. Payouts are covered because nothing takes the vault below
  par (`PayoutWithinReserve`, `WithdrawalsAlwaysPaid`).
- `feed.ts:112` says only new events are announced; `CollectFails` at bootstrap
  lets a kind's backlog through, which is what `BacklogExplained` excuses.
- `feed.ts:78` caps the posts of a tick; `MarkFails` and `SendAnswerLost` do not
  count the post that went out.
- The agent's README promises one digest a day; a tick that fails between
  `Post` and `Mark` posts another, which is what `DigestsExplained` excuses.
- `sui.ts:19` says a call fails fast after `RPC_TIMEOUT_MS`; the timer is cleared
  when the headers arrive, so a body that stalls is not covered (`Headers`,
  `BodyLimit`). The cache may exceed `RPC_CACHE_MAX` while its entries are live.
- `network/page.tsx:69` says "served fresh from Sui RPC, never cached" and line
  248 "at the moment the page rendered"; reads come from a cache of 5 s.
- `agent/[id]/page.tsx:51` says a snapshot failure means that the agent does not
  exist; any RPC failure of account, treasury or config does the same
  (`ShowNotFound`), and that page does not refresh itself.
- A failed query is shown as an empty list ("no agents yet", "no work orders
  yet"), and `tai.ts:718` says "every work-order ever created" of the newest 50
  of each package; `ListingsExplained` names both.
- `TradeForm.tsx:193` says that a sale finds the wallet's coins and merges them into
  one; it merges one page of them (`CoinsListed`), while the balance and "max" count
  all, so a sale that the balance covers may be refused.
- `LivePulse.tsx:6` says that it shows the age of the last snapshot; it shows the
  difference of two clocks, the browser's and the server's (`Live`), so a browser
  that is behind calls an old page live for as long as it is behind.
- `ActivityFeed.tsx` labels every payment that does not count as the creator's
  own; payments in tokens and releases finalised by the creator do not count
  either.
- `agent/[id]/page.tsx:363` says the hire price is enforced on chain; the contract
  takes any amount, and `CommandForm` lets a price below Larry's floor be paid.
- `agent/[id]/page.tsx:374` says "1% fee"; `Rendered` has the fee of the config.
- `standing.ts` says a market pump moves standing only reversibly; trade fees
  raise NAV for good (`DistributeSui`).
- `WorkOrderActions.tsx:301` and the work page call a dispute terminal, and the
  page's lifecycle shows "released" as reached; the admin still resolves it,
  which `Hints` says.
- `CommandRunner.tsx:152` surfaces the digest "so the payer has proof" and cuts
  it to ten characters; after a wallet error (`WalletFails`) there is none, and
  though Larry gives up its claim "so an honest payer can retry", the form cannot.
- The sovereign agent answers with a digest "on success" of calls that aborted,
  too (`NothingDone`), and its `/hire` takes other field names than the form
  sends.

## 4. Properties worth a second look

- `Solvent` quantifies over every amount a holder could sell now; it is not an
  invariant one can see from the guards of `sell`, which would simply abort.
- `TradesAreTight` is the other side of `KNeverFalls`: rounding is for the pool,
  but never by more than the division needs. A curve that keeps one unit even where nothing remains
  (the mutant) is solvent and never loses product.
- `CredBacked` relates each growth of lifetime revenue to the growth of NAV
  under whatever shares are set, and `HirePriceNeverFalls` follows from the
  snapshot of the cred target at launch (the mutant reads the live one).
- `DailyBudgetKept` is about money that left, kept in a history variable, and
  not about the counters on the cap. `BudgetInv` ties the two together in the
  proof.
- `ImplementsAllowance` is a refinement: what left on a day is what the abstract
  holder took that day, and an allowance that is over is over for good. An edit of
  the allowlist that makes the cap anew (the mutant) revives an expired one.
- `SettlementJustified` asks of whatever an admin decided that the dispute was raised
  within the window of its receipt, which the order remembers (`disputed`).
- `ImplementsEscrow` is a refinement: `Promise` maps statuses to phases.
- `SettledInFull` compares a settlement with the amount of the opening, several
  calls earlier, in everybody's wallets; `OrdersAdvance` is why five calls are the
  most an order can see, so that neither a dispute nor a receipt can be repeated.
- `SingleUseUncontended` over expired claims shows why the claim's time to live
  has to exceed the payment's freshness. What it excuses is exactly two requests
  that both passed the look-up of one digest while in flight (`contended`).
- `ServedStaysClaimed` holds of the sovereign agent under contention, too; of
  Larry only without it, since a failing request deletes the key of a digest
  whoever put it.
- `ClaimsExplained` is the other side of single use: a refused payer may retry. It
  admits one loss that the code admits: when the sovereign agent's model call fails
  after the claim, the claim stays and nothing was delivered.
- `RepeatsExplained`, `BacklogExplained` and `DigestsExplained` say exactly which
  faults and overlaps the feed's promises depend on.
- `PaidIsServed` lists every way in which a person who paid through the form can
  be told that it failed. Two are nobody's fault: a price below the floor, which
  the form does not know, and a payment that is too old by the time it is posted.
- `AgeBounded` adds up what nobody added up: a request that is slow with its
  headers and again with its body, an entry that is served on its last instant,
  and a node that is behind.
- `ReadsGoForward` excuses answers from the fallback; with nodes tried in any
  order it fails although every single answer is young.
- `ListingsExplained` is completeness: whatever is old enough to be seen is on the
  page, or a failed read or newer events explain why not. It covers ranking too:
  an agent that outranked another at all instants a page may have mixed is above
  it.
- `CautionExplained` relates the caution "from a single payer", which is computed
  from the tape, to the payments on chain.
- `FilledAsShown` and `QuietPoolFills` are the two sides of a minimum-out: not less
  than what was shown, and not so much that the contract refuses its own mirror.
  The second is about trades the wallet can pay for (`Affordable`), and names the two
  that are refused all the same: a buy of more tokens than the pool has, and a sale
  of more than the coins on the page the form was given (`CoinsShort`).
- `LiveMeansRecent` is a bound that the error of the browser's clock enters in full:
  the threshold, a render, the age of an answer, and how far the browser is behind.
- `EveryDayCovered` excuses a day only by its last tick (`abandoned`): a fault of an
  earlier one is no excuse, since the next tick tries again. A key that is written
  before the post (the mutant) loses days whose later ticks all went well.
- `DigestsExplained` asks for a cause on the very day that got two digests: a fault
  of the day before does not excuse them.
- `QuietPageOffersAll` compares buttons and hints with what is ENABLED in the
  contract, so that a rule which is changed in one of them only shows up.
- `ActsOnWhatWasSeen` holds however stale the page is: the contract's status checks,
  not the page, make it so.
- `ReceiptStands` is why the sovereign agent's endpoints need no idempotency key.

## 5. Proofs

| Module | EXTENDS | About |
|---|---|---|
| `CurveProofs` | `Fees` | division, the curve, sums over finite sets |
| `LaunchpadProofs` | `Launchpad`, `CurveProofs` | `LaunchpadSpec` |
| `TreasuryProofs` | `AgentTreasury` | `TreasurySpec` |
| `EscrowProofs` | `OrderClients`, `LaunchpadProofs` | `WorldSpec`: orders, launchpad and caps in anybody's hands; `ClientSpec` |
| `VaultProofs` | `MMVault`, `CurveProofs` | `Spec` of `MMVault` |
| `GateProofs` | `CommandForm` | `HireSpec`: both workers and the form |
| `FeedProofs` | `CronTick` | `FairSpec`; fairness is not used |
| `DashboardProofs` | `Dashboard`, `LaunchpadProofs` | `CacheSpec`; `Spec` of `Dashboard` for pages and form |

Assumptions are those named in the modules: positive reserves and sale supply,
default shares that are valid, addresses other than `None`, a positive day
length, finitely many addresses, orders and positions (there are sums over
them), claims that outlast a fresh payment and a request. One theorem has a
hypothesis of its own: `ReadsAlwaysForward` assumes that the primary node is not
behind (`Lag[1] = 0`); a primary that is behind can be caught up with by itself
between two reads, and then an older answer needs no fallback.

**Sums.** `Total` is a fold over a set, so facts about it need induction. The
library's induction theorems take an operator as a parameter, which the provers
cannot instantiate; but `WFMin`, that a non-empty set has a minimal element in a
well-founded order, has none. `SubsetInduction` puts the sets for which a claim
fails into a set of their own and looks at a smallest one. From it follow
`TotalUpdate`, `TotalZero` and `MoveTotal`, which the conservation proofs cite,
and in `DashboardProofs` that every sum of positive payments is positive
(`CountedPositive`).

### Launchpad

Proved, for all constants:

- `TypeCorrect`: `LaunchpadSpec => []LaunchpadTypeOK`. Not a formality: each
  balance is a natural number only because its guard or the curve covers what is
  taken from it.
- `SharesStaySafe`: all share triples stay valid.
- `TokenSupplyExact`: supply = pool + token NAV + LP reserve + circulation.
- `PoolNeverDrained`: the product of reserves stays at or above its value at
  launch, and circulation plus pool stay within what was put up for sale.
- `AlwaysSolvent`: everything circulating can be sold back, in any part.
- `SuiAlwaysConserved`: pool, NAV and all wallets hold what there was at first.
- `TradesAlwaysTight`: no trade costs the trader more than the remainder of the one
  division it needs.
- `PoolKeepsItsValue`: from any state on, the pool has less SUI than it had only
  while it has more tokens. No run checks this one: it compares states any number
  of calls apart. So nobody gains by buying and selling, alone or with others,
  across any changes of the fee.
- `SupplyOnlyBurns`: after launch nothing mints, and only what circulates is burned.
- `ProductNeverFalls`, `HireNeverCheaper`, `CredAlwaysBacked`,
  `CreatorEarnsNoCred`, `SkewFreezes`, `AdminNeedsNomination`: the action
  properties of the two launchpad runs.

**The argument.** `IInv` joins types, shares, token accounting and `PoolInv`;
`InitInv`, `NextInv` (one lemma per group of calls) and PTL give
`InductiveInvariant`. Solvency alone is not inductive: that a sell is covered
now says nothing of the state after the next buy. With k for the product of the
reserves, vs and vt for the virtual ones, T for the token reserve and n tokens
sold: `k >= vs * (vt + sale) >= vs * (T + n)`, since circulation plus pool stay
within the sale supply. Hence the new SUI total `ceil(k / (T + n))` is at least
`vs`, so the gross amount is at most what the pool really has
(`GrossCovered`). That buys and sells keep k from falling is `CeilDivLeast`:
the ceiling is the least number whose product is large enough. Tightness is the
same fact read the other way (`CeilDivTight`): one less would not be enough. The
value of the pool is a product that never falls: with no more tokens than
before, it takes at least as much SUI to make it up. The action
properties follow from `IInv` call by call: `CredAlwaysBacked` is where the
validity of all three share triples is needed, and `HireNeverCheaper` that a
config's target is never copied into an account after launch.

### Agent treasury

Proved, for any number of caps, any limits, day length and amount of money:

- `TreasuryTypeCorrect`: no balance goes below zero.
- `CountersExact` and `BudgetAlwaysKept`: a cap's counters are what left under
  it on the day of its last rollover, and no day exceeds its limits.
- `CoinsAlwaysConserved`: treasury, inbox and the rest add up to what exists.
- `DeadCapsAlwaysStayDead`: a revoked or expired cap stays dead and takes
  nothing out.
- `AllowanceImplemented`: `TreasurySpec => ImplementsAllowance`, the refinement.

**The argument.** The budget is not inductive: it says nothing of the counters a
spend is checked against. `TInv` adds `BudgetInv`, which ties the counters to
the outflow of `epochDay`, puts `epochDay` no later than today and says nothing
left on a later day. A rollover to a new day finds that day's outflow at zero
(`RolledOverFacts`), a spend adds the same amount to both sides (`SpendInv`),
the clock only moves on (`DayMonotone`, `TickInv`), and a newly issued cap has
no outflow behind it (`OwnerInv`).

For the refinement, `TInv` is all that is needed. Issuing a cap grants an
allowance (`IssueGrants`). Revoking a live cap ends it; revoking one that has
expired is a stutter, since its allowance is over already. A tick may end several
at once and may start a day (`TickAllowance`). A spend takes what the limit
leaves (`SpendTakes`): its guard is about the counter, and after the rollover the
counter is what left today. Calls of the owner and of outsiders on the balances,
and edits of an allowlist, are stutters.

### Escrow and its clients

Proved, for any finite numbers of orders and addresses and any constants, of
`WorldSpec`: any call of the escrow on any order with any arguments, in any
order with any call of the launchpad (trades, payments, admin, upgrades), of the
payee's owner on his caps, and with time. TLC's `Spec` and `ClientSpec` are
inside that world (`RunsAreInTheWorld`, `ClientsAreInTheWorld`), so what is
proved there holds of both, and neither the arguments that the runs choose from
nor `LaunchpadEnv` hides anything.

- `SettlementsJustified`, `EscrowFundsConserved`.
- `EscrowImplemented`: `WorldSpec => ImplementsEscrow`, the refinement.
- `OrdersOnlyAdvance`, `AlwaysSettledInFull`.
- `SolventAmongOrders`, `PromisesAmongOrders`, `PoolKeepsItsValueAmongOrders`: what
  the launchpad promises by itself it promises with orders settled into its NAV.
  `PromisesAmongOrders` is about the product, the hire price and what backs cred.
  `NoSelfCred` is left out of it on purpose: a creator may open an order that a
  stranger releases, which counts (`WorkOrder_cred`), and a comparison of wallets
  within the release would not see what was paid at the opening.
- `SignedOnWhatWasSeen`, `DeliveredOnce`: with clients on top (`ClientSpec`).
- `PageHidesNothing`: while the page shows the order as it is, no call goes through
  that its hints do not name; nor, rendered this instant by a right clock, one
  that it has no button for.

**The argument.** `OInv` is the launchpad's `IInv` together with `OrdersOK` and
`FundsConserved`. `OrdersOK` says what each status tells of an order's past: no
receipt before a delivery, no mark of a dispute unless there was one, a reason
for either settlement. Every call on an order is then described once, as a
`Transition` of one order: from one record to another along `Moves`, for money
that the rest of the system gives or gets (`CallStep`). Everything else is
proved of transitions: the invariant, the abstract escrow's step or stutter,
that orders advance and are settled in full, and that receipts stand
(`TransitionKeeps`). `WorldKeeps` collects what a step of the world keeps, so each
theorem is one line of it. The sum over locked amounts changes by
the one order (`TotalUpdate`), and a release into the pool is the launchpad's
own payment step. Clients only add what a copy still tells of its order: a copy
that shows a receipt shows the one that stands (`Seen`), since orders never go
back past a delivery.

### Vault

`WithdrawalsAlwaysPaid`, for any offset and finitely many positions. `VaultInv`
adds that shares add up to the total and that shares and reserve are equal: at
par the two divisions leave no remainder (`AtPar`). With the same invariant,
`PositionsKeepTheirWorth`: a position is minted for exactly what its owner paid and
stays redeemable for it.

Of the share arithmetic, at any total, reserve and offset, so also for a vault
with gains or losses: `SharesNeverCheaper` (no deposit or withdrawal takes from the
shares of others), `RoundTripNeverGains`, `ZeroSharesNeedAWindfall` (how much
somebody would have to give away for another's deposit to round to nothing) and
`PayoutWithinReserve`, which needs the vault to be at par or above.

### Paid endpoints and the form

Proved of both workers and the form, for any digests, requests, prices and floors:
`WorkAlwaysPaid`, `UsedOnce`, `UsedStaysClaimed`, `NoStrayClaim`, `FormPaysForWork`.

**The argument.** That a payment is used once says nothing of requests that are
still running. `GInv` follows a request through its awaits: which steps hold a
claim and which have checked the payment (`HoldingPcs`, `CheckedPcs`; the two
workers do these in opposite order), that a held claim is the request's own
unless the digest was contended (`FlightsOK`), and that a served request shuts
the look-up to others until its claim runs out (`ServedOK`). When it does run out,
the payment is too old to be accepted: that is where
`ClaimTtl > Freshness + RequestLimit` is used. All steps of either handler are
cases of one description (`Worked`), so the two are proved together. `FormOK`
ties the form to its one request.

### Feed and digest

Proved for any number of overlapping ticks, any window and cap:
`RepeatsAlwaysExplained`, `BacklogStaysSilent`, `OneDigestADay`, `NoDayLeftOut`;
and `HandledForGood`, the safety half of `EventsHandled`: what is handled stays so,
whatever ticks, faults and newer events do.

**The argument.** `FeedInv` says what a tick in progress may still do: what two
ticks both have is raced (`SharedIsRaced`), a post is marked, about to be, or
its mark was lost (`PostsMarked`), and whatever the bootstrapping tick has been
through is marked or out of the window (`BootstrapCovers`, an invariant of a
half-finished loop over kinds). `DigestInv` does the same for a day: once it has
its digest, the key says so or somebody is on the way to write it
(`DigestKnown`), and a day whose last tick has not failed has its digest, or that
tick is making it (`DayInHand`). No excuse from the day before is needed.

### Dashboard

Proved, for any numbers of readers, keys and nodes, any cache size and any limits:

- `AnswersStayYoung`: `CacheSpec => []AgeBounded`; `ReadsAlwaysForward`.

The age of an answer says nothing of the entries and requests it will come from.
`CInv` adds that a request in flight is within its limits (`Punctual`) and that
what entries and requests hold is young enough for the time they may still wait
(`Young`); there is one lemma per group of steps. The clock is the delicate
step: it may pass only while every request keeps to its limit (`TickInv`).
`ForwardInv` compares entries and requests with what readers were given before
(`Forward`) and readers that wait with the state they asked in (`Patient`).

Proved of the pages, for any agents, events, tapes and limits:
`ListingsAlwaysExplained`, `LiveIsRecent`, `CautionAlwaysExplained`, and of the
arithmetic they show, `HireQuoteSaturates` and `MarketKeepsToItsShare`.
`PageInv` says of every answer on a page that it failed or is from the time the
page may speak of (`Honest`); what is in the log by that time and not on the
page is then explained by how the page was put together. For `LiveIsRecent` the
stamp is all that is needed: it is no older than the reads, and the mark compares
it with a clock whose error is a constant of the behaviour. The caution compares
sums over two sets of payments, the tape's and the chain's.

Proved of the trade form, for every curve, fee, slippage and amount:
`AlwaysFilledAsShown`, `BalanceIsOfWallet`, `QuietPoolAlwaysFills`, and
`HoldersCanSell`: whoever traded through which form on whatever quote, every
holder can sell any part of what he has. `FormInv` is
the launchpad's `IInv`, that the tokens of all addresses are what circulates
(`TokensHeld`: a seller's tokens are part of what `AlwaysSolvent` speaks of), and
that a poll which still counts is one of the connected wallet. That the mirror
and the contract agree is then arithmetic: the mirror's quote of a buy is what
the contract gives, and of a sell what the contract pays, to the unit. What is left
of the reasons for a refusal are the two that `QuietPoolFills` names.

### Only model-checked

- `EventsHandled` and `OrdersSettle`: liveness under fairness, which is beyond the
  prover.
- `QuietPageOffersAll`: it compares buttons with what is ENABLED. That nothing
  possible is left out is `PageHidesNothing`; that whatever is offered is possible
  needs ENABLED of the calls, and stays with TLC.
- The two statements of the violation runs (`SingleUse`, `CredFollowsBuyer`) are
  false, which is their point.

## 6. Plan

Done: the contract modules in order of the value they guard, then the agents
that live off payments, then the dashboard and the clients of the work orders;
then proofs of every safety property that does not speak of ENABLED, and of what
lies beyond the runs: the open world around the orders, the cost of rounding, the
value of the pool over any number of calls, and the vault away from par.

Next, the model:

1. `LaunchCommand`: `tai launch` as publish, then launch, with the 300 s
   timeout, crashes and retries; every coin is launched once or its TreasuryCap
   is still with the signer.
2. `ClientCall`: build, sign and execute with a lost answer, as used by CLI and
   MCP server; coin selection by `select_coin`.
3. A payment of `PaymentGate` that says which call emitted its event, so that the
   digest of a release can be offered to `/hire`.
4. A KV that may serve stale reads, as a variant of `PaymentGate`.

Next, the proofs: each module above brings its own.

**Not modelled, and why:** `publisher.move` and `agent_display.move` (no state
a later call depends on); the CLI, the MCP server and `tai-core` (planned above:
nothing of theirs outlives a command but the two-step launch and a lost answer);
`tai-core::reads` (deserialisation); the dashboard's landing and documentation
pages (static); DeepBook (external: the agent's run is one atomic transaction
around `OperatorSpendSuiCoin` of `AgentTreasury`); the enclave's key and
attestation (a signature is assumed to be its holder's); templates, tests and CI.
