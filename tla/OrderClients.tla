---------------------------- MODULE OrderClients ----------------------------
(***************************************************************************)
(* Who calls the escrow of WorkOrder over the network: the page of an      *)
(* order in somebody's browser (app/src/app/(dashboard)/work/[id] with     *)
(* components/WorkOrderActions.tsx), and the endpoints /work/accept and    *)
(* /work/submit of the sovereign agent.  The page offers its buttons by a  *)
(* copy of the order that was read earlier and by the browser's clock, by  *)
(* which a command of an agent's page commissions an order, too; the       *)
(* agent signs whatever it is asked to and never looks at the outcome, so  *)
(* whoever loses its answer asks again.                                    *)
(***************************************************************************)
EXTENDS WorkOrder

CONSTANTS
    Watched,     \* the order both are about
    WorkerCap,   \* OPERATOR_CAP_ID of the agent
    Skews,       \* by how much the browser's clock may be off
    CommandTerm, CommandWindow, \* of an order commissioned by a command: 24 h, 1 h
    Jobs,        \* requests to the agent (a bound)
    Clicks       \* times a button is pressed (a bound)

ASSUME ClientAssumption ==
    /\ Watched \in OrderIds /\ WorkerCap \in CapIds
    /\ Skews \subseteq Int /\ {CommandTerm, CommandWindow, Clicks} \subseteq Nat

VARIABLES
    page,    \* the page: wallet, copy of the order, instant of its rendering
    click,   \* the transaction the wallet is asked to sign
    clicks,  \* how many there were
    jobs     \* what each request to the agent has built

clientVars == <<orderVars, page, click, clicks, jobs>>

NotFound == NoOrder
NoClick == [button |-> "none", seen |-> NoOrder]

ClientInit ==
    /\ OrderInit
    /\ \E wallet \in Addr, skew \in Skews :
            page = [wallet |-> wallet, skew |-> skew, order |-> NotFound, at |-> skew]
    /\ click = NoClick /\ clicks = 0
    /\ jobs = [j \in Jobs |-> "none"]

-----------------------------------------------------------------------------
(* The page.  A component renders itself anew for its own reasons as well as *)
(* for a refresh, and judges the clock each time. *)

BrowserClock == now + page.skew

\* fetchWorkOrder: an answer from the server's cache shows the order as the page
\* already has it.
Copies == {orders[Watched], page.order}

\* AutoRefresh, or an input.
Render ==
    /\ \E order \in Copies :
            /\ order.status # "NONE"
            /\ page' = [page EXCEPT !.order = order, !.at = BrowserClock]
    /\ UNCHANGED <<orderVars, click, clicks, jobs>>

\* The order cannot be read: the page of a 404, which is not refreshed, until
\* somebody comes back.
RenderFails ==
    /\ page' = [page EXCEPT !.order = NotFound]
    /\ UNCHANGED <<orderVars, click, clicks, jobs>>

IsBuyer == page.wallet = page.order.buyer
Undelivered == page.order.status \in {"NEW", "ACCEPTED"}
Delivered == page.order.status = "RECEIPT_SUBMITTED"

\* Mutant: the deadline itself is too early.
PastDeadlineStrictly == page.at > page.order.deadline

PastDeadline == page.at >= page.order.deadline
WindowExpired == page.at >= page.order.receiptAt + page.order.window

\* Mutant: a buyer may release whatever the status.
ShowReleaseAnyTime == IsBuyer \/ (Delivered /\ WindowExpired)

ShowRelease == Delivered /\ (IsBuyer \/ WindowExpired)
ShowRefund == IsBuyer /\ Undelivered /\ PastDeadline
ShowDispute == IsBuyer /\ Delivered /\ ~WindowExpired

\* Whether the wallet holds a cap is for the user to say.
Buttons ==
    {b \in {"accept", "submit", "release", "refund", "dispute"} :
        CASE b = "accept"  -> page.order.status = "NEW"
          [] b = "submit"  -> page.order.status = "ACCEPTED"
          [] b = "release" -> ShowRelease
          [] b = "refund"  -> ShowRefund
          [] b = "dispute" -> ShowDispute}

\* What the page says somebody may do next, whoever looks at it.
Hints(status) ==
    CASE status = "NEW"               -> {"accept", "refund"}
      [] status = "ACCEPTED"          -> {"submit", "refund"}
      [] status = "RECEIPT_SUBMITTED" -> {"release", "dispute"}
      [] status = "DISPUTED"          -> {"resolve"}
      [] OTHER                        -> {}

\* One transaction at a time: the others are disabled while it is signed.
Click(b) ==
    /\ page.order # NotFound
    /\ click = NoClick
    /\ clicks < Clicks
    /\ b \in Buttons
    /\ click' = [button |-> b, seen |-> page.order]
    /\ clicks' = clicks + 1
    /\ UNCHANGED <<orderVars, page, jobs>>

\* runEscrow of CommandRunner, on the agent's page: the deadline is counted from
\* the browser's clock and is in the transaction when the wallet is asked.
Commission(n) ==
    /\ Status(Watched) = "NONE"
    /\ n > 0
    /\ click = NoClick
    /\ clicks < Clicks
    /\ click' = [button |-> "commission",
                 seen |-> [NoOrder EXCEPT !.amount = n, !.window = CommandWindow,
                                          !.deadline = BrowserClock + CommandTerm]]
    /\ clicks' = clicks + 1
    /\ UNCHANGED <<orderVars, page, jobs>>

\* The call a button makes.
Calls(b) ==
    CASE b = "commission" -> CreateWorkOrder(Watched, page.wallet, click.seen.amount,
                                             click.seen.deadline, click.seen.window)
      [] b = "accept"  -> AcceptWithOwner(Watched)
                            \/ \E c \in CapIds : AcceptWithOperatorV2(Watched, c)
      [] b = "submit"  -> SubmitReceiptWithOwner(Watched)
                            \/ \E c \in CapIds : SubmitReceiptWithOperatorV2(Watched, c)
      [] b = "release" -> \E pv \in PackageVersions :
                            ReleaseWorkOrder(pv, page.wallet, Watched)
      [] b = "refund"  -> RefundWorkOrder(page.wallet, Watched)
      [] b = "dispute" -> OpenDispute(page.wallet, Watched)

Executed ==
    /\ click # NoClick
    /\ Calls(click.button)
    /\ click' = NoClick
    /\ UNCHANGED <<page, clicks, jobs>>

\* The user refuses, the call aborts, or the wallet cannot reach a node.
NotExecuted ==
    /\ click # NoClick
    /\ click' = NoClick
    /\ UNCHANGED <<orderVars, page, clicks, jobs>>

-----------------------------------------------------------------------------
(* The agent: submitMoveCall builds, signs and executes.  It answers with the *)
(* digest, or fails; to the chain it is all one whether the caller hears it,  *)
(* and whoever does not may ask again.                                        *)

\* The request is well-formed, and the node builds the transaction: its objects
\* exist.
Build(j, endpoint) ==
    /\ jobs[j] = "none"
    /\ Status(Watched) # "NONE" /\ WorkerCap \in issued
    /\ jobs' = [jobs EXCEPT ![j] = endpoint]
    /\ UNCHANGED <<orderVars, page, click, clicks>>

\* acceptWorkOrder and submitWorkOrderReceipt.
Execute(j) ==
    /\ \/ jobs[j] = "accept" /\ AcceptWithOperatorV2(Watched, WorkerCap)
       \/ jobs[j] = "submit" /\ SubmitReceiptWithOperatorV2(Watched, WorkerCap)
    /\ jobs' = [jobs EXCEPT ![j] = "none"]
    /\ UNCHANGED <<page, click, clicks>>

\* The call aborts on chain, and its effects are not looked at; or the node does
\* not take it.
NothingDone(j) ==
    /\ jobs[j] # "none"
    /\ jobs' = [jobs EXCEPT ![j] = "none"]
    /\ UNCHANGED <<orderVars, page, click, clicks>>

Work(j) ==
    \/ \E endpoint \in {"accept", "submit"} : Build(j, endpoint)
    \/ Execute(j) \/ NothingDone(j)

ClientNext ==
    \/ Render \/ RenderFails
    \/ \E b \in Buttons : Click(b)
    \/ \E n \in AmountChoices : Commission(n)
    \/ Executed \/ NotExecuted
    \/ \E j \in Jobs : Work(j)
    \/ Next /\ UNCHANGED <<page, click, clicks, jobs>>

ClientSpec == ClientInit /\ [][ClientNext]_clientVars

-----------------------------------------------------------------------------
\* What anybody at all may do with the order.
Possible(call) ==
    CASE call = "accept"  -> AcceptStep(Watched)
      [] call = "submit"  -> ReceiptStep(Watched)
      [] call = "release" -> Finalise(Watched)
      [] call = "refund"  -> Reclaim(Watched)
      [] call = "dispute" -> \E a \in Addr : OpenDispute(a, Watched)
      [] call = "resolve" -> Resolve(Watched)

\* A page rendered now, by a clock that is right, offers every finalising call
\* that would go through and no other, and the payee's calls whenever they would.
OffersAllNow ==
    page.order = orders[Watched] /\ page.order # NotFound /\ page.at = now =>
        /\ \A b \in {"release", "refund", "dispute"} : b \in Buttons <=> ENABLED Calls(b)
        /\ \A b \in {"accept", "submit"} : ENABLED Calls(b) => b \in Buttons

\* The page knows the contract's rules: while it shows the order as it is, its
\* hints leave out nothing that anybody may do, whatever the hour; and at the very
\* instant of its rendering, by a clock that is right, its buttons are exact.
QuietPageOffersAll ==
    /\ page.order = orders[Watched] /\ page.order # NotFound =>
          \A call \in {"accept", "submit", "release", "refund", "dispute", "resolve"} :
              ENABLED Possible(call) => call \in Hints(page.order.status)
    /\ OffersAllNow

\* However stale the page and however wrong its clock, a transaction it had
\* signed acts on the delivery its user saw: nobody pays for a receipt, or
\* disputes or reclaims without one, that came after the page was rendered.
ActsOnWhatWasSeen ==
    [][click # NoClick /\ click' = NoClick /\ orders' # orders =>
          /\ orders[Watched].receiptAt = click.seen.receiptAt
          /\ Status(Watched) = "RECEIPT_SUBMITTED" <=>
                click.seen.status = "RECEIPT_SUBMITTED"]_clientVars

\* A receipt stands once it is delivered: no request that is repeated, or races
\* the page or another request, delivers again and starts the window anew.
ReceiptStands ==
    [][\A o \in OrderIds : orders[o].receiptAt # 0 =>
            orders'[o].receiptAt = orders[o].receiptAt]_clientVars
=============================================================================
