----------------------------- MODULE WorkOrder -----------------------------
(***************************************************************************)
(* The escrow of move/sources/work_order.move together with the three      *)
(* objects its calls read or change: the payee's launchpad account and the *)
(* config (a release is a service payment), the payee treasury's active    *)
(* operator caps, and the clock.  Every call is one transaction, so the    *)
(* interleavings are of whole calls by any sender.                         *)
(*                                                                         *)
(* One payee, so the EAccountMismatch and ENotPayeeCap assertions hold of  *)
(* every call that type-checks.  Hashes and URLs are left out.             *)
(***************************************************************************)
EXTENDS Launchpad, OperatorCaps

CONSTANTS
    OrderIds,
    MinAmount, MinWindow, MaxWindow,
    AmountChoices, DeadlineChoices, WindowChoices, \* what buyers ask for
    LastReceipt   \* no order is opened or delivered later (a bound that
                  \* leaves the clock room to run every window out)

ASSUME OrderAssumption ==
    /\ IsFiniteSet(OrderIds)
    /\ MinAmount \in Nat \ {0}
    /\ MinWindow \in Nat \ {0} /\ MaxWindow \in Nat
    /\ AmountChoices \subseteq Nat
    /\ DeadlineChoices \subseteq Nat
    /\ WindowChoices \subseteq Nat

VARIABLE orders   \* the WorkOrder<T> objects, with the facts their events carry

orderVars == <<published, config, account, sui, circulating,
               now, caps, issued, active, orders>>

Open == {"NEW", "ACCEPTED", "RECEIPT_SUBMITTED", "DISPUTED"}
Settled == {"RELEASED", "REFUNDED"}

NoOrder == [status |-> "NONE", buyer |-> Publisher, locked |-> 0, amount |-> 0,
            deadline |-> 0, window |-> 0, receiptAt |-> 0, disputed |-> FALSE,
            settledBy |-> Publisher, settledAt |-> 0]

OrderInit ==
    /\ ConfigInit
    /\ \E creator \in Addr : account = FreshAccount(1, creator, None)
    /\ sui = SuiSupply
    /\ circulating = 0
    /\ CapsInit
    /\ orders = [o \in OrderIds |-> NoOrder]

Status(o) == orders[o].status

\* Mutant: the window is counted from the deadline.
WindowFromDeadline(o) == orders[o].deadline + orders[o].window

WindowEnd(o) == orders[o].receiptAt + orders[o].window

\* create_work_order does not look at any version field.
CreateWorkOrder(o, buyer, amount, deadline, window) ==
    /\ Status(o) = "NONE"
    /\ now <= LastReceipt
    /\ amount <= sui[buyer]
    /\ amount >= MinAmount
    /\ deadline > now
    /\ window >= MinWindow
    /\ window <= MaxWindow
    /\ orders' = [orders EXCEPT ![o] =
                    [NoOrder EXCEPT !.status = "NEW", !.buyer = buyer,
                                    !.locked = amount, !.amount = amount,
                                    !.deadline = deadline, !.window = window]]
    /\ sui' = Debit(sui, buyer, amount)
    /\ UNCHANGED <<published, config, account, circulating>> /\ UNCHANGED capVars

Accept(o) ==
    /\ Status(o) = "NEW"
    /\ orders' = [orders EXCEPT ![o].status = "ACCEPTED"]
    /\ UNCHANGED launchpadVars /\ UNCHANGED capVars

\* Mutant: a receipt can be submitted again.
SubmitReceiptAgain(o) ==
    /\ Status(o) \in {"ACCEPTED", "RECEIPT_SUBMITTED"}
    /\ now <= LastReceipt
    /\ orders' = [orders EXCEPT ![o].status = "RECEIPT_SUBMITTED",
                                ![o].receiptAt = now]
    /\ UNCHANGED launchpadVars /\ UNCHANGED capVars

SubmitReceipt(o) ==
    /\ Status(o) = "ACCEPTED"
    /\ now <= LastReceipt
    /\ orders' = [orders EXCEPT ![o].status = "RECEIPT_SUBMITTED",
                                ![o].receiptAt = now]
    /\ UNCHANGED launchpadVars /\ UNCHANGED capVars

\* assert_payee_operator_active: the guard of the _v2 operator calls.
PayeeOperatorActive(c) == c \in active /\ NotExpired(c)

AcceptWithOwner(o) == Accept(o)

\* The deprecated variant has no treasury to look a revocation up in.
AcceptWithOperator(o, c) == c \in issued /\ NotExpired(c) /\ Accept(o)

AcceptWithOperatorV2(o, c) == PayeeOperatorActive(c) /\ Accept(o)

SubmitReceiptWithOwner(o) == SubmitReceipt(o)

SubmitReceiptWithOperator(o, c) == c \in issued /\ NotExpired(c) /\ SubmitReceipt(o)

SubmitReceiptWithOperatorV2(o, c) == PayeeOperatorActive(c) /\ SubmitReceipt(o)

\* The order once its balance has been split off whole.
Settle(o, status, sender) ==
    orders' = [orders EXCEPT ![o].status = status, ![o].locked = 0,
                             ![o].settledBy = sender, ![o].settledAt = now]

\* The payer of the inner service payment is the sender of the release.
ReleaseWorkOrder(pv, sender, o) ==
    /\ Status(o) = "RECEIPT_SUBMITTED"
    /\ sender # orders[o].buyer => now >= WindowEnd(o)
    /\ RecordServicePaymentSui(pv, sender, orders[o].locked, sui)
    /\ Settle(o, "RELEASED", sender)
    /\ UNCHANGED capVars

\* Mutant: a delivered order can be reclaimed as well.
RefundDelivered(sender, o) ==
    /\ sender = orders[o].buyer
    /\ Status(o) \in {"NEW", "ACCEPTED", "RECEIPT_SUBMITTED"}
    /\ now >= orders[o].deadline
    /\ sui' = Credit(sui, orders[o].buyer, orders[o].locked)
    /\ Settle(o, "REFUNDED", sender)
    /\ UNCHANGED <<published, config, account, circulating>> /\ UNCHANGED capVars

\* Mutant: an accepted order can no longer be reclaimed.
RefundNewOnly(sender, o) ==
    /\ sender = orders[o].buyer
    /\ Status(o) = "NEW"
    /\ now >= orders[o].deadline
    /\ sui' = Credit(sui, orders[o].buyer, orders[o].locked)
    /\ Settle(o, "REFUNDED", sender)
    /\ UNCHANGED <<published, config, account, circulating>> /\ UNCHANGED capVars

RefundWorkOrder(sender, o) ==
    /\ sender = orders[o].buyer
    /\ Status(o) \in {"NEW", "ACCEPTED"}
    /\ now >= orders[o].deadline
    /\ sui' = Credit(sui, orders[o].buyer, orders[o].locked)
    /\ Settle(o, "REFUNDED", sender)
    /\ UNCHANGED <<published, config, account, circulating>> /\ UNCHANGED capVars

\* The record keeps whether the dispute was raised in its window.
OpenDispute(sender, o) ==
    /\ sender = orders[o].buyer
    /\ Status(o) = "RECEIPT_SUBMITTED"
    /\ now < WindowEnd(o)
    /\ orders' = [orders EXCEPT ![o].status = "DISPUTED",
                                ![o].disputed = now < orders[o].receiptAt + orders[o].window]
    /\ UNCHANGED launchpadVars /\ UNCHANGED capVars

\* In favour of the payee: a service payment whose payer is the admin.
ResolveForPayee(pv, sender, o) ==
    /\ sender = config.admin
    /\ Status(o) = "DISPUTED"
    /\ RecordServicePaymentSui(pv, sender, orders[o].locked, sui)
    /\ Settle(o, "RELEASED", sender)
    /\ UNCHANGED capVars

\* Mutant: the order is closed and the coin never sent.
ResolveKeepsMoney(sender, o) ==
    /\ sender = config.admin
    /\ Status(o) = "DISPUTED"
    /\ Settle(o, "REFUNDED", sender)
    /\ UNCHANGED launchpadVars /\ UNCHANGED capVars

\* In favour of the buyer: a plain transfer, which checks no version.
ResolveForBuyer(sender, o) ==
    /\ sender = config.admin
    /\ Status(o) = "DISPUTED"
    /\ sui' = Credit(sui, orders[o].buyer, orders[o].locked)
    /\ Settle(o, "REFUNDED", sender)
    /\ UNCHANGED <<published, config, account, circulating>> /\ UNCHANGED capVars

AcceptStep(o) ==
    \/ AcceptWithOwner(o)
    \/ \E c \in CapIds : AcceptWithOperator(o, c) \/ AcceptWithOperatorV2(o, c)

ReceiptStep(o) ==
    \/ SubmitReceiptWithOwner(o)
    \/ \E c \in CapIds : SubmitReceiptWithOperator(o, c) \/ SubmitReceiptWithOperatorV2(o, c)

PayeeStep(o) == AcceptStep(o) \/ ReceiptStep(o)

Finalise(o) == \E pv \in PackageVersions, s \in Addr : ReleaseWorkOrder(pv, s, o)
Reclaim(o) == \E s \in Addr : RefundWorkOrder(s, o)
Resolve(o) == \E s \in Addr : \/ ResolveForBuyer(s, o)
                              \/ \E pv \in PackageVersions : ResolveForPayee(pv, s, o)

OrderStep(o) ==
    \/ \E b \in Addr, n \in AmountChoices, d \in DeadlineChoices, w \in WindowChoices :
            CreateWorkOrder(o, b, n, d, w)
    \/ PayeeStep(o)
    \/ Finalise(o)
    \/ Reclaim(o)
    \/ \E s \in Addr : OpenDispute(s, o)
    \/ Resolve(o)

MigrateConfigStep ==
    /\ \E pv \in PackageVersions, s \in Addr : MigrateConfig(pv, s)
    /\ UNCHANGED <<published, account, sui, circulating>>

MigrateAccountStep == \E pv \in PackageVersions : MigrateAccount(pv)

\* The launchpad calls a work order can notice: who administers the config, its
\* shares and versions, and who the payee's creator is.  Trades and direct
\* payments touch nothing a work-order call reads.
LaunchpadEnv ==
    \/ ConfigNext /\ UNCHANGED <<account, sui, circulating>>
    \/ MigrateAccountStep
    \/ \E pv \in PackageVersions, s \in Addr, a \in CreatorChoices : SetCreator(pv, s, a)

Next ==
    \/ \E o \in OrderIds : OrderStep(o)
    \/ LaunchpadEnv /\ UNCHANGED capVars /\ UNCHANGED orders
    \/ CapsNext /\ UNCHANGED launchpadVars /\ UNCHANGED orders

Spec == OrderInit /\ [][Next]_orderVars

\* The clock advances; buyers reclaim what they may, somebody finalises what
\* anybody may, the admin decides disputes, and stale objects get migrated.
\* Nothing is assumed of the payee, of new orders, or of any other admin call.
Fairness ==
    /\ WF_orderVars(Tick /\ UNCHANGED launchpadVars /\ UNCHANGED orders)
    /\ WF_orderVars(MigrateConfigStep /\ UNCHANGED capVars /\ UNCHANGED orders)
    /\ WF_orderVars(MigrateAccountStep /\ UNCHANGED capVars /\ UNCHANGED orders)
    /\ \A o \in OrderIds : /\ WF_orderVars(Reclaim(o))
                           /\ WF_orderVars(Finalise(o))
                           /\ WF_orderVars(Resolve(o))

FairSpec == Spec /\ Fairness

-----------------------------------------------------------------------------
\* Every settlement happened for one of the reasons the escrow admits.  Nobody
\* but the buyer finalises before a full dispute window has run; the buyer gets
\* a refund only for an undelivered order past its deadline; only an order that
\* was disputed in its window is left to an admin.
SettlementJustified ==
    \A o \in OrderIds :
        LET order == orders[o]
        IN  /\ order.status = "RELEASED" /\ ~order.disputed =>
                 /\ order.window \in MinWindow .. MaxWindow
                 /\ \/ order.settledBy = order.buyer
                    \/ order.settledAt >= order.receiptAt + order.window
            /\ order.status = "REFUNDED" /\ ~order.disputed =>
                 /\ order.settledBy = order.buyer
                 /\ order.receiptAt = 0
                 /\ order.settledAt >= order.deadline

\* No SUI is created or lost between wallets, escrows, pool and NAV.
FundsConserved ==
    account.realSui + account.navSui + Total(sui)
        + Total([o \in OrderIds |-> orders[o].locked])
    = Total(SuiSupply)

\* An order only goes forward: each call that changes it takes it to a later
\* status and leaves the terms it was opened on as they were.  So no order sees
\* more than five calls, whoever races whom.
Rank(status) ==
    CASE status = "NONE" -> 0
      [] status = "NEW" -> 1
      [] status = "ACCEPTED" -> 2
      [] status = "RECEIPT_SUBMITTED" -> 3
      [] status = "DISPUTED" -> 4
      [] status \in Settled -> 5

OrdersAdvance ==
    [][\A o \in OrderIds : orders'[o] # orders[o] =>
          /\ Rank(orders'[o].status) > Rank(Status(o))
          /\ Status(o) # "NONE" =>
                \A f \in {"buyer", "amount", "deadline", "window"} :
                    orders'[o][f] = orders[o][f]]_orderVars

\* What was agreed is what is paid, whatever happened in between: a refund gives
\* the buyer the amount and nobody else anything; a release shares the whole
\* amount between wallets and NAV, which gets its minimum share of it.
SettledInFull ==
    [][\A o \in OrderIds : Status(o) \in Open =>
          /\ orders'[o].status = "REFUNDED" =>
                sui' = Credit(sui, orders[o].buyer, orders[o].amount)
          /\ orders'[o].status = "RELEASED" =>
                /\ account'.navSui + Total(sui') = account.navSui + Total(sui) + orders[o].amount
                /\ account'.navSui - account.navSui >= FeeOn(orders[o].amount, MinNavShare)]_orderVars

\* The escrow implements its abstract promise.
Phase(status) ==
    CASE status = "NONE" -> "absent"
      [] status \in {"NEW", "ACCEPTED"} -> "held"
      [] status = "RECEIPT_SUBMITTED" -> "delivered"
      [] status = "DISPUTED" -> "contested"
      [] status = "RELEASED" -> "paid"
      [] status = "REFUNDED" -> "returned"

Promise == INSTANCE Escrow WITH
    Orders <- OrderIds,
    phase <- [o \in OrderIds |-> Phase(orders[o].status)],
    pot <- [o \in OrderIds |-> orders[o].locked]

ImplementsEscrow == Promise!Spec

\* Money never stays locked: every order whose parties keep to Fairness is
\* settled in the end, through upgrades, changes of admin and of creator,
\* revoked caps, late receipts and disputes.
OrdersSettle ==
    \A o \in OrderIds : (Status(o) \in Open) ~> (Status(o) \in Settled)

-----------------------------------------------------------------------------
(* What the documents say and the code does not do. *)

\* work_order.move on release: "cred accumulates because the payer of the inner
\* call is the buyer (passed via tx sender)".  Then revenue grows by the amount
\* exactly when the buyer is not the creator.
CredFollowsBuyer ==
    [][\A o \in OrderIds :
          Status(o) = "RECEIPT_SUBMITTED" /\ Status(o)' = "RELEASED" =>
              account'.revenue = account.revenue +
                  (IF orders[o].buyer # account.creator THEN orders[o].amount ELSE 0)]_orderVars
=============================================================================
