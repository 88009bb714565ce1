---------------------------- MODULE EscrowProofs ----------------------------
(***************************************************************************)
(* The escrow pays and refunds for admitted reasons only, keeps every coin *)
(* it is given, and implements Escrow, for any number of orders, buyers    *)
(* and operators, under every order of calls and while config and account  *)
(* are administered.  The same holds with the clients of OrderClients, and *)
(* these act on what they have seen.                                       *)
(***************************************************************************)
EXTENDS OrderClients, LaunchpadProofs

OrderRecord ==
    [status : Open \cup Settled \cup {"NONE"}, buyer : Addr, locked : Nat, amount : Nat,
     deadline : Nat, window : Nat, receiptAt : Nat, disputed : BOOLEAN,
     settledBy : Addr, settledAt : Nat]

\* The history of an order can be told from its fields: what was never delivered
\* has no receipt, a dispute leaves its mark, and a settlement had a reason.
OrderOK(r) ==
    /\ r.status = "NONE" => r.locked = 0
    /\ r.status \in Open => r.locked = r.amount
    /\ r.status \in {"NONE", "NEW", "ACCEPTED"} => r.receiptAt = 0
    /\ r.status \in {"NONE", "NEW", "ACCEPTED", "RECEIPT_SUBMITTED"} => ~ r.disputed
    /\ r.status = "DISPUTED" => r.disputed
    /\ r.status # "NONE" => r.window \in MinWindow .. MaxWindow
    /\ r.status = "RELEASED" /\ ~ r.disputed =>
          r.settledBy = r.buyer \/ r.settledAt >= r.receiptAt + r.window
    /\ r.status = "REFUNDED" /\ ~ r.disputed =>
          r.settledBy = r.buyer /\ r.receiptAt = 0 /\ r.settledAt >= r.deadline

OrdersOK ==
    /\ now \in Nat
    /\ orders \in [OrderIds -> OrderRecord]
    /\ \A o \in OrderIds : OrderOK(orders[o])

Locked == [o \in OrderIds |-> orders[o].locked]

\* The inductive invariant: the launchpad's, the orders' histories, and the sum.
OInv == IInv /\ OrdersOK /\ FundsConserved

\* Where an order is once something was delivered, or it is all over.
Done == {"RECEIPT_SUBMITTED", "DISPUTED"} \cup Settled

\* The ways an order goes.
Moves(old, new) ==
    \/ old.status = "NONE" /\ new.status = "NEW" /\ new.locked # 0
    \/ old.status = "NEW" /\ new.status = "ACCEPTED" /\ new.locked = old.locked
    \/ old.status = "ACCEPTED" /\ new.status = "RECEIPT_SUBMITTED" /\ new.locked = old.locked
    \/ old.status = "RECEIPT_SUBMITTED" /\ new.status = "DISPUTED" /\ new.locked = old.locked
    \/ /\ old.status \in {"RECEIPT_SUBMITTED", "DISPUTED"}
       /\ new.status = "RELEASED" /\ new.locked = 0
    \/ /\ old.status \in {"NEW", "ACCEPTED", "DISPUTED"}
       /\ new.status = "REFUNDED" /\ new.locked = 0

SameTerms(old, new) ==
    \A f \in {"buyer", "amount", "deadline", "window"} : new[f] = old[f]

\* What a call on the order o does: one move, for money that comes from or goes to
\* the rest of the system, on the terms agreed, after which a receipt stands.
Transition(o) ==
    \E r \in OrderRecord :
        /\ OrderOK(r)
        /\ orders' = [orders EXCEPT ![o] = r]
        /\ Moves(orders[o], r)
        /\ orders[o].status # "ACCEPTED" => r.receiptAt = orders[o].receiptAt
        /\ orders[o].status # "NONE" => SameTerms(orders[o], r)
        /\ SuiHeld' = SuiHeld + orders[o].locked - r.locked

\* A call on an order, by anybody and whatever the arguments.
OrderCall(o) ==
    \/ \E b \in Addr, n \in Nat, d \in Int, w \in Int : CreateWorkOrder(o, b, n, d, w)
    \/ Accept(o)
    \/ SubmitReceipt(o)
    \/ \E pv \in PackageVersions, s \in Addr : \/ ReleaseWorkOrder(pv, s, o)
                                               \/ ResolveForPayee(pv, s, o)
    \/ \E s \in Addr : \/ RefundWorkOrder(s, o)
                       \/ OpenDispute(s, o)
                       \/ ResolveForBuyer(s, o)

-----------------------------------------------------------------------------
\* A step that changes only what wallets hold.
LEMMA WalletStep ==
    ASSUME IInv, UNCHANGED <<published, config, account, circulating>>,
           sui' \in [Addr -> Nat]
    PROVE  IInv'
  BY DEF IInv, LaunchpadTypeOK, ConfigTypeOK, SharesSafe, PoolInv, TokensConserved,
         PreLaunch, Launched

\* A step that changes no balance.
LEMMA StillStep ==
    ASSUME IInv, UNCHANGED launchpadVars
    PROVE  IInv' /\ SuiHeld' = SuiHeld
  <1>1. sui' \in [Addr -> Nat]
    BY DEF IInv, LaunchpadTypeOK, launchpadVars
  <1> QED
    BY <1>1, WalletStep DEF launchpadVars, SuiHeld

\* What is known of an order before a call.
LEMMA OrderFacts ==
    ASSUME OInv, NEW o \in OrderIds
    PROVE  /\ orders[o] \in OrderRecord /\ OrderOK(orders[o]) /\ now \in Nat
           /\ sui \in [Addr -> Nat] /\ account.realSui \in Nat /\ account.navSui \in Nat
           /\ account.creator \in Addr /\ config.admin \in Addr
           /\ Total(sui) \in Int
  <1>1. /\ orders[o] \in OrderRecord /\ OrderOK(orders[o]) /\ now \in Nat
        /\ sui \in [Addr -> Nat] /\ account.realSui \in Nat /\ account.navSui \in Nat
        /\ account.creator \in Addr /\ config.admin \in Addr
    BY DEF OInv, OrdersOK, IInv, LaunchpadTypeOK, ConfigTypeOK, Account, Config
  <1>2. Total(sui) \in Int
    BY <1>1, WalletCredited
  <1> QED
    BY <1>1, <1>2

\* A new order takes its amount out of the buyer's wallet.
LEMMA CreateStep ==
    ASSUME OInv, NEW o \in OrderIds, NEW b \in Addr, NEW n \in Nat, NEW d \in Int,
           NEW w \in Int, CreateWorkOrder(o, b, n, d, w)
    PROVE  IInv' /\ now' = now /\ Transition(o)
  <1> DEFINE r == [NoOrder EXCEPT !.status = "NEW", !.buyer = b, !.locked = n,
                                  !.amount = n, !.deadline = d, !.window = w]
  <1>1. /\ orders[o] \in OrderRecord /\ OrderOK(orders[o]) /\ now \in Nat
        /\ sui \in [Addr -> Nat] /\ account.realSui \in Nat /\ account.navSui \in Nat
        /\ Total(sui) \in Int
    BY OrderFacts
  <1>2. /\ orders[o].status = "NONE" /\ n <= sui[b] /\ n >= MinAmount /\ d > now
        /\ w >= MinWindow /\ w <= MaxWindow
        /\ orders' = [orders EXCEPT ![o] = r]
        /\ sui' = Debit(sui, b, n)
        /\ UNCHANGED <<published, config, account, circulating>> /\ UNCHANGED capVars
    BY DEF CreateWorkOrder, Status
  <1>3. /\ sui' \in [Addr -> Nat] /\ Total(sui') = Total(sui) - n
    BY <1>1, <1>2, WalletDebited
  <1>4. /\ r \in OrderRecord
        /\ r.status = "NEW" /\ r.locked = n /\ r.amount = n /\ r.window = w
        /\ r.receiptAt = 0 /\ r.disputed = FALSE
    <2>1. NoOrder \in OrderRecord
      BY ConfigAssumption DEF NoOrder, OrderRecord
    <2>2. NoOrder.receiptAt = 0 /\ NoOrder.disputed = FALSE
      BY DEF NoOrder
    <2>3. d \in Nat /\ w \in Nat
      BY <1>1, <1>2, OrderAssumption
    <2> QED
      BY <2>1, <2>2, <2>3 DEF OrderRecord, Open
  <1> HIDE DEF r
  <1>5. OrderOK(r)
    BY <1>2, <1>4, OrderAssumption DEF OrderOK, Open, Settled
  <1>6. orders[o].locked = 0
    BY <1>1, <1>2 DEF OrderOK
  <1>7. IInv'
    BY <1>2, <1>3, WalletStep DEF OInv
  <1>8. SuiHeld' = SuiHeld + orders[o].locked - r.locked
    BY <1>1, <1>2, <1>3, <1>4, <1>6 DEF SuiHeld
  <1>9. Moves(orders[o], r) /\ r.receiptAt = orders[o].receiptAt
    BY <1>1, <1>2, <1>4, OrderAssumption DEF Moves, OrderOK
  <1> QED
    BY <1>2, <1>4, <1>5, <1>7, <1>8, <1>9 DEF Transition, capVars

\* A settlement empties the order and marks it with who closed it and when.
LEMMA SettleStep ==
    ASSUME OInv, NEW o \in OrderIds, NEW st \in Settled, NEW s \in Addr,
           Settle(o, st, s), orders[o].status \in Open,
           IInv', SuiHeld' = SuiHeld + orders[o].locked,
           st = "RELEASED" =>
              /\ orders[o].status \in {"RECEIPT_SUBMITTED", "DISPUTED"}
              /\ orders[o].disputed \/ s = orders[o].buyer \/ now >= WindowEnd(o),
           st = "REFUNDED" =>
              /\ orders[o].status \in {"NEW", "ACCEPTED", "DISPUTED"}
              /\ orders[o].disputed \/ (s = orders[o].buyer /\ now >= orders[o].deadline)
    PROVE  Transition(o)
  <1> DEFINE old == orders[o]
             r == [old EXCEPT !.status = st, !.locked = 0, !.settledBy = s, !.settledAt = now]
  <1>1. old \in OrderRecord /\ OrderOK(old) /\ now \in Nat /\ SuiHeld \in Int
    BY OrderFacts DEF SuiHeld
  <1>2. orders' = [orders EXCEPT ![o] = r]
    <2>1. orders \in [OrderIds -> OrderRecord]
      BY DEF OInv, OrdersOK
    <2> QED
      BY <1>1, <2>1 DEF Settle, OrderRecord
  <1> HIDE DEF old
  <1>3. /\ r \in OrderRecord
        /\ r.status = st /\ r.locked = 0 /\ r.settledBy = s /\ r.settledAt = now
        /\ r.buyer = old.buyer /\ r.receiptAt = old.receiptAt /\ r.disputed = old.disputed
        /\ r.window = old.window /\ r.deadline = old.deadline /\ r.amount = old.amount
    BY <1>1 DEF OrderRecord
  <1> HIDE DEF r
  <1>4. OrderOK(r)
    BY <1>1, <1>3 DEF OrderOK, Settled, Open, WindowEnd, OrderRecord, old
  <1>5. Moves(old, r)
    BY <1>3 DEF Moves, Settled, Open, old
  <1>6. SuiHeld' = SuiHeld + old.locked - r.locked
    BY <1>1, <1>3 DEF OrderRecord, old
  <1> QED
    BY <1>2, <1>3, <1>4, <1>5, <1>6 DEF Transition, SameTerms, old

\* A release pays the escrowed coin to the account, whoever sends it.
LEMMA PayStep ==
    ASSUME OInv, NEW o \in OrderIds, NEW pv \in PackageVersions, NEW s \in Addr,
           RecordServicePaymentSui(pv, s, orders[o].locked, sui)
    PROVE  IInv' /\ SuiHeld' = SuiHeld + orders[o].locked
  <1> DEFINE n == orders[o].locked
  <1>1. /\ n \in Nat /\ sui \in [Addr -> Nat]
        /\ account.realSui \in Nat /\ account.navSui \in Nat
    BY OrderFacts DEF OrderRecord
  <1> HIDE DEF n
  <1>2. RecordServicePaymentSui(pv, s, n, sui)
    BY DEF n
  <1>3. /\ IInv' /\ account'.realSui = account.realSui
        /\ account'.navSui + Total(sui') = account.navSui + Total(sui) + n
        /\ Total(sui) \in Int /\ Total(sui') \in Int
    BY <1>1, <1>2, RecordStep DEF OInv
  <1>4. account'.realSui \in Nat /\ account'.navSui \in Nat
    BY <1>3 DEF IInv, LaunchpadTypeOK, Account
  <1>5. SuiHeld' = SuiHeld + n
    BY <1>1, <1>3, <1>4 DEF SuiHeld
  <1> QED
    BY <1>3, <1>5 DEF n

\* A refund pays it to the buyer.
LEMMA ReturnStep ==
    ASSUME OInv, NEW o \in OrderIds,
           sui' = Credit(sui, orders[o].buyer, orders[o].locked),
           UNCHANGED <<published, config, account, circulating>>
    PROVE  IInv' /\ SuiHeld' = SuiHeld + orders[o].locked
  <1>1. /\ orders[o].locked \in Nat /\ orders[o].buyer \in Addr /\ sui \in [Addr -> Nat]
        /\ account.realSui \in Nat /\ account.navSui \in Nat
    BY OrderFacts DEF OrderRecord
  <1>2. /\ sui' \in [Addr -> Nat]
        /\ Total(sui) \in Int /\ Total(sui') = Total(sui) + orders[o].locked
    BY <1>1, WalletCredited
  <1>3. IInv'
    BY <1>2, WalletStep DEF OInv
  <1> QED
    BY <1>1, <1>2, <1>3 DEF SuiHeld

\* Acceptance and receipt keep the money where it is, and so does a dispute.
LEMMA AcceptMoves ==
    ASSUME OInv, NEW o \in OrderIds, Accept(o)
    PROVE  IInv' /\ now' = now /\ Transition(o)
  <1> DEFINE old == orders[o]
             r == [old EXCEPT !.status = "ACCEPTED"]
  <1>1. old \in OrderRecord /\ OrderOK(old) /\ SuiHeld \in Int
    BY OrderFacts DEF SuiHeld
  <1>2. /\ old.status = "NEW" /\ orders' = [orders EXCEPT ![o] = r]
        /\ UNCHANGED launchpadVars /\ now' = now
    BY DEF Accept, Status, capVars
  <1> HIDE DEF old
  <1>3. /\ r \in OrderRecord /\ r.status = "ACCEPTED" /\ r.locked = old.locked
        /\ r.receiptAt = old.receiptAt /\ r.disputed = old.disputed
        /\ SameTerms(old, r)
    BY <1>1 DEF OrderRecord, Open, SameTerms
  <1> HIDE DEF r
  <1>4. OrderOK(r) /\ Moves(old, r)
    BY <1>1, <1>2, <1>3 DEF OrderOK, Moves, SameTerms, Open, Settled
  <1>5. IInv' /\ SuiHeld' = SuiHeld
    BY <1>2, StillStep DEF OInv
  <1>6. SuiHeld' = SuiHeld + old.locked - r.locked
    BY <1>1, <1>3, <1>5 DEF OrderRecord
  <1> QED
    BY <1>2, <1>3, <1>4, <1>5, <1>6 DEF Transition, old

LEMMA ReceiptMoves ==
    ASSUME OInv, NEW o \in OrderIds, SubmitReceipt(o)
    PROVE  IInv' /\ now' = now /\ Transition(o)
  <1> DEFINE old == orders[o]
             r == [old EXCEPT !.status = "RECEIPT_SUBMITTED", !.receiptAt = now]
  <1>1. /\ old \in OrderRecord /\ OrderOK(old) /\ now \in Nat /\ SuiHeld \in Int
        /\ orders \in [OrderIds -> OrderRecord]
    BY OrderFacts DEF SuiHeld, OInv, OrdersOK
  <1>2. /\ old.status = "ACCEPTED" /\ orders' = [orders EXCEPT ![o] = r]
        /\ UNCHANGED launchpadVars /\ now' = now
    BY <1>1 DEF SubmitReceipt, Status, capVars, OrderRecord
  <1> HIDE DEF old
  <1>3. /\ r \in OrderRecord /\ r.status = "RECEIPT_SUBMITTED" /\ r.locked = old.locked
        /\ r.disputed = old.disputed
        /\ SameTerms(old, r)
    BY <1>1 DEF OrderRecord, Open, SameTerms
  <1> HIDE DEF r
  <1>4. OrderOK(r) /\ Moves(old, r)
    BY <1>1, <1>2, <1>3 DEF OrderOK, Moves, SameTerms, Open, Settled
  <1>5. IInv' /\ SuiHeld' = SuiHeld
    BY <1>2, StillStep DEF OInv
  <1>6. SuiHeld' = SuiHeld + old.locked - r.locked
    BY <1>1, <1>3, <1>5 DEF OrderRecord
  <1> QED
    BY <1>2, <1>3, <1>4, <1>5, <1>6 DEF Transition, old

LEMMA DisputeMoves ==
    ASSUME OInv, NEW o \in OrderIds, NEW s \in Addr, OpenDispute(s, o)
    PROVE  IInv' /\ now' = now /\ Transition(o)
  <1> DEFINE old == orders[o]
             r == [old EXCEPT !.status = "DISPUTED", !.disputed = TRUE]
  <1>1. /\ old \in OrderRecord /\ OrderOK(old) /\ SuiHeld \in Int
        /\ orders \in [OrderIds -> OrderRecord]
    BY OrderFacts DEF SuiHeld, OInv, OrdersOK
  <1>2. /\ old.status = "RECEIPT_SUBMITTED" /\ orders' = [orders EXCEPT ![o] = r]
        /\ UNCHANGED launchpadVars /\ now' = now
    <2>1. (now < old.receiptAt + old.window) = TRUE
      BY DEF OpenDispute, WindowEnd
    <2> QED
      BY <1>1, <2>1 DEF OpenDispute, Status, capVars, OrderRecord
  <1> HIDE DEF old
  <1>3. /\ r \in OrderRecord /\ r.status = "DISPUTED" /\ r.locked = old.locked
        /\ r.receiptAt = old.receiptAt /\ r.disputed /\ SameTerms(old, r)
    BY <1>1 DEF OrderRecord, Open, SameTerms
  <1> HIDE DEF r
  <1>4. OrderOK(r) /\ Moves(old, r)
    BY <1>1, <1>2, <1>3 DEF OrderOK, Moves, SameTerms, Open, Settled
  <1>5. IInv' /\ SuiHeld' = SuiHeld
    BY <1>2, StillStep DEF OInv
  <1>6. SuiHeld' = SuiHeld + old.locked - r.locked
    BY <1>1, <1>3, <1>5 DEF OrderRecord
  <1> QED
    BY <1>2, <1>3, <1>4, <1>5, <1>6 DEF Transition, old

\* Every call on an order is a transition of it.
LEMMA CallStep ==
    ASSUME OInv, NEW o \in OrderIds, OrderCall(o)
    PROVE  IInv' /\ now' = now /\ Transition(o)
  <1>1. ASSUME NEW b \in Addr, NEW n \in Nat, NEW d \in Int, NEW w \in Int,
               CreateWorkOrder(o, b, n, d, w)
        PROVE  IInv' /\ now' = now /\ Transition(o)
    BY <1>1, CreateStep
  <1>2. ASSUME NEW pv \in PackageVersions, NEW s \in Addr, ReleaseWorkOrder(pv, s, o)
        PROVE  IInv' /\ now' = now /\ Transition(o)
    <2>1. /\ orders[o].status = "RECEIPT_SUBMITTED"
          /\ s # orders[o].buyer => now >= WindowEnd(o)
          /\ RecordServicePaymentSui(pv, s, orders[o].locked, sui)
          /\ Settle(o, "RELEASED", s) /\ now' = now
      BY <1>2 DEF ReleaseWorkOrder, Status, capVars
    <2>2. IInv' /\ SuiHeld' = SuiHeld + orders[o].locked
      BY <2>1, PayStep
    <2> QED
      BY <2>1, <2>2, SettleStep DEF Open, Settled
  <1>3. ASSUME NEW pv \in PackageVersions, NEW s \in Addr, ResolveForPayee(pv, s, o)
        PROVE  IInv' /\ now' = now /\ Transition(o)
    <2>1. /\ orders[o].status = "DISPUTED"
          /\ RecordServicePaymentSui(pv, s, orders[o].locked, sui)
          /\ Settle(o, "RELEASED", s) /\ now' = now
      BY <1>3 DEF ResolveForPayee, Status, capVars
    <2>2. orders[o].disputed
      BY <2>1, OrderFacts DEF OrderOK
    <2>3. IInv' /\ SuiHeld' = SuiHeld + orders[o].locked
      BY <2>1, PayStep
    <2> QED
      BY <2>1, <2>2, <2>3, SettleStep DEF Open, Settled
  <1>4. ASSUME NEW s \in Addr, RefundWorkOrder(s, o)
        PROVE  IInv' /\ now' = now /\ Transition(o)
    <2>1. /\ s = orders[o].buyer /\ orders[o].status \in {"NEW", "ACCEPTED"}
          /\ now >= orders[o].deadline
          /\ sui' = Credit(sui, orders[o].buyer, orders[o].locked)
          /\ UNCHANGED <<published, config, account, circulating>>
          /\ Settle(o, "REFUNDED", s) /\ now' = now
      BY <1>4 DEF RefundWorkOrder, Status, capVars
    <2>2. IInv' /\ SuiHeld' = SuiHeld + orders[o].locked
      BY <2>1, ReturnStep
    <2> QED
      BY <2>1, <2>2, SettleStep DEF Open, Settled
  <1>5. ASSUME NEW s \in Addr, ResolveForBuyer(s, o)
        PROVE  IInv' /\ now' = now /\ Transition(o)
    <2>1. /\ orders[o].status = "DISPUTED"
          /\ sui' = Credit(sui, orders[o].buyer, orders[o].locked)
          /\ UNCHANGED <<published, config, account, circulating>>
          /\ Settle(o, "REFUNDED", s) /\ now' = now
      BY <1>5 DEF ResolveForBuyer, Status, capVars
    <2>2. orders[o].disputed
      BY <2>1, OrderFacts DEF OrderOK
    <2>3. IInv' /\ SuiHeld' = SuiHeld + orders[o].locked
      BY <2>1, ReturnStep
    <2> QED
      BY <2>1, <2>2, <2>3, SettleStep DEF Open, Settled
  <1> QED
    BY <1>1, <1>2, <1>3, <1>4, <1>5, AcceptMoves, ReceiptMoves, DisputeMoves DEF OrderCall

-----------------------------------------------------------------------------
\* Where an order of each status is in the abstract escrow.
LEMMA PhaseOf ==
    /\ Phase("NONE") = "absent" /\ Phase("NEW") = "held" /\ Phase("ACCEPTED") = "held"
    /\ Phase("RECEIPT_SUBMITTED") = "delivered" /\ Phase("DISPUTED") = "contested"
    /\ Phase("RELEASED") = "paid" /\ Phase("REFUNDED") = "returned"
  BY DEF Phase

\* How far an order of each status has come.
LEMMA RankOf ==
    /\ Rank("NONE") = 0 /\ Rank("NEW") = 1 /\ Rank("ACCEPTED") = 2
    /\ Rank("RECEIPT_SUBMITTED") = 3 /\ Rank("DISPUTED") = 4
    /\ Rank("RELEASED") = 5 /\ Rank("REFUNDED") = 5
  BY DEF Rank, Settled

PhaseNow == [o \in OrderIds |-> Phase(orders[o].status)]

PromiseVars == <<PhaseNow, Locked>>

\* A receipt, and that there was one, stays.
ReceiptsKept ==
    \A p \in OrderIds :
        /\ orders[p].status # "ACCEPTED" => orders'[p].receiptAt = orders[p].receiptAt
        /\ orders[p].status \in Done => orders'[p].status \in Done

\* An order that changes goes forward, on its terms.
Advanced ==
    \A p \in OrderIds : orders'[p] # orders[p] =>
        /\ Rank(orders'[p].status) > Rank(Status(p))
        /\ Status(p) # "NONE" => SameTerms(orders[p], orders'[p])

\* A transition keeps the invariant and every receipt, and the abstract escrow
\* takes the corresponding step, or none for an acceptance.
LEMMA TransitionKeeps ==
    ASSUME OInv, NEW o \in OrderIds, IInv', now' = now, Transition(o)
    PROVE  /\ OInv'
           /\ Promise!Next \/ UNCHANGED PromiseVars
           /\ ReceiptsKept /\ Advanced
  <1>1. PICK r \in OrderRecord :
            /\ OrderOK(r)
            /\ orders' = [orders EXCEPT ![o] = r]
            /\ Moves(orders[o], r)
            /\ orders[o].status # "ACCEPTED" => r.receiptAt = orders[o].receiptAt
            /\ orders[o].status # "NONE" => SameTerms(orders[o], r)
            /\ SuiHeld' = SuiHeld + orders[o].locked - r.locked
    BY DEF Transition
  <1>2. orders \in [OrderIds -> OrderRecord] /\ now \in Nat
    BY DEF OInv, OrdersOK
  <1>3. OrdersOK'
    BY <1>1, <1>2 DEF OInv, OrdersOK
  <1>4. /\ Locked \in [OrderIds -> Nat] /\ r.locked \in Nat
        /\ Locked' = [Locked EXCEPT ![o] = r.locked]
        /\ Locked[o] = orders[o].locked
    BY <1>1, <1>2 DEF Locked, OrderRecord
  <1>5. PhaseNow' = [PhaseNow EXCEPT ![o] = Phase(r.status)]
        /\ PhaseNow[o] = Phase(orders[o].status)
    BY <1>1, <1>2 DEF PhaseNow
  <1>6. FundsConserved'
    <2>1. Locked \in [OrderIds -> Int] /\ r.locked \in Int /\ IsFiniteSet(OrderIds)
      BY <1>4, OrderAssumption
    <2>2. Total(Locked) \in Int
      BY <2>1, TotalUpdate, SMT
    <2>3. Total(Locked') = Total(Locked) + r.locked - orders[o].locked
      <3>1. Total([Locked EXCEPT ![o] = r.locked]) = Total(Locked) + r.locked - Locked[o]
        BY <2>1, TotalUpdate, Zenon
      <3> QED
        BY <1>4, <3>1
    <2>4. SuiHeld + Total(Locked) = Total(SuiSupply) /\ orders[o].locked \in Nat
      BY <1>2 DEF OInv, FundsConserved, SuiHeld, Locked, OrderRecord
    <2>5. SuiHeld \in Int
      BY OrderFacts DEF SuiHeld
    <2>6. SuiHeld' + Total(Locked') = Total(SuiSupply)
      BY <1>1, <1>4, <2>2, <2>3, <2>4, <2>5
    <2> QED
      BY <2>6 DEF FundsConserved, SuiHeld, Locked
  <1>7. Promise!Next \/ UNCHANGED PromiseVars
    <2> DEFINE old == orders[o]
    <2> USE DEF Promise!Next, Promise!Move
    <2>1. CASE old.status = "NONE" /\ r.status = "NEW" /\ r.locked # 0
      <3>1. Promise!Fund(o)
        BY <1>4, <1>5, <2>1, PhaseOf DEF Promise!Fund, PhaseNow, Locked
      <3> QED
        BY <3>1
    <2>2. CASE old.status = "NEW" /\ r.status = "ACCEPTED" /\ r.locked = old.locked
      <3>1. Locked' = Locked
        BY <1>4, <2>2
      <3>2. PhaseNow' = PhaseNow
        BY <1>5, <2>2, PhaseOf DEF PhaseNow
      <3> QED
        BY <3>1, <3>2 DEF PromiseVars
    <2>3. CASE old.status = "ACCEPTED" /\ r.status = "RECEIPT_SUBMITTED"
                 /\ r.locked = old.locked
      <3>1. Promise!Deliver(o)
        BY <1>4, <1>5, <2>3, PhaseOf DEF Promise!Deliver, PhaseNow, Locked
      <3> QED
        BY <3>1
    <2>4. CASE old.status = "RECEIPT_SUBMITTED" /\ r.status = "DISPUTED"
                 /\ r.locked = old.locked
      <3>1. Promise!Contest(o)
        BY <1>4, <1>5, <2>4, PhaseOf DEF Promise!Contest, PhaseNow, Locked
      <3> QED
        BY <3>1
    <2>5. CASE /\ old.status \in {"RECEIPT_SUBMITTED", "DISPUTED"}
               /\ r.status = "RELEASED" /\ r.locked = 0
      <3>1. Promise!Pay(o)
        BY <1>4, <1>5, <2>5, PhaseOf DEF Promise!Pay, PhaseNow, Locked
      <3> QED
        BY <3>1
    <2>6. CASE /\ old.status \in {"NEW", "ACCEPTED", "DISPUTED"}
               /\ r.status = "REFUNDED" /\ r.locked = 0
      <3>1. Promise!Return(o)
        BY <1>4, <1>5, <2>6, PhaseOf DEF Promise!Return, PhaseNow, Locked
      <3> QED
        BY <3>1
    <2> QED
      BY <1>1, <2>1, <2>2, <2>3, <2>4, <2>5, <2>6 DEF Moves
  <1>8. ReceiptsKept
    BY <1>1, <1>2 DEF ReceiptsKept, Moves, Done, Settled
  <1>9. Advanced
    <2>1. Rank(r.status) > Rank(orders[o].status)
      BY <1>1, RankOf DEF Moves
    <2> QED
      BY <1>1, <1>2, <2>1 DEF Advanced, Status
  <1> QED
    BY <1>3, <1>6, <1>7, <1>8, <1>9 DEF OInv

\* Whatever leaves the orders, and the SUI the rest of the system holds, alone.
LEMMA BesideStep ==
    ASSUME OInv, IInv', now' \in Nat, UNCHANGED orders, SuiHeld' = SuiHeld
    PROVE  OInv' /\ UNCHANGED PromiseVars
  <1>1. OrdersOK'
    BY DEF OInv, OrdersOK
  <1>2. UNCHANGED PromiseVars
    BY DEF PromiseVars, PhaseNow, Locked
  <1>3. FundsConserved'
    BY DEF OInv, FundsConserved, SuiHeld
  <1> QED
    BY <1>1, <1>2, <1>3 DEF OInv

\* What a settlement pays.
InFull ==
    \A o \in OrderIds : Status(o) \in Open =>
        /\ orders'[o].status = "REFUNDED" =>
              sui' = Credit(sui, orders[o].buyer, orders[o].amount)
        /\ orders'[o].status = "RELEASED" =>
              /\ account'.navSui + Total(sui') = account.navSui + Total(sui) + orders[o].amount
              /\ account'.navSui - account.navSui >= FeeOn(orders[o].amount, MinNavShare)

\* What a step of the system keeps.
Kept ==
    /\ OInv'
    /\ Promise!Next \/ UNCHANGED PromiseVars
    /\ ReceiptsKept /\ Advanced /\ InFull
    /\ Unharmed

\* No call on an order harms the account, and a settlement pays in full.
LEMMA CallPays ==
    ASSUME OInv, NEW o \in OrderIds, OrderCall(o)
    PROVE  InFull /\ Unharmed
  <1>1. /\ orders \in [OrderIds -> OrderRecord] /\ IInv /\ sui \in [Addr -> Nat]
        /\ account.creator \in Addr
    BY OrderFacts DEF OInv, OrdersOK
  <1>2. orders[o].locked \in Nat /\ (Status(o) \in Open => orders[o].locked = orders[o].amount)
    BY <1>1, OrderFacts DEF OrderRecord, OrderOK, Status
  <1>3. ASSUME account' = account
        PROVE  Unharmed
    <2>1. /\ account.navSui \in Nat /\ account.navToken \in Nat /\ account.revenue \in Nat
          /\ Product \in Int
      BY <1>1, LaunchpadAssumption DEF IInv, LaunchpadTypeOK, Account, Product
    <2>2. Product' = Product
      BY <1>3 DEF Product
    <2> QED
      BY <1>3, <2>1, <2>2 DEF Unharmed
  <1>4. ASSUME NEW r, orders' = [orders EXCEPT ![o] = r], r.status \notin Settled
        PROVE  InFull
    <2>1. \A p \in OrderIds : orders'[p].status \in Settled => orders'[p] = orders[p]
      BY <1>1, <1>4
    <2> QED
      BY <2>1 DEF InFull, Status, Open, Settled
  <1>5. ASSUME NEW st, NEW s, Settle(o, st, s)
        PROVE  /\ \A p \in OrderIds : p # o => orders'[p] = orders[p]
               /\ orders'[o].status = st
    BY <1>1, <1>5 DEF Settle, OrderRecord
  <1>6. ASSUME NEW s, Settle(o, "REFUNDED", s), Status(o) \in Open, UNCHANGED account,
               sui' = Credit(sui, orders[o].buyer, orders[o].locked)
        PROVE  InFull /\ Unharmed
    BY <1>2, <1>3, <1>5, <1>6 DEF InFull, Status, Open
  <1>7. ASSUME NEW pv \in PackageVersions, NEW s \in Addr, Settle(o, "RELEASED", s),
               Status(o) \in Open,
               RecordServicePaymentSui(pv, s, orders[o].locked, sui)
        PROVE  InFull /\ Unharmed
    <2> DEFINE n == orders[o].locked
    <2>1. n \in Nat /\ RecordServicePaymentSui(pv, s, n, sui)
      BY <1>2, <1>7
    <2> HIDE DEF n
    <2>2. /\ IInv' /\ Product' = Product
          /\ account'.navSui + Total(sui') = account.navSui + Total(sui) + n
          /\ account'.navSui - account.navSui >= FeeOn(n, MinNavShare)
          /\ account'.navSui >= account.navSui
          /\ account'.navToken = account.navToken
          /\ account'.revenue = IF s # account.creator THEN account.revenue + n
                                                       ELSE account.revenue
          /\ account'.credTarget = account.credTarget
          /\ \A a \in Addr : sui'[a] >= sui[a]
      BY <1>1, <2>1, RecordStep
    <2>3. InFull
      BY <1>2, <1>5, <1>7, <2>2 DEF InFull, Status, Open, n
    <2>4. account.navToken \in Nat /\ account.revenue \in Nat /\ Product \in Int
      BY <1>1, LaunchpadAssumption DEF IInv, LaunchpadTypeOK, Account, Product
    <2>5. account'.revenue # account.revenue => Credited = n
      BY <2>1, <2>2, <2>4 DEF Credited
    <2> QED
      BY <1>1, <2>1, <2>2, <2>3, <2>4, <2>5 DEF Unharmed
  <1>8. CASE \E b \in Addr, n \in Nat, d \in Int, w \in Int : CreateWorkOrder(o, b, n, d, w)
    <2>1. PICK b \in Addr, n \in Nat, d \in Int, w \in Int : CreateWorkOrder(o, b, n, d, w)
      BY <1>8
    <2> DEFINE r == [NoOrder EXCEPT !.status = "NEW", !.buyer = b, !.locked = n,
                                    !.amount = n, !.deadline = d, !.window = w]
    <2>2. orders' = [orders EXCEPT ![o] = r] /\ account' = account
      BY <2>1 DEF CreateWorkOrder
    <2>3. r.status = "NEW"
      BY DEF NoOrder
    <2> HIDE DEF r
    <2> QED
      BY <1>3, <1>4, <2>2, <2>3 DEF Settled
  <1>9. CASE Accept(o) \/ SubmitReceipt(o) \/ \E s \in Addr : OpenDispute(s, o)
    <2>1. account' = account
      BY <1>9 DEF Accept, SubmitReceipt, OpenDispute, launchpadVars
    <2>2. /\ orders' = [orders EXCEPT ![o] = orders'[o]]
          /\ orders'[o].status \in {"ACCEPTED", "RECEIPT_SUBMITTED", "DISPUTED"}
      BY <1>1, <1>9 DEF Accept, SubmitReceipt, OpenDispute, OrderRecord
    <2> QED
      BY <1>3, <1>4, <2>1, <2>2 DEF Settled
  <1>10. CASE \E s \in Addr : RefundWorkOrder(s, o) \/ ResolveForBuyer(s, o)
    BY <1>6, <1>10 DEF RefundWorkOrder, ResolveForBuyer, Open
  <1>11. CASE \E pv \in PackageVersions, s \in Addr : ReleaseWorkOrder(pv, s, o)
                                                      \/ ResolveForPayee(pv, s, o)
    BY <1>7, <1>11 DEF ReleaseWorkOrder, ResolveForPayee, Open
  <1> QED
    BY <1>8, <1>9, <1>10, <1>11 DEF OrderCall

LEMMA CallKeeps ==
    ASSUME OInv, NEW o \in OrderIds, OrderCall(o)
    PROVE  Kept
  BY CallStep, CallPays, TransitionKeeps DEF Kept

-----------------------------------------------------------------------------
(* The chain is open to everybody.  WorkOrder's runs leave out the trades and *)
(* payments, which touch nothing a work-order call reads, and let buyers      *)
(* choose from small sets.  Here is what anybody can do to the objects of an  *)
(* order: any call on any order with any arguments, any call of the           *)
(* launchpad, any call of the payee's owner, and time.                        *)

WorldNext ==
    \/ \E o \in OrderIds : OrderCall(o)
    \/ LaunchpadNext /\ UNCHANGED capVars /\ UNCHANGED orders
    \/ CapsNext /\ UNCHANGED launchpadVars /\ UNCHANGED orders

WorldSpec == OrderInit /\ [][WorldNext]_orderVars

LEMMA OrderStepCalls ==
    ASSUME NEW o \in OrderIds, OrderStep(o)
    PROVE  OrderCall(o)
  <1>1. CASE \E b \in Addr, n \in AmountChoices, d \in DeadlineChoices, w \in WindowChoices :
                CreateWorkOrder(o, b, n, d, w)
    <2>1. AmountChoices \subseteq Nat /\ DeadlineChoices \subseteq Int /\ WindowChoices \subseteq Int
      BY OrderAssumption
    <2> QED
      BY <1>1, <2>1 DEF OrderCall
  <1>2. CASE PayeeStep(o)
    BY <1>2 DEF PayeeStep, AcceptStep, ReceiptStep, AcceptWithOwner, AcceptWithOperator,
                AcceptWithOperatorV2, SubmitReceiptWithOwner, SubmitReceiptWithOperator,
                SubmitReceiptWithOperatorV2, OrderCall
  <1>3. CASE Finalise(o)
    BY <1>3 DEF Finalise, OrderCall
  <1>4. CASE Reclaim(o)
    BY <1>4 DEF Reclaim, OrderCall
  <1>5. CASE \E s \in Addr : OpenDispute(s, o)
    BY <1>5 DEF OrderCall
  <1>6. CASE Resolve(o)
    BY <1>6 DEF Resolve, OrderCall
  <1> QED
    BY <1>1, <1>2, <1>3, <1>4, <1>5, <1>6 DEF OrderStep

\* The steps of WorkOrder are steps of that world.
LEMMA NextIsWorld == Next => WorldNext
  <1> SUFFICES ASSUME Next
               PROVE  WorldNext
    OBVIOUS
  <1>1. CASE \E o \in OrderIds : OrderStep(o)
    BY <1>1, OrderStepCalls DEF WorldNext
  <1>2. CASE LaunchpadEnv /\ UNCHANGED capVars /\ UNCHANGED orders
    <2>1. Publisher \in Addr
      BY ConfigAssumption
    <2>2. MigrateAccountStep => LaunchpadNext
      BY <2>1 DEF MigrateAccountStep, LaunchpadNext, LaunchpadStep
    <2>3. (\E pv \in PackageVersions, s \in Addr, a \in CreatorChoices : SetCreator(pv, s, a))
             => LaunchpadNext
      BY DEF LaunchpadNext, LaunchpadStep
    <2> QED
      BY <1>2, <2>2, <2>3 DEF LaunchpadEnv, LaunchpadNext, WorldNext
  <1>3. CASE CapsNext /\ UNCHANGED launchpadVars /\ UNCHANGED orders
    BY <1>3 DEF WorldNext
  <1> QED
    BY <1>1, <1>2, <1>3 DEF Next

LEMMA WorldKeeps == OInv /\ [WorldNext]_orderVars => Kept
  <1> SUFFICES ASSUME OInv, [WorldNext]_orderVars
               PROVE  Kept
    OBVIOUS
  <1>1. IInv /\ now \in Nat
    BY DEF OInv, OrdersOK
  <1>2. ASSUME IInv', now' \in Nat, UNCHANGED orders, Sound
        PROVE  Kept
    <2>1. InFull
      BY <1>2 DEF InFull, Status, Open
    <2> QED
      BY <1>2, <2>1, BesideStep DEF Kept, ReceiptsKept, Advanced, Sound
  <1>3. CASE \E o \in OrderIds : OrderCall(o)
    BY <1>3, CallKeeps
  <1>4. CASE LaunchpadNext /\ UNCHANGED capVars /\ UNCHANGED orders
    BY <1>1, <1>2, <1>4, NextInv DEF capVars
  <1>5. ASSUME UNCHANGED launchpadVars
        PROVE  IInv' /\ Sound
    BY <1>1, <1>5, NextInv
  <1>6. CASE CapsNext /\ UNCHANGED launchpadVars /\ UNCHANGED orders
    <2>1. now' \in Nat
      BY <1>1, <1>6 DEF CapsNext, OwnerStep, Tick, IssueOperatorCap,
                        UpdateOperatorCapTargets, RevokeOperatorCap
    <2> QED
      BY <1>2, <1>5, <1>6, <2>1
  <1>7. CASE UNCHANGED orderVars
    <2>1. now' \in Nat /\ UNCHANGED orders /\ UNCHANGED launchpadVars
      BY <1>1, <1>7 DEF orderVars, launchpadVars
    <2> QED
      BY <1>2, <1>5, <2>1
  <1> QED
    BY <1>3, <1>4, <1>6, <1>7 DEF WorldNext

LEMMA NextKeeps == OInv /\ [Next]_orderVars => Kept
  BY NextIsWorld, WorldKeeps

LEMMA InitOInv == OrderInit => OInv /\ Promise!Init
  <1> SUFFICES ASSUME OrderInit
               PROVE  OInv /\ Promise!Init
    OBVIOUS
  <1>1. PICK creator \in Addr : account = FreshAccount(1, creator, None)
    BY DEF OrderInit
  <1>2. config \in Config /\ config.credTarget \in Nat \ {0} /\ published = 1
        /\ ConfigTypeOK /\ SharesSafe
    BY ConfigAssumption DEF OrderInit, ConfigInit, Config, ConfigTypeOK, SharesSafe
  <1>3. /\ account \in Account /\ account.version = 1 /\ account.realSui = 0
        /\ account.navSui = 0 /\ account.navToken = 0
        /\ account.realToken = SaleSupply /\ account.totalSupply = SaleSupply + LpSupply
    <2> DEFINE fresh == [version |-> 1, creator |-> creator, linkedIdentity |-> None,
                         dwallets |-> None, realSui |-> 0, realToken |-> SaleSupply,
                         navSui |-> 0, navToken |-> 0, accessThreshold |-> 0,
                         acceptCoinPayments |-> FALSE, revenue |-> 0,
                         credTarget |-> config.credTarget,
                         totalSupply |-> SaleSupply + LpSupply]
    <2>1. account = fresh
      BY <1>1 DEF FreshAccount, NoAccount
    <2>2. SaleSupply \in Nat /\ SaleSupply + LpSupply \in Nat /\ 1 \in 0 .. MaxVersion
      BY LaunchpadAssumption, ConfigAssumption
    <2>3. fresh \in Account
      BY <1>2, <2>2, LaunchpadAssumption DEF Account
    <2> QED
      BY <2>1, <2>3
  <1>4. sui = SuiSupply /\ circulating = 0 /\ now = 0
        /\ orders = [o \in OrderIds |-> NoOrder]
    BY DEF OrderInit, CapsInit
  <1>5. IInv
    <2>1. LaunchpadTypeOK
      BY <1>2, <1>3, <1>4, LaunchpadAssumption DEF LaunchpadTypeOK
    <2>2. PoolInv
      BY <1>3, <1>4, LaunchpadAssumption DEF PoolInv
    <2>3. TokensConserved /\ PreLaunch
      BY <1>3, <1>4, LaunchpadAssumption DEF TokensConserved, PreLaunch, Launched
    <2> QED
      BY <1>2, <2>1, <2>2, <2>3 DEF IInv
  <1>6. /\ NoOrder \in OrderRecord /\ OrderOK(NoOrder)
        /\ NoOrder.locked = 0 /\ NoOrder.status = "NONE"
    BY ConfigAssumption DEF NoOrder, OrderRecord, OrderOK
  <1>7. OrdersOK
    BY <1>4, <1>6 DEF OrdersOK
  <1>8. Locked = [o \in OrderIds |-> 0]
    BY <1>4, <1>6 DEF Locked
  <1>9. FundsConserved
    <2>1. IsFiniteSet(OrderIds)
      BY OrderAssumption
    <2>2. Total(Locked) = 0
      BY <1>8, <2>1, TotalZero
    <2>3. Total(sui) \in Int
      BY <1>4, WalletCredited, LaunchpadAssumption, ConfigAssumption
    <2> QED
      BY <1>3, <1>4, <2>2, <2>3 DEF FundsConserved, Locked
  <1>10. Promise!Init
    BY <1>4, <1>6, PhaseOf DEF Promise!Init
  <1> QED
    BY <1>5, <1>7, <1>9, <1>10 DEF OInv

\* The escrow's invariant holds whatever anybody calls.
THEOREM WorldInvariant == WorldSpec => []OInv
  <1>1. OInv /\ [WorldNext]_orderVars => OInv'
    BY WorldKeeps DEF Kept
  <1> QED
    BY <1>1, InitOInv, PTL DEF WorldSpec

\* Every behaviour that the runs explore is one of that world.
THEOREM RunsAreInTheWorld == Spec => WorldSpec
  <1>1. [Next]_orderVars => [WorldNext]_orderVars
    BY NextIsWorld
  <1> QED
    BY <1>1, PTL DEF Spec, WorldSpec

THEOREM EscrowInvariant == Spec => []OInv
  BY RunsAreInTheWorld, WorldInvariant, PTL

\* Money leaves the escrow only for a reason it admits: the buyer's own release, a
\* full dispute window, an undelivered order past its deadline, or an admin's word
\* on a dispute.
THEOREM SettlementsJustified == WorldSpec => []SettlementJustified
  <1>1. OInv => SettlementJustified
    BY DEF OInv, OrdersOK, OrderOK, SettlementJustified
  <1> QED
    BY <1>1, WorldInvariant, PTL

\* Wallets, escrows, pool and NAV together always hold the SUI there was.
THEOREM EscrowFundsConserved == WorldSpec => []FundsConserved
  <1>1. OInv => FundsConserved
    BY DEF OInv
  <1> QED
    BY <1>1, WorldInvariant, PTL

\* The escrow of the code is the abstract one: every call is one of its steps.
THEOREM EscrowImplemented == WorldSpec => ImplementsEscrow
  <1>1. OInv /\ [WorldNext]_orderVars => [Promise!Next]_(Promise!escrowVars)
    BY WorldKeeps DEF Kept, Promise!escrowVars, PromiseVars, PhaseNow, Locked
  <1> QED
    BY <1>1, InitOInv, WorldInvariant, PTL DEF WorldSpec, ImplementsEscrow, Promise!Spec

\* An order only goes forward, on the terms it was opened on, so at most five
\* calls ever change it.
THEOREM OrdersOnlyAdvance == WorldSpec => OrdersAdvance
  <1>1. OInv /\ [WorldNext]_orderVars =>
          [\A o \in OrderIds : orders'[o] # orders[o] =>
              /\ Rank(orders'[o].status) > Rank(Status(o))
              /\ Status(o) # "NONE" =>
                    \A f \in {"buyer", "amount", "deadline", "window"} :
                        orders'[o][f] = orders[o][f]]_orderVars
    BY WorldKeeps, Zenon DEF Kept, Advanced, SameTerms
  <1> QED
    BY <1>1, WorldInvariant, PTL DEF WorldSpec, OrdersAdvance

\* What an order was opened with is what it pays or gives back.
THEOREM AlwaysSettledInFull == WorldSpec => SettledInFull
  <1>1. OInv /\ [WorldNext]_orderVars => [InFull]_orderVars
    BY WorldKeeps DEF Kept
  <1> QED
    BY <1>1, WorldInvariant, PTL DEF WorldSpec, SettledInFull, InFull

\* With orders opened, settled and disputed among the trades, every holder of
\* tokens can still sell.
THEOREM SolventAmongOrders == WorldSpec => []Solvent
  <1>1. OInv => Solvent
    BY PoolSolvent DEF OInv
  <1> QED
    BY <1>1, WorldInvariant, PTL

\* And what the launchpad promises of each of its own steps it promises of each
\* work-order call: the pool's product and the hire price do not fall, and revenue
\* grows by no more than NAV backs at its minimum share.  Who pays for that growth is
\* not promised: a creator may open an order that somebody else releases.
THEOREM PromisesAmongOrders ==
    WorldSpec => KNeverFalls /\ HirePriceNeverFalls /\ CredBacked
  <1>1. OInv /\ [WorldNext]_orderVars => Unharmed /\ IInv /\ IInv'
    BY WorldKeeps DEF Kept, OInv
  <1>2. Unharmed =>
          [Launched => (account'.realSui + VirtualSui) * (account'.realToken + VirtualToken)
              >= (account.realSui + VirtualSui) * (account.realToken + VirtualToken)]_launchpadVars
    BY DEF Unharmed, Product
  <1>3. IInv /\ IInv' /\ Unharmed =>
          [Launched => HirePrice' >= HirePrice /\ account'.navToken >= account.navToken]_launchpadVars
    BY HireKept
  <1>4. IInv /\ IInv' /\ Unharmed =>
          [account'.revenue # account.revenue =>
              /\ account'.revenue > account.revenue
              /\ account'.navSui - account.navSui
                    >= FeeOn(account'.revenue - account.revenue, MinNavShare)]_launchpadVars
    BY DEF IInv, LaunchpadTypeOK, Account, Unharmed, Credited
  <1> QED
    BY <1>1, <1>2, <1>3, <1>4, WorldInvariant, PTL
       DEF WorldSpec, KNeverFalls, HirePriceNeverFalls, CredBacked

\* Nor do orders among the trades let the pool lose value: from any state on, it has
\* less SUI than it had only while it has more tokens (PoolKeepsItsValue).
THEOREM PoolKeepsItsValueAmongOrders ==
    ASSUME NEW s \in Nat, NEW t \in Nat
    PROVE  WorldSpec =>
             [](account.realSui >= s /\ account.realToken >= t
                  => [](account.realToken <= t => account.realSui >= s))
  <1> DEFINE Start == account.realSui >= s /\ account.realToken >= t
             Held  == Product >= (s + VirtualSui) * (t + VirtualToken)
             End   == account.realToken <= t => account.realSui >= s
  <1>1. OInv /\ Start => Held
    BY ValueStart DEF OInv
  <1>2. OInv /\ Held => End
    BY ValueEnd DEF OInv
  <1>3. OInv /\ Held /\ [WorldNext]_orderVars => Held'
    <2> SUFFICES ASSUME OInv, Held, [WorldNext]_orderVars
                 PROVE  Held'
      OBVIOUS
    <2>1. IInv /\ IInv' /\ Unharmed
      BY WorldKeeps DEF Kept, OInv
    <2> QED
      BY <2>1, ValueStep
  <1> HIDE DEF Start, Held, End
  <1>4. WorldSpec => [](Start => []End)
    BY <1>1, <1>2, <1>3, WorldInvariant, PTL DEF WorldSpec
  <1> QED
    BY <1>4 DEF Start, End

-----------------------------------------------------------------------------
(* The page and the agent. *)

\* What a copy of the order still says of the order itself.
Seen(copy) ==
    /\ copy \in OrderRecord
    /\ copy.status \in {"NONE", "NEW", "ACCEPTED"} => copy.receiptAt = 0
    /\ copy.status = "RECEIPT_SUBMITTED" =>
          orders[Watched].status \in Done /\ orders[Watched].receiptAt = copy.receiptAt

ButtonStatus(b) ==
    CASE b = "accept" -> {"NEW"}
      [] b = "submit" -> {"ACCEPTED"}
      [] b = "release" -> {"RECEIPT_SUBMITTED"}
      [] b = "dispute" -> {"RECEIPT_SUBMITTED"}
      [] b = "refund" -> {"NEW", "ACCEPTED"}

Pressed(c) ==
    /\ c.button \in {"accept", "submit", "release", "dispute", "refund"}
    /\ c.seen.status \in ButtonStatus(c.button)
    /\ Seen(c.seen)

Commissioned(c) ==
    /\ c.button = "commission"
    /\ c.seen.status = "NONE" /\ c.seen.receiptAt = 0
    /\ c.seen.amount \in Nat /\ c.seen.deadline \in Int /\ c.seen.window \in Int

ClientOK ==
    /\ page \in [wallet : Addr, skew : Int, order : OrderRecord, at : Int]
    /\ Seen(page.order)
    /\ click = NoClick \/ Pressed(click) \/ Commissioned(click)

CInv == OInv /\ ClientOK

\* The call made for a button goes through only on an order that is in the state
\* the button was offered in, or was in NEW and is in ACCEPTED or the reverse.
LEMMA CallsAre ==
    ASSUME CInv, click # NoClick, Calls(click.button)
    PROVE  /\ OrderCall(Watched)
           /\ orders[Watched].receiptAt = click.seen.receiptAt
           /\ orders[Watched].status = "RECEIPT_SUBMITTED" <=>
                 click.seen.status = "RECEIPT_SUBMITTED"
  <1>1. Watched \in OrderIds /\ page.wallet \in Addr
    BY ClientAssumption DEF CInv, ClientOK
  <1>2. OrderOK(orders[Watched])
    BY <1>1, OrderFacts DEF CInv
  <1>3. CASE Commissioned(click)
    <2>1. CreateWorkOrder(Watched, page.wallet, click.seen.amount, click.seen.deadline,
                          click.seen.window)
      BY <1>3 DEF Calls, Commissioned
    <2>2. orders[Watched].status = "NONE"
      BY <2>1 DEF CreateWorkOrder, Status
    <2> QED
      BY <1>1, <1>2, <1>3, <2>1, <2>2 DEF OrderCall, Commissioned, OrderOK
  <1>4. CASE Pressed(click)
    <2> DEFINE was == click.seen
    <2>1. Seen(was) /\ was.status \in ButtonStatus(click.button)
      BY <1>4 DEF Pressed
    <2>2. CASE click.button = "accept"
      <3>1. Accept(Watched)
        BY <2>2 DEF Calls, AcceptWithOwner, AcceptWithOperatorV2
      <3> QED
        BY <1>2, <2>1, <2>2, <3>1 DEF OrderCall, Accept, Status, OrderOK, Seen, ButtonStatus
    <2>3. CASE click.button = "submit"
      <3>1. SubmitReceipt(Watched)
        BY <2>3 DEF Calls, SubmitReceiptWithOwner, SubmitReceiptWithOperatorV2
      <3> QED
        BY <1>2, <2>1, <2>3, <3>1 DEF OrderCall, SubmitReceipt, Status, OrderOK, Seen,
                                     ButtonStatus
    <2>4. CASE click.button = "release"
      <3>1. PICK pv \in PackageVersions : ReleaseWorkOrder(pv, page.wallet, Watched)
        BY <2>4 DEF Calls
      <3>2. orders[Watched].status = "RECEIPT_SUBMITTED"
        BY <3>1 DEF ReleaseWorkOrder, Status
      <3> QED
        BY <1>1, <2>1, <2>4, <3>1, <3>2 DEF OrderCall, Seen, ButtonStatus
    <2>5. CASE click.button = "dispute"
      <3>1. OpenDispute(page.wallet, Watched)
        BY <2>5 DEF Calls
      <3>2. orders[Watched].status = "RECEIPT_SUBMITTED"
        BY <3>1 DEF OpenDispute, Status
      <3> QED
        BY <1>1, <2>1, <2>5, <3>1, <3>2 DEF OrderCall, Seen, ButtonStatus
    <2>6. CASE click.button = "refund"
      <3>1. RefundWorkOrder(page.wallet, Watched)
        BY <2>6 DEF Calls
      <3>2. orders[Watched].status \in {"NEW", "ACCEPTED"}
        BY <3>1 DEF RefundWorkOrder, Status
      <3> QED
        BY <1>1, <1>2, <2>1, <2>6, <3>1, <3>2 DEF OrderCall, Seen, ButtonStatus, OrderOK
    <2> QED
      BY <1>4, <2>2, <2>3, <2>4, <2>5, <2>6 DEF Pressed
  <1> QED
    BY <1>3, <1>4 DEF CInv, ClientOK

\* What a copy says stays true.
LEMMA CopiesStand ==
    ASSUME OInv, ReceiptsKept
    PROVE  \A copy : Seen(copy) => Seen(copy)'
  <1>1. Watched \in OrderIds
    BY ClientAssumption
  <1>2. "RECEIPT_SUBMITTED" \in Done /\ "ACCEPTED" \notin Done
    BY DEF Done, Settled
  <1> QED
    BY <1>1, <1>2 DEF Seen, ReceiptsKept

\* A fresh copy of the order says what the order says.
LEMMA FreshCopy == OInv => Seen(orders[Watched]) /\ Seen(NoOrder)
  <1>1. NoOrder \in OrderRecord /\ NoOrder.status = "NONE" /\ NoOrder.receiptAt = 0
    BY ConfigAssumption DEF NoOrder, OrderRecord
  <1>2. ASSUME OInv
        PROVE  Seen(orders[Watched])
    BY <1>2, OrderFacts, ClientAssumption DEF Seen, OrderOK, Done
  <1> QED
    BY <1>1, <1>2 DEF Seen

\* The actions that only the page takes part in.
LEMMA PageStep ==
    ASSUME CInv, UNCHANGED orderVars,
           \/ Render \/ RenderFails
           \/ \E b \in Buttons : Click(b)
           \/ \E n \in AmountChoices : Commission(n)
    PROVE  ClientOK'
  <1>1. /\ page \in [wallet : Addr, skew : Int, order : OrderRecord, at : Int]
        /\ Seen(page.order) /\ now \in Nat /\ OInv
        /\ click = NoClick \/ Pressed(click) \/ Commissioned(click)
    BY DEF CInv, ClientOK, OInv, OrdersOK
  <1>2. \A copy : Seen(copy) => Seen(copy)'
    BY DEF Seen, orderVars
  <1>3. \A c : (Pressed(c) => Pressed(c)') /\ (Commissioned(c) => Commissioned(c)')
    BY <1>2 DEF Pressed, Commissioned
  <1>4. BrowserClock \in Int
    BY <1>1 DEF BrowserClock
  <1>5. CASE Render
    <2>1. PICK order \in Copies : page' = [page EXCEPT !.order = order, !.at = BrowserClock]
      BY <1>5 DEF Render
    <2>2. Seen(order) /\ order \in OrderRecord
      BY <1>1, <2>1, FreshCopy DEF Copies, Seen
    <2>3. /\ page' \in [wallet : Addr, skew : Int, order : OrderRecord, at : Int]
          /\ page'.order = order
      BY <1>1, <1>4, <2>1, <2>2
    <2>4. Seen(page.order)'
      BY <1>2, <2>2, <2>3 DEF Seen
    <2>5. click' = click
      BY <1>5 DEF Render
    <2>6. (click = NoClick \/ Pressed(click) \/ Commissioned(click))'
      BY <1>1, <1>3, <2>5 DEF Pressed, Commissioned, Seen
    <2> QED
      BY <2>3, <2>4, <2>6 DEF ClientOK
  <1>6. CASE RenderFails
    <2>1. page' = [page EXCEPT !.order = NoOrder] /\ click' = click
      BY <1>6 DEF RenderFails, NotFound
    <2>2. Seen(NoOrder) /\ NoOrder \in OrderRecord
      BY <1>1, FreshCopy DEF Seen
    <2>3. /\ page' \in [wallet : Addr, skew : Int, order : OrderRecord, at : Int]
          /\ page'.order = NoOrder
      BY <1>1, <2>1, <2>2
    <2>4. Seen(page.order)'
      BY <1>2, <2>2, <2>3 DEF Seen
    <2>5. (click = NoClick \/ Pressed(click) \/ Commissioned(click))'
      BY <1>1, <1>3, <2>1 DEF Pressed, Commissioned, Seen
    <2> QED
      BY <2>3, <2>4, <2>5 DEF ClientOK
  <1>7. ASSUME NEW b \in Buttons, Click(b)
        PROVE  ClientOK'
    <2>1. page' = page /\ click' = [button |-> b, seen |-> page.order]
      BY <1>7 DEF Click
    <2>2. /\ b \in {"accept", "submit", "release", "refund", "dispute"}
          /\ page.order.status \in ButtonStatus(b)
      BY DEF Buttons, ShowRelease, ShowRefund, ShowDispute, Delivered, Undelivered,
             ButtonStatus
    <2>3. Seen(page.order)'
      BY <1>1, <1>2, <2>1 DEF Seen
    <2>4. Pressed(click)'
      BY <2>1, <2>2, <2>3 DEF Pressed, ButtonStatus, Seen
    <2> QED
      BY <1>1, <2>1, <2>3, <2>4 DEF ClientOK
  <1>8. ASSUME NEW n \in AmountChoices, Commission(n)
        PROVE  ClientOK'
    <2> DEFINE r == [NoOrder EXCEPT !.amount = n, !.window = CommandWindow,
                                    !.deadline = BrowserClock + CommandTerm]
    <2>1. page' = page /\ click' = [button |-> "commission", seen |-> r]
      BY <1>8 DEF Commission
    <2>2. NoOrder \in OrderRecord /\ NoOrder.status = "NONE" /\ NoOrder.receiptAt = 0
      BY ConfigAssumption DEF NoOrder, OrderRecord
    <2>3. r.status = "NONE" /\ r.receiptAt = 0 /\ r.amount = n /\ r.window = CommandWindow
          /\ r.deadline = BrowserClock + CommandTerm
      BY <2>2 DEF OrderRecord
    <2> HIDE DEF r
    <2>4. n \in Nat /\ CommandWindow \in Int /\ BrowserClock + CommandTerm \in Int
      BY <1>4, OrderAssumption, ClientAssumption
    <2>5. Commissioned(click)'
      BY <2>1, <2>3, <2>4 DEF Commissioned
    <2>6. Seen(page.order)'
      BY <1>1, <1>2, <2>1 DEF Seen
    <2> QED
      BY <1>1, <2>1, <2>5, <2>6 DEF ClientOK
  <1> QED
    BY <1>5, <1>6, <1>7, <1>8

\* A transaction that is executed, by whomever, leaves page and other clicks valid.
LEMMA ChainStep ==
    ASSUME CInv, ReceiptsKept, UNCHANGED page, click' = click \/ click' = NoClick
    PROVE  ClientOK'
  <1>1. /\ page \in [wallet : Addr, skew : Int, order : OrderRecord, at : Int]
        /\ Seen(page.order)
        /\ click = NoClick \/ Pressed(click) \/ Commissioned(click)
    BY DEF CInv, ClientOK
  <1>2. \A copy : Seen(copy) => Seen(copy)'
    BY CopiesStand DEF CInv
  <1>3. \A c : (Pressed(c) => Pressed(c)') /\ (Commissioned(c) => Commissioned(c)')
    BY <1>2 DEF Pressed, Commissioned
  <1>4. Seen(page.order)'
    BY <1>1, <1>2 DEF Seen
  <1>5. (click = NoClick \/ Pressed(click) \/ Commissioned(click))'
    BY <1>1, <1>3 DEF Pressed, Commissioned, Seen
  <1> QED
    BY <1>1, <1>4, <1>5 DEF ClientOK

\* A step of chain, page or agent keeps the invariant; and what the page had signed
\* acts on the delivery its user saw.
ActedOnSeen ==
    click # NoClick /\ click' = NoClick /\ orders' # orders =>
        /\ orders[Watched].receiptAt = click.seen.receiptAt
        /\ orders[Watched].status = "RECEIPT_SUBMITTED" <=>
              click.seen.status = "RECEIPT_SUBMITTED"

LEMMA ClientStep ==
    CInv /\ [ClientNext]_clientVars => CInv' /\ ReceiptsKept /\ ActedOnSeen
  <1> SUFFICES ASSUME CInv, [ClientNext]_clientVars
               PROVE  CInv' /\ ReceiptsKept /\ ActedOnSeen
    OBVIOUS
  <1>1. OInv /\ Watched \in OrderIds
    BY ClientAssumption DEF CInv
  <1>2. ASSUME OrderCall(Watched) \/ [Next]_orderVars
        PROVE  OInv' /\ ReceiptsKept
    BY <1>1, <1>2, CallKeeps, NextKeeps DEF Kept
  <1>3. CASE /\ \/ Render \/ RenderFails
                \/ \E b \in Buttons : Click(b)
                \/ \E n \in AmountChoices : Commission(n)
    <2>1. UNCHANGED orderVars
      BY <1>3 DEF Render, RenderFails, Click, Commission
    <2>2. ActedOnSeen
      BY <2>1 DEF ActedOnSeen, orderVars
    <2> QED
      BY <1>2, <1>3, <2>1, <2>2, PageStep DEF CInv
  <1>4. CASE Executed
    <2>1. click # NoClick /\ Calls(click.button) /\ click' = NoClick /\ page' = page
      BY <1>4 DEF Executed
    <2>2. /\ OrderCall(Watched)
          /\ orders[Watched].receiptAt = click.seen.receiptAt
          /\ orders[Watched].status = "RECEIPT_SUBMITTED" <=>
                click.seen.status = "RECEIPT_SUBMITTED"
      BY <2>1, CallsAre
    <2>3. OInv' /\ ReceiptsKept
      BY <1>2, <2>2
    <2>4. ClientOK'
      BY <2>1, <2>3, ChainStep
    <2> QED
      BY <2>2, <2>3, <2>4 DEF CInv, ActedOnSeen
  <1>5. CASE \/ NotExecuted
             \/ \E j \in Jobs : \/ NothingDone(j)
                                \/ \E endpoint \in {"accept", "submit"} : Build(j, endpoint)
    <2>1. UNCHANGED <<orderVars, page>> /\ (click' = click \/ click' = NoClick)
      BY <1>5 DEF NotExecuted, NothingDone, Build
    <2>2. OInv' /\ ReceiptsKept
      BY <1>2, <2>1
    <2>3. ActedOnSeen
      BY <2>1 DEF ActedOnSeen, orderVars
    <2> QED
      BY <2>1, <2>2, <2>3, ChainStep DEF CInv
  <1>6. ASSUME NEW j \in Jobs, Execute(j)
        PROVE  CInv' /\ ReceiptsKept /\ ActedOnSeen
    <2>1. (Accept(Watched) \/ SubmitReceipt(Watched)) /\ UNCHANGED <<page, click>>
      BY <1>6 DEF Execute, AcceptWithOperatorV2, SubmitReceiptWithOperatorV2
    <2>2. OInv' /\ ReceiptsKept
      BY <1>2, <2>1 DEF OrderCall
    <2> QED
      BY <2>1, <2>2, ChainStep DEF CInv, ActedOnSeen
  <1>7. CASE Next /\ UNCHANGED <<page, click, clicks, jobs>>
    BY <1>2, <1>7, ChainStep DEF CInv, ActedOnSeen
  <1>8. CASE UNCHANGED clientVars
    <2>1. UNCHANGED <<orderVars, page, click>>
      BY <1>8 DEF clientVars
    <2> QED
      BY <1>2, <2>1, ChainStep DEF CInv, ActedOnSeen
  <1> QED
    BY <1>3, <1>4, <1>5, <1>6, <1>7, <1>8 DEF ClientNext, Work

LEMMA ClientInitInv == ClientInit => CInv
  <1> SUFFICES ASSUME ClientInit
               PROVE  CInv
    OBVIOUS
  <1>1. OInv
    BY InitOInv DEF ClientInit
  <1>2. NoOrder \in OrderRecord /\ Seen(NoOrder)
    BY <1>1, FreshCopy DEF Seen
  <1>3. PICK wallet \in Addr, skew \in Skews :
            page = [wallet |-> wallet, skew |-> skew, order |-> NoOrder, at |-> skew]
    BY DEF ClientInit, NotFound
  <1>4. skew \in Int
    BY ClientAssumption
  <1>5. page \in [wallet : Addr, skew : Int, order : OrderRecord, at : Int]
        /\ page.order = NoOrder
    BY <1>2, <1>3, <1>4
  <1> QED
    BY <1>1, <1>2, <1>5 DEF CInv, ClientOK, ClientInit

\* With clients that act on old copies and ask twice, the escrow is as safe.
THEOREM ClientInvariant == ClientSpec => []CInv
  <1>1. CInv /\ [ClientNext]_clientVars => CInv'
    BY ClientStep
  <1> QED
    BY <1>1, ClientInitInv, PTL DEF ClientSpec

\* A transaction signed on a page acts on the delivery its user saw, however old the
\* page and however wrong its clock.
THEOREM SignedOnWhatWasSeen == ClientSpec => ActsOnWhatWasSeen
  <1>1. CInv /\ [ClientNext]_clientVars =>
           [click # NoClick /\ click' = NoClick /\ orders' # orders =>
               /\ orders[Watched].receiptAt = click.seen.receiptAt
               /\ Status(Watched) = "RECEIPT_SUBMITTED" <=>
                     click.seen.status = "RECEIPT_SUBMITTED"]_clientVars
    BY ClientStep DEF ActedOnSeen, Status
  <1> QED
    BY <1>1, ClientInvariant, PTL DEF ClientSpec, ActsOnWhatWasSeen

\* A receipt that was delivered stands: no repeated request delivers again.
THEOREM DeliveredOnce == ClientSpec => ReceiptStands
  <1>1. CInv /\ [ClientNext]_clientVars =>
           [\A o \in OrderIds : orders[o].receiptAt # 0 =>
                 orders'[o].receiptAt = orders[o].receiptAt]_clientVars
    <2>1. ASSUME CInv, [ClientNext]_clientVars, NEW o \in OrderIds, orders[o].receiptAt # 0
          PROVE  orders'[o].receiptAt = orders[o].receiptAt
      <3>1. OrderOK(orders[o])
        BY <2>1, OrderFacts DEF CInv
      <3>2. orders[o].status # "ACCEPTED"
        BY <2>1, <3>1 DEF OrderOK
      <3> QED
        BY <2>1, <3>2, ClientStep DEF ReceiptsKept
    <2> QED
      BY <2>1
  <1> QED
    BY <1>1, ClientInvariant, PTL DEF ClientSpec, ReceiptStands

\* Page and agent only call what anybody may call, so all that holds of that world
\* holds with them.
THEOREM ClientsAreInTheWorld == ClientSpec => WorldSpec
  <1>1. ClientInit => OrderInit
    BY DEF ClientInit
  <1>2. CInv /\ [ClientNext]_clientVars => [WorldNext]_orderVars
    <2> SUFFICES ASSUME CInv, [ClientNext]_clientVars
                 PROVE  [WorldNext]_orderVars
      OBVIOUS
    <2>1. Watched \in OrderIds
      BY ClientAssumption
    <2>2. CASE \/ Render \/ RenderFails \/ NotExecuted
               \/ \E b \in Buttons : Click(b)
               \/ \E n \in AmountChoices : Commission(n)
               \/ \E j \in Jobs : \/ NothingDone(j)
                                  \/ \E endpoint \in {"accept", "submit"} : Build(j, endpoint)
      BY <2>2 DEF Render, RenderFails, NotExecuted, Click, Commission, NothingDone, Build
    <2>3. CASE Executed
      BY <2>1, <2>3, CallsAre DEF Executed, WorldNext
    <2>4. CASE \E j \in Jobs : Execute(j)
      BY <2>1, <2>4 DEF Execute, AcceptWithOperatorV2, SubmitReceiptWithOperatorV2,
                        OrderCall, WorldNext
    <2>5. CASE Next /\ UNCHANGED <<page, click, clicks, jobs>>
      BY <2>5, NextIsWorld
    <2>6. CASE UNCHANGED clientVars
      BY <2>6 DEF clientVars
    <2> QED
      BY <2>2, <2>3, <2>4, <2>5, <2>6 DEF ClientNext, Work
  <1> QED
    BY <1>1, <1>2, ClientInvariant, PTL DEF ClientSpec, WorldSpec

\* Whatever somebody may do with an order, the page says so: while it shows the
\* order as it is, its hints name every call that goes through; and rendered this
\* instant by a right clock, it has the button of every call its wallet may make.
\* This is the half of QuietPageOffersAll that says nothing is left out, stated of
\* the calls themselves: no call is made in a state in which it is not offered.
THEOREM PageHidesNothing ==
    ASSUME CInv, page.order = orders[Watched]
    PROVE  /\ \A call \in {"accept", "submit", "release", "refund", "dispute", "resolve"} :
                 Possible(call) => call \in Hints(page.order.status)
           /\ page.at = now =>
                 \A b \in {"accept", "submit", "release", "refund", "dispute"} :
                     Calls(b) => b \in Buttons
  <1> DEFINE st == orders[Watched].status
  <1>1. ASSUME AcceptStep(Watched)
        PROVE  st = "NEW"
    BY <1>1 DEF AcceptStep, AcceptWithOwner, AcceptWithOperator, AcceptWithOperatorV2,
                Accept, Status
  <1>2. ASSUME ReceiptStep(Watched)
        PROVE  st = "ACCEPTED"
    BY <1>2 DEF ReceiptStep, SubmitReceiptWithOwner, SubmitReceiptWithOperator,
                SubmitReceiptWithOperatorV2, SubmitReceipt, Status
  <1>3. ASSUME NEW pv, NEW s, ReleaseWorkOrder(pv, s, Watched)
        PROVE  /\ st = "RECEIPT_SUBMITTED"
               /\ s # orders[Watched].buyer => now >= WindowEnd(Watched)
    BY <1>3 DEF ReleaseWorkOrder, Status
  <1>4. ASSUME NEW s, RefundWorkOrder(s, Watched)
        PROVE  /\ s = orders[Watched].buyer /\ st \in {"NEW", "ACCEPTED"}
               /\ now >= orders[Watched].deadline
    BY <1>4 DEF RefundWorkOrder, Status
  <1>5. ASSUME NEW s, OpenDispute(s, Watched)
        PROVE  /\ s = orders[Watched].buyer /\ st = "RECEIPT_SUBMITTED"
               /\ now < WindowEnd(Watched)
    BY <1>5 DEF OpenDispute, Status
  <1>6. ASSUME Resolve(Watched)
        PROVE  st = "DISPUTED"
    BY <1>6 DEF Resolve, ResolveForBuyer, ResolveForPayee, Status
  <1>7. ASSUME NEW call \in {"accept", "submit", "release", "refund", "dispute", "resolve"},
               Possible(call)
        PROVE  call \in Hints(page.order.status)
    <2>1. CASE call = "accept"
      BY <1>1, <1>7, <2>1 DEF Possible, Hints
    <2>2. CASE call = "submit"
      BY <1>2, <1>7, <2>2 DEF Possible, Hints
    <2>3. CASE call = "release"
      BY <1>3, <1>7, <2>3 DEF Possible, Hints, Finalise
    <2>4. CASE call = "refund"
      BY <1>4, <1>7, <2>4 DEF Possible, Hints, Reclaim
    <2>5. CASE call = "dispute"
      BY <1>5, <1>7, <2>5 DEF Possible, Hints
    <2>6. CASE call = "resolve"
      BY <1>6, <1>7, <2>6 DEF Possible, Hints
    <2> QED
      BY <1>7, <2>1, <2>2, <2>3, <2>4, <2>5, <2>6
  <1>8. ASSUME page.at = now,
               NEW b \in {"accept", "submit", "release", "refund", "dispute"}, Calls(b)
        PROVE  b \in Buttons
    <2>1. /\ now \in Int /\ orders[Watched].receiptAt \in Int /\ orders[Watched].window \in Int
      BY OrderFacts, ClientAssumption DEF CInv, OrderRecord
    <2>2. CASE b = "accept"
      <3>1. AcceptStep(Watched)
        BY <1>8, <2>2 DEF Calls, AcceptStep
      <3> QED
        BY <1>1, <2>2, <3>1 DEF Buttons
    <2>3. CASE b = "submit"
      <3>1. ReceiptStep(Watched)
        BY <1>8, <2>3 DEF Calls, ReceiptStep
      <3> QED
        BY <1>2, <2>3, <3>1 DEF Buttons
    <2>4. CASE b = "release"
      <3>1. \E pv : ReleaseWorkOrder(pv, page.wallet, Watched)
        BY <1>8, <2>4 DEF Calls
      <3>2. ShowRelease
        BY <1>3, <1>8, <3>1 DEF ShowRelease, Delivered, IsBuyer, WindowExpired, WindowEnd
      <3> QED
        BY <2>4, <3>2 DEF Buttons
    <2>5. CASE b = "refund"
      <3>1. RefundWorkOrder(page.wallet, Watched)
        BY <1>8, <2>5 DEF Calls
      <3>2. ShowRefund
        BY <1>4, <1>8, <3>1 DEF ShowRefund, Undelivered, IsBuyer, PastDeadline
      <3> QED
        BY <2>5, <3>2 DEF Buttons
    <2>6. CASE b = "dispute"
      <3>1. OpenDispute(page.wallet, Watched)
        BY <1>8, <2>6 DEF Calls
      <3>2. ShowDispute
        BY <1>5, <1>8, <2>1, <3>1 DEF ShowDispute, Delivered, IsBuyer, WindowExpired, WindowEnd
      <3> QED
        BY <2>6, <3>2 DEF Buttons
    <2> QED
      BY <2>2, <2>3, <2>4, <2>5, <2>6
  <1> QED
    BY <1>7, <1>8
=============================================================================
