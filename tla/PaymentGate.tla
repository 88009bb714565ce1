---------------------------- MODULE PaymentGate ----------------------------
(***************************************************************************)
(* What the two example agents share: the service payments found on chain, *)
(* the check each request makes of one (verifyServicePayment), and the KV  *)
(* namespace CONSUMED_TXS, where a request claims the digest it uses.      *)
(* Every await of a handler ends a step, so requests interleave there; a   *)
(* request may also be cut off at any of them.  The KV is taken to be      *)
(* consistent: a get sees every put and delete that has returned.          *)
(***************************************************************************)
EXTENDS Integers

CONSTANTS
    Digests,       \* transactions a request may name
    Requests,      \* requests ever made (a bound)
    Routes,        \* endpoints that take a payment, of either agent
    Floor,         \* smallest payment each route accepts
    Amounts,       \* amounts paid
    Freshness,     \* PAYMENT_FRESHNESS_SECONDS
    ClaimTtl,      \* expirationTtl of a claim
    RequestLimit,  \* the platform ends a request that runs longer
    MaxTime        \* the last instant of a behaviour (a bound)

ASSUME GateAssumption ==
    /\ Floor \in [Routes -> Nat \ {0}]
    /\ Amounts \subseteq Nat \ {0}
    /\ Freshness \in Nat /\ RequestLimit \in Nat /\ MaxTime \in Nat
    /\ ClaimTtl \in Nat /\ ClaimTtl > Freshness + RequestLimit
    /\ Digests # {} /\ Routes = {"hire", "promote"}

VARIABLES
    now,
    payments,   \* for each digest, the ServicePaymentEvent found in it
    claims,     \* for each digest, when its KV entry expires; 0 is no entry
    requests,   \* how far each request got
    served,     \* requests whose work left the worker
    contended   \* history: digests that two requests in flight had both passed

gateVars == <<now, payments, claims, requests, served, contended>>

NoPayment == [amount |-> 0, counted |-> FALSE, paidAt |-> 0]

GateInit ==
    /\ now = 0
    /\ payments = [d \in Digests |-> NoPayment]
    /\ claims = [d \in Digests |-> 0]
    /\ requests = [r \in Requests |->
            [pc |-> "idle", route |-> CHOOSE route \in Routes : TRUE,
             digest |-> CHOOSE d \in Digests : TRUE, startedAt |-> 0]]
    /\ served = {} /\ contended = {}

Pc(r) == requests[r].pc
Digest(r) == requests[r].digest
Claimed(d) == now < claims[d]

InFlight == {r \in Requests : Pc(r) \in {"looked", "claimed", "verified", "failing"}}

\* Mutant: the age of the payment is not looked at.
ValidAtAnyAge(d, floor) ==
    payments[d].amount >= floor /\ payments[d].counted

\* Mutant: a payment of exactly the floor is too small.
ValidAboveFloor(d, floor) ==
    /\ payments[d].amount > floor
    /\ payments[d].counted
    /\ now - payments[d].paidAt <= Freshness

\* verifyServicePayment with requireExternalPayer.
Valid(d, floor) ==
    /\ payments[d].amount >= floor
    /\ payments[d].counted
    /\ now - payments[d].paidAt <= Freshness

\* r leaves its step for pc.
Goto(r, from, pc) == Pc(r) = from /\ requests' = [requests EXCEPT ![r].pc = pc]

\* A handler starts, and looks the digest up.
Look(r, route, d) ==
    /\ Pc(r) = "idle"
    /\ requests' = [requests EXCEPT ![r] =
            [pc |-> IF Claimed(d) THEN "conflict" ELSE "looked",
             route |-> route, digest |-> d, startedAt |-> now]]
    /\ contended' = IF ~Claimed(d) /\ d \in {Digest(s) : s \in InFlight}
                    THEN contended \cup {d} ELSE contended
    /\ UNCHANGED <<now, payments, claims, served>>

PutClaim(r) == claims' = [claims EXCEPT ![Digest(r)] = now + ClaimTtl]

\* The request is cut off; what it had put or sent stays.
Crash(r) ==
    /\ r \in InFlight
    /\ requests' = [requests EXCEPT ![r].pc = "lost"]
    /\ UNCHANGED <<now, payments, claims, served, contended>>

\* A hirer's transaction: record_service_payment_sui emits its event, which
\* says whether the payer was somebody other than the creator.
Pay(d, amount, counted) ==
    /\ payments[d] = NoPayment
    /\ payments' = [payments EXCEPT ![d] =
            [amount |-> amount, counted |-> counted, paidAt |-> now]]
    /\ UNCHANGED <<now, claims, requests, served, contended>>

Tick ==
    /\ now < MaxTime
    /\ \A r \in InFlight : now - requests[r].startedAt < RequestLimit
    /\ now' = now + 1
    /\ UNCHANGED <<payments, claims, requests, served, contended>>

GateStep(routes) ==
    \/ \E r \in Requests, route \in routes, d \in Digests : Look(r, route, d)
    \/ \E r \in Requests : Crash(r)
    \/ \E d \in Digests, n \in Amounts, b \in BOOLEAN : Pay(d, n, b)
    \/ Tick

-----------------------------------------------------------------------------
\* One payment funds one piece of work, unless two requests passed the look-up of
\* its digest while both were in flight: over all routes, retries, cut-off
\* requests and expired claims, a claim outlives the freshness of the payment it
\* stands for.
SingleUseUncontended ==
    \A r, s \in served : Digest(r) = Digest(s) => r = s \/ Digest(r) \in contended

\* A request that was told to pay properly or to retry leaves no claim behind:
\* whenever a digest is claimed, a request on it is still being handled, was
\* answered, or ended without its cleanup.
ClaimsExplained ==
    \A d \in Digests : Claimed(d) =>
        \E r \in Requests : /\ Digest(r) = d
                            /\ r \in InFlight \/ Pc(r) \in {"answered", "lost"}

\* Work is only done for a payment by an outsider that reached the route's floor,
\* however the two routes and their retries share one digest.
WorkIsPaid ==
    \A r \in served : /\ payments[Digest(r)].counted
                      /\ payments[Digest(r)].amount >= Floor[requests[r].route]
=============================================================================
