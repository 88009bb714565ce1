----------------------------- MODULE GateProofs -----------------------------
(***************************************************************************)
(* Both example agents do work for paid requests only, once for a payment  *)
(* unless requests overlapped, and keep what they used claimed; and the    *)
(* dashboard's form loses a payment for the stated reasons only.  For any  *)
(* number of digests and requests, any floors and prices, and every claim  *)
(* period that outlasts a fresh payment and a running request.             *)
(***************************************************************************)
EXTENDS CommandForm, TLAPS

Pcs == {"idle", "looked", "claimed", "verified", "failing",
        "conflict", "rejected", "answered", "lost"}

Flying == {"looked", "claimed", "verified", "failing"}

Payment == [amount : Nat, counted : BOOLEAN, paidAt : Nat]

Request == [pc : Pcs, route : Routes, digest : Digests, startedAt : Nat]

GateTypeOK ==
    /\ now \in Nat
    /\ payments \in [Digests -> Payment]
    /\ claims \in [Digests -> Nat]
    /\ requests \in [Requests -> Request]
    /\ served \subseteq Requests
    /\ contended \subseteq Digests
    /\ worker \in {"larry", "sovereign"}

Started(r) == requests[r].startedAt

\* The requests of which the worker has put a claim it has not given up, and those
\* whose payment it has checked.  Larry claims first, the sovereign agent checks.
HoldingPcs == IF worker = "larry" THEN {"claimed", "verified", "failing"} ELSE {"claimed"}
CheckedPcs == IF worker = "larry" THEN {"verified"} ELSE {"verified", "claimed"}

Holding(r) == Pc(r) \in HoldingPcs
Checked(r) == Pc(r) \in CheckedPcs

\* The claim of a request is in force to its end; that end has come.
Holds(r) == claims[Digest(r)] >= Started(r) + ClaimTtl
Over(r) == now >= Started(r) + ClaimTtl

\* The request's payment is what the route asks for, and was there in its time.
PaidInTime(r) ==
    /\ payments[Digest(r)].counted
    /\ payments[Digest(r)].amount >= Floor[requests[r].route]
    /\ payments[Digest(r)].paidAt <= Started(r) + RequestLimit

Contended(r) == Digest(r) \in contended

TimesOK ==
    /\ \A d \in Digests : payments[d].paidAt <= now /\ claims[d] <= now + ClaimTtl
    /\ \A r \in Requests : Pc(r) \in Flying =>
          Started(r) <= now /\ now <= Started(r) + RequestLimit

\* Two requests in flight on one digest had both passed its look-up.
OverlapsKnown ==
    \A r, s \in Requests :
        Pc(r) \in Flying /\ Pc(s) \in Flying /\ Digest(r) = Digest(s) /\ r # s => Contended(r)

FlightsOK ==
    \A r \in Requests :
        /\ Holding(r) => Holds(r) \/ (worker = "larry" /\ Contended(r))
        /\ Checked(r) => PaidInTime(r)
        /\ Checked(r) => \A s \in served : Digest(s) = Digest(r) => Contended(r)

\* What a served request leaves behind: until its claim is over nobody passes the
\* look-up of its digest.
ServedOK ==
    \A r \in served :
        /\ Pc(r) \in {"answered", "lost"}
        /\ PaidInTime(r)
        /\ \/ Contended(r)
           \/ Over(r)
           \/ Holds(r) /\ \A s \in Requests : Pc(s) \in Flying => Digest(s) # Digest(r)
        /\ worker = "sovereign" => Holds(r)

\* Who put a claim is still there, or ended without giving it up.
HoldersKnown ==
    \A d \in Digests : Claimed(d) =>
        \E r \in Requests : Digest(r) = d /\ (Holding(r) \/ Pc(r) \in {"answered", "lost"})

AnswersServed == \A r \in Requests : Pc(r) = "answered" => r \in served

\* The inductive invariant of either worker.
GInv ==
    /\ GateTypeOK
    /\ TimesOK
    /\ OverlapsKnown
    /\ FlightsOK
    /\ ServedOK
    /\ SingleUseUncontended
    /\ HoldersKnown
    /\ AnswersServed

\* Why a request of the form was not served.
Excused(r) ==
    \/ r \in struck
    \/ runner.price < Floor["hire"]
    \/ ~ payments[runner.digest].counted
    \/ payments[runner.digest].paidAt + Freshness < Started(r) + RequestLimit
    \/ \E s \in Requests \ {r} : Pc(s) # "idle" /\ Digest(s) = runner.digest

\* The form, and the inductive invariant of agents and form.
FormOK ==
    /\ runner \in [pc : {"idle", "signing", "paid", "posted", "answered", "failed"},
                   price : Nat, digest : Digests, request : Requests \cup {NoRequest}]
    /\ runner.pc # "idle" => worker = "larry" /\ runner.price > 0
    /\ runner.pc \in {"idle", "signing", "paid"} => runner.request = NoRequest
    /\ runner.pc \in {"paid", "posted", "answered", "failed"} =>
          payments[runner.digest].amount = runner.price
    /\ runner.pc \in {"posted", "answered"} => runner.request # NoRequest
    /\ runner.pc = "answered" => runner.request \in served
    /\ runner.request # NoRequest =>
          /\ Digest(runner.request) = runner.digest
          /\ requests[runner.request].route = "hire"
          /\ Pc(runner.request) # "idle"
          /\ Pc(runner.request) \in {"failing", "conflict", "rejected", "lost"} =>
                Excused(runner.request)

HInv == GInv /\ FormOK

-----------------------------------------------------------------------------
\* What a handler does with its request in flight, and a crash too: it goes to pc,
\* fails once it has claimed, may put its claim or, failing, give it up, has its payment checked
\* before it counts as checked, and is served when it is checked and claimed.
Worked(r, pc) ==
    /\ Pc(r) \in Flying /\ pc \in Pcs \ {"idle", "looked", "conflict"}
    /\ pc = "failing" => Pc(r) \in {"claimed", "verified"}
    /\ pc = "rejected" /\ worker = "larry" => Pc(r) = "failing"
    /\ requests' = [requests EXCEPT ![r].pc = pc]
    /\ UNCHANGED <<now, payments, contended, worker>>
    /\ \/ /\ claims' = claims
          /\ pc \in HoldingPcs => Holding(r)
          /\ Holding(r) => pc \in HoldingPcs \cup {"answered", "lost"}
       \/ claims' = [claims EXCEPT ![Digest(r)] = now + ClaimTtl] /\ pc \in HoldingPcs
       \/ claims' = [claims EXCEPT ![Digest(r)] = 0] /\ worker = "larry" /\ pc = "rejected"
    /\ pc \in CheckedPcs =>
          \/ Checked(r)
          \/ Valid(Digest(r), Floor[requests[r].route]) /\ (worker = "larry" => Holding(r))
    /\ \/ served' = served /\ pc # "answered"
       \/ /\ served' = served \cup {r} /\ pc \in {"answered", "lost"}
          /\ Checked(r) /\ Holding(r)

\* One field of one request changes.
LEMMA MovedFacts ==
    ASSUME GateTypeOK, NEW r \in Requests, NEW pc \in Pcs,
           requests' = [requests EXCEPT ![r].pc = pc]
    PROVE  /\ requests' \in [Requests -> Request]
           /\ \A s \in Requests :
                 /\ requests'[s].digest = requests[s].digest
                 /\ requests'[s].route = requests[s].route
                 /\ requests'[s].startedAt = requests[s].startedAt
                 /\ requests'[s].pc = IF s = r THEN pc ELSE requests[s].pc
  <1>1. requests \in [Requests -> Request]
    BY DEF GateTypeOK
  <1> QED
    BY <1>1 DEF Request

\* What the types give the steps below.
LEMMA GateTypes ==
    ASSUME GateTypeOK
    PROVE  /\ now \in Nat /\ ClaimTtl \in Nat /\ Freshness \in Nat /\ RequestLimit \in Nat
           /\ ClaimTtl > Freshness + RequestLimit
           /\ \A d \in Digests : /\ claims[d] \in Nat
                                  /\ payments[d].amount \in Nat /\ payments[d].paidAt \in Nat
           /\ \A r \in Requests : /\ requests[r].pc \in Pcs /\ requests[r].digest \in Digests
                                   /\ requests[r].startedAt \in Nat
                                   /\ requests[r].route \in Routes
                                   /\ Floor[requests[r].route] \in Nat \ {0}
  <1>1. requests \in [Requests -> Request] /\ payments \in [Digests -> Payment]
    BY DEF GateTypeOK
  <1>2. \A r \in Requests : requests[r] \in Request
    BY <1>1
  <1>3. \A d \in Digests : payments[d] \in Payment
    BY <1>1
  <1> QED
    BY <1>2, <1>3, GateAssumption DEF GateTypeOK, Request, Payment

LEMMA WorkedKeeps ==
    ASSUME GInv, NEW r \in Requests, NEW pc, Worked(r, pc)
    PROVE  GInv'
  <1>1. /\ GateTypeOK /\ pc \in Pcs \ {"idle", "looked"} /\ requests[r].pc \in Flying
        /\ UNCHANGED <<now, payments, contended, worker>>
        /\ HoldingPcs' = HoldingPcs /\ CheckedPcs' = CheckedPcs
    BY DEF GInv, Worked, Pc, HoldingPcs, CheckedPcs
  <1>2. /\ requests' \in [Requests -> Request]
        /\ \A s \in Requests :
              /\ requests'[s].digest = requests[s].digest
              /\ requests'[s].route = requests[s].route
              /\ requests'[s].startedAt = requests[s].startedAt
              /\ requests'[s].pc = IF s = r THEN pc ELSE requests[s].pc
    BY <1>1, MovedFacts DEF Worked
  <1> DEFINE d == requests[r].digest
  <1>3. /\ now \in Nat /\ ClaimTtl \in Nat /\ Freshness \in Nat /\ RequestLimit \in Nat
        /\ ClaimTtl > Freshness + RequestLimit
        /\ d \in Digests /\ requests[r].startedAt \in Nat
        /\ \A e \in Digests : claims[e] \in Nat
    BY <1>1, GateTypes
  <1>4. /\ HoldingPcs \subseteq {"claimed", "verified", "failing"}
        /\ CheckedPcs \subseteq {"claimed", "verified"}
    BY DEF HoldingPcs, CheckedPcs
  <1>5. /\ \A e \in Digests : e # d => claims'[e] = claims[e]
        /\ claims' \in [Digests -> Nat]
        /\ \/ claims'[d] = claims[d]
           \/ claims'[d] = now + ClaimTtl /\ pc \in HoldingPcs
           \/ claims'[d] = 0 /\ worker = "larry" /\ pc = "rejected"
    BY <1>1, <1>3 DEF Worked, GateTypeOK, Digest
  <1>6. served' \subseteq Requests /\ \A s \in served' : s \in served \/ s = r
    BY <1>1 DEF Worked, GateTypeOK
  <1>7. GateTypeOK'
    BY <1>1, <1>2, <1>5, <1>6 DEF GateTypeOK
  <1>8. TimesOK'
    BY <1>1, <1>2, <1>3, <1>5 DEF GInv, TimesOK, Pc, Started
  <1>9. OverlapsKnown'
    BY <1>1, <1>2 DEF GInv, OverlapsKnown, Pc, Digest, Contended
  <1>10. /\ \A s \in Requests : Holding(s) => Holds(s) \/ (worker = "larry" /\ Contended(s))
         /\ \A s \in Requests : Checked(s) => PaidInTime(s)
         /\ \A s \in Requests : Checked(s) =>
               \A q \in served : Digest(q) = Digest(s) => Contended(s)
         /\ Started(r) <= now /\ now <= Started(r) + RequestLimit
         /\ \A s \in Requests : Pc(s) \in Flying /\ Digest(s) = Digest(r) /\ s # r =>
                               Contended(r) /\ Contended(s)
         /\ \A e \in Digests : payments[e].paidAt \in Nat /\ claims[e] <= now + ClaimTtl
         /\ \A s \in Requests : Digest(s) \in Digests /\ Started(s) \in Nat
    BY <1>1, GateTypes DEF GInv, FlightsOK, TimesOK, OverlapsKnown, Pc, Started, Digest, Contended
  <1>11. \A s \in Requests : /\ Digest(s)' = Digest(s) /\ Started(s)' = Started(s)
                             /\ Contended(s)' = Contended(s) /\ PaidInTime(s)' = PaidInTime(s)
                             /\ Pc(s)' = IF s = r THEN pc ELSE Pc(s)
                             /\ Holding(s)' = IF s = r THEN pc \in HoldingPcs ELSE Holding(s)
                             /\ Checked(s)' = IF s = r THEN pc \in CheckedPcs ELSE Checked(s)
    BY <1>1, <1>2 DEF Digest, Started, Contended, PaidInTime, Pc, Holding, Checked
  <1>12. \A s \in Requests : Holding(s)' => Holds(s)' \/ (worker = "larry" /\ Contended(s))'
    BY <1>1, <1>3, <1>4, <1>5, <1>10, <1>11 DEF Holds, Holding, Digest, Flying, Worked
  <1>13. \A s \in Requests : Checked(s)' => PaidInTime(s)'
    <2>1. Valid(Digest(r), Floor[requests[r].route]) => PaidInTime(r)
      <3>1. /\ payments[Digest(r)].paidAt <= now /\ payments[Digest(r)].paidAt \in Nat
            /\ Started(r) + RequestLimit \in Nat
        BY <1>3, <1>10 DEF GInv, TimesOK, Digest
      <3>2. payments[Digest(r)].paidAt <= Started(r) + RequestLimit
        BY <1>3, <1>10, <3>1
      <3> QED
        BY <3>2 DEF Valid, PaidInTime
    <2> QED
      BY <1>10, <1>11, <2>1 DEF Worked
  <1>14. \A q \in served :
            /\ Pc(q) \in {"answered", "lost"} /\ PaidInTime(q) /\ q # r
            /\ \/ Contended(q)
               \/ Over(q)
               \/ Holds(q) /\ \A s \in Requests : Pc(s) \in Flying => Digest(s) # Digest(q)
            /\ worker = "sovereign" => Holds(q)
    BY <1>1 DEF GInv, ServedOK, Flying, Pc
  <1>15. served \subseteq Requests
    BY <1>1 DEF GateTypeOK
  <1>16. \A s \in Requests : Checked(s)' =>
             \A q \in served' : Digest(q)' = Digest(s)' => Contended(s)'
    <2>1. ASSUME Valid(Digest(r), Floor[requests[r].route]), NEW q \in served,
                 Digest(q) = Digest(r)
          PROVE  Contended(r)
      <3>1. now - payments[d].paidAt <= Freshness
        BY <2>1 DEF Valid, Digest
      <3>2. payments[d].paidAt <= Started(q) + RequestLimit /\ Started(q) \in Nat
            /\ payments[d].paidAt \in Nat
        BY <1>3, <1>10, <1>14, <1>15, <2>1 DEF PaidInTime, Digest
      <3>3. ~ Over(q)
        BY <1>3, <3>1, <3>2 DEF Over
      <3> QED
        BY <1>1, <1>14, <2>1, <3>3 DEF Contended, Pc
    <2>2. \A s \in Requests, q \in served : Checked(s)' /\ Digest(q) = Digest(s) => Contended(s)
      BY <1>10, <1>11, <2>1 DEF Worked
    <2>3. \A s \in Requests : /\ s # r /\ Checked(s) /\ Digest(s) = Digest(r) => Contended(s)
      BY <1>4, <1>10 DEF Checked, Flying
    <2>4. r \in served' => r \in served \/ pc \notin CheckedPcs
      BY <1>4 DEF Worked
    <2> QED
      BY <1>6, <1>11, <1>14, <1>15, <2>2, <2>3, <2>4
  <1>17. FlightsOK'
    BY <1>12, <1>13, <1>16 DEF FlightsOK
  <1>18. ASSUME NEW q \in served
         PROVE  /\ (Pc(q) \in {"answered", "lost"} /\ PaidInTime(q))'
                /\ \/ Contended(q)'
                   \/ Over(q)'
                   \/ Holds(q)' /\ \A s \in Requests : Pc(s)' \in Flying => Digest(s)' # Digest(q)'
                /\ worker' = "sovereign" => Holds(q)'
    <2>1. q \in Requests /\ Digest(q) \in Digests /\ Started(q) \in Nat
      BY <1>10, <1>15
    <2>2. (Pc(q) \in {"answered", "lost"} /\ PaidInTime(q))'
      BY <1>11, <1>14, <2>1
    <2>3. CASE Holds(q) /\ \A s \in Requests : Pc(s) \in Flying => Digest(s) # Digest(q)
      BY <1>1, <1>5, <1>11, <2>1, <2>2, <2>3 DEF Holds, Digest, Pc
    <2>4. worker' = "sovereign" => Holds(q)'
      BY <1>1, <1>3, <1>5, <1>10, <1>11, <1>14, <2>1 DEF Holds, Digest
    <2>5. Contended(q) => Contended(q)'
      BY <1>11, <2>1
    <2>6. Over(q) => Over(q)'
      BY <1>1, <1>11, <2>1 DEF Over
    <2> QED
      BY <1>14, <2>2, <2>3, <2>4, <2>5, <2>6
  <1>19. ASSUME served' # served
         PROVE  /\ (Pc(r) \in {"answered", "lost"} /\ PaidInTime(r))'
                /\ \/ Contended(r)'
                   \/ Holds(r)' /\ \A s \in Requests : Pc(s)' \in Flying => Digest(s)' # Digest(r)'
                /\ worker' = "sovereign" => Holds(r)'
    <2>1. pc \in {"answered", "lost"} /\ Checked(r) /\ Holding(r)
      BY <1>19 DEF Worked
    <2>2. claims'[d] = claims[d]
      BY <1>4, <1>5, <2>1
    <2>3. Holds(r)' = Holds(r)
      BY <1>11, <2>2 DEF Holds, Digest
    <2> QED
      BY <1>1, <1>10, <1>11, <2>1, <2>3 DEF Flying
  <1>20. ServedOK'
    BY <1>6, <1>18, <1>19 DEF ServedOK
  <1>21. SingleUseUncontended'
    <2>1. \A q, s \in served : Digest(q) = Digest(s) => q = s \/ Contended(q)
      BY DEF GInv, SingleUseUncontended, Contended
    <2>2. served' # served => Checked(r)
      BY DEF Worked
    <2>3. \A q, s \in served' : Digest(q) = Digest(s) => q = s \/ Contended(q)
      BY <1>6, <1>10, <2>1, <2>2 DEF Contended
    <2> QED
      BY <1>1, <1>6, <1>11, <1>15, <2>3 DEF SingleUseUncontended, Contended
  <1>22. HoldersKnown'
    <2> SUFFICES ASSUME NEW e \in Digests, now < claims'[e]
                 PROVE  \E q \in Requests : Digest(q)' = e
                            /\ (Holding(q)' \/ Pc(q)' \in {"answered", "lost"})
      BY <1>1 DEF HoldersKnown, Claimed
    <2>1. CASE e = d /\ pc \in HoldingPcs
      BY <1>11, <2>1 DEF Digest
    <2>2. CASE claims'[e] = claims[e]
      <3>1. PICK q \in Requests : Digest(q) = e /\ (Holding(q) \/ Pc(q) \in {"answered", "lost"})
        BY <2>2 DEF GInv, HoldersKnown, Claimed
      <3>2. CASE q # r
        BY <1>11, <3>1, <3>2
      <3>3. CASE q = r
        <4>1. Holding(r) /\ e = d
          BY <1>1, <3>1, <3>3 DEF Flying, Pc, Digest
        <4>2. claims'[d] = claims[d] => pc \in HoldingPcs \cup {"answered", "lost"}
          BY <1>1, <1>3, <4>1 DEF Worked, GateTypeOK, Digest
        <4> QED
          BY <1>11, <2>2, <3>3, <4>1, <4>2 DEF Digest
      <3> QED
        BY <3>2, <3>3
    <2> QED
      BY <1>3, <1>5, <2>1, <2>2
  <1>23. AnswersServed'
    BY <1>11 DEF GInv, AnswersServed, Worked
  <1> QED
    BY <1>7, <1>8, <1>9, <1>17, <1>20, <1>21, <1>22, <1>23 DEF GInv

-----------------------------------------------------------------------------
\* A request starts.  It passes the look-up of a served digest only when that
\* claim is over, or when the digest is contended by then.
LEMMA LookKeeps ==
    ASSUME GInv, NEW r \in Requests, NEW route \in Routes, NEW d \in Digests,
           Look(r, route, d), UNCHANGED worker
    PROVE  GInv'
  <1> DEFINE new == [pc |-> IF Claimed(d) THEN "conflict" ELSE "looked",
                     route |-> route, digest |-> d, startedAt |-> now]
  <1>1. /\ Pc(r) = "idle" /\ UNCHANGED <<now, payments, claims, served, worker>>
        /\ requests' = [requests EXCEPT ![r] = new]
        /\ contended' = IF ~Claimed(d) /\ d \in {Digest(s) : s \in InFlight}
                        THEN contended \cup {d} ELSE contended
        /\ GateTypeOK /\ HoldingPcs' = HoldingPcs /\ CheckedPcs' = CheckedPcs
    BY DEF Look, GInv, HoldingPcs, CheckedPcs
  <1>2. new \in Request /\ new.pc \in {"conflict", "looked"} /\ new.digest = d
        /\ new.startedAt = now /\ (new.pc = "looked" => ~ Claimed(d))
    BY <1>1 DEF GateTypeOK, Request, Pcs
  <1> HIDE DEF new
  <1>3. requests' \in [Requests -> Request] /\ requests'[r] = new
        /\ \A s \in Requests : s # r => requests'[s] = requests[s]
    BY <1>1, <1>2 DEF GateTypeOK
  <1>4. GateTypeOK'
    BY <1>1, <1>3 DEF GateTypeOK
  <1>5. /\ now \in Nat /\ ClaimTtl \in Nat /\ Freshness \in Nat /\ RequestLimit \in Nat
        /\ ClaimTtl > Freshness + RequestLimit
        /\ \A e \in Digests : claims[e] \in Nat /\ payments[e].paidAt \in Nat
        /\ \A s \in Requests : Digest(s) \in Digests /\ Started(s) \in Nat
    BY <1>1, GateTypes DEF Digest, Started
  <1>6. /\ "looked" \notin HoldingPcs \cup CheckedPcs /\ "conflict" \notin HoldingPcs \cup CheckedPcs
        /\ "idle" \notin HoldingPcs \cup CheckedPcs /\ HoldingPcs \cup CheckedPcs \subseteq Flying
    BY DEF HoldingPcs, CheckedPcs, Flying
  <1>7. /\ \A s \in Requests : s # r =>
              /\ Digest(s)' = Digest(s) /\ Started(s)' = Started(s) /\ Pc(s)' = Pc(s)
              /\ Contended(s) => Contended(s)'
              /\ PaidInTime(s)' <=> PaidInTime(s)
              /\ Holds(s)' <=> Holds(s)
              /\ Holding(s)' <=> Holding(s)
              /\ Checked(s)' <=> Checked(s)
        /\ Digest(r)' = d /\ Started(r)' = now /\ Pc(r)' = new.pc
        /\ ~ Holding(r)' /\ ~ Checked(r)' /\ ~ Holding(r) /\ ~ Checked(r)
    BY <1>1, <1>2, <1>3, <1>6
       DEF Digest, Started, Pc, Contended, PaidInTime, Holding, Checked,
           Holds
  <1>8. TimesOK'
    BY <1>1, <1>2, <1>5, <1>7 DEF GInv, TimesOK
  <1>9. OverlapsKnown'
    <2>1. InFlight = {s \in Requests : Pc(s) \in Flying} /\ Pc(r) \notin Flying
      BY <1>1 DEF InFlight, Flying
    <2>2. ASSUME NEW s \in Requests, s # r, Pc(s) \in Flying, Digest(s) = d, new.pc \in Flying
          PROVE  d \in contended'
      BY <1>1, <1>2, <2>1, <2>2 DEF Flying
    <2> QED
      BY <1>7, <2>2 DEF GInv, OverlapsKnown, Contended
  <1>10. served \subseteq Requests /\ r \notin served
    BY <1>1 DEF GInv, GateTypeOK, ServedOK
  <1>11. FlightsOK'
    BY <1>1, <1>7, <1>10 DEF GInv, FlightsOK
  <1>12. ServedOK'
    <2> SUFFICES ASSUME NEW q \in served
                 PROVE  /\ (Pc(q) \in {"answered", "lost"} /\ PaidInTime(q))'
                        /\ \/ Contended(q)'
                           \/ Over(q)'
                           \/ Holds(q)' /\ \A s \in Requests : Pc(s)' \in Flying => Digest(s)' # Digest(q)'
                        /\ worker = "sovereign" => Holds(q)'
      BY <1>1 DEF ServedOK
    <2>1. /\ Pc(q) \in {"answered", "lost"} /\ PaidInTime(q) /\ q # r /\ q \in Requests
          /\ \/ Contended(q)
             \/ Over(q)
             \/ Holds(q) /\ \A s \in Requests : Pc(s) \in Flying => Digest(s) # Digest(q)
          /\ worker = "sovereign" => Holds(q)
      BY <1>10 DEF GInv, ServedOK
    <2>2. (Pc(q) \in {"answered", "lost"} /\ PaidInTime(q))'
      BY <1>7, <2>1
    <2>3. (Holds(q) => Holds(q)') /\ (Over(q) => Over(q)') /\ (Contended(q) => Contended(q)')
      BY <1>1, <1>7, <2>1 DEF Over
    <2>4. CASE Holds(q) /\ \A s \in Requests : Pc(s) \in Flying => Digest(s) # Digest(q)
      <3>1. new.pc = "looked" /\ d = Digest(q) => Over(q)
        BY <1>2, <1>5, <2>1, <2>4 DEF Claimed, Holds, Over
      <3>2. new.pc \in Flying => new.pc = "looked"
        BY <1>2 DEF Flying
      <3> QED
        BY <1>7, <2>1, <2>2, <2>3, <2>4, <3>1, <3>2
    <2> QED
      BY <2>1, <2>2, <2>3, <2>4
  <1>13. SingleUseUncontended'
    BY <1>1, <1>7, <1>10 DEF GInv, SingleUseUncontended, Contended
  <1>14. HoldersKnown'
    <2> SUFFICES ASSUME NEW e \in Digests, Claimed(e)
                 PROVE  \E q \in Requests : Digest(q)' = e
                            /\ (Holding(q)' \/ Pc(q)' \in {"answered", "lost"})
      BY <1>1 DEF HoldersKnown, Claimed
    <2>1. PICK q \in Requests : Digest(q) = e /\ (Holding(q) \/ Pc(q) \in {"answered", "lost"})
      BY DEF GInv, HoldersKnown
    <2>2. q # r
      BY <1>1, <1>7, <2>1
    <2> QED
      BY <1>7, <2>1, <2>2
  <1>15. AnswersServed'
    BY <1>1, <1>2, <1>7 DEF GInv, AnswersServed
  <1> QED
    BY <1>4, <1>8, <1>9, <1>11, <1>12, <1>13, <1>14, <1>15 DEF GInv

\* A payment does not disturb the one that a request was checked against.
LEMMA PayKeeps ==
    ASSUME GInv, NEW d \in Digests, NEW n \in Nat, NEW b \in BOOLEAN, Pay(d, n, b),
           UNCHANGED worker
    PROVE  GInv'
  <1>1. /\ payments[d].amount = 0 /\ GateTypeOK
        /\ payments' = [payments EXCEPT ![d] = [amount |-> n, counted |-> b, paidAt |-> now]]
        /\ UNCHANGED <<now, claims, requests, served, contended, worker>>
        /\ HoldingPcs' = HoldingPcs /\ CheckedPcs' = CheckedPcs
    BY DEF Pay, NoPayment, GInv, HoldingPcs, CheckedPcs
  <1>2. GateTypeOK'
    BY <1>1 DEF GateTypeOK, Payment
  <1>3. /\ \A e \in Digests : e # d => payments'[e] = payments[e]
        /\ payments'[d].paidAt = now
    BY <1>1 DEF GateTypeOK
  <1>4. now \in Nat /\ \A s \in Requests : /\ Digest(s) \in Digests
                                           /\ Floor[requests[s].route] \in Nat \ {0}
    BY <1>1, GateTypes DEF Digest
  <1>5. \A s \in Requests :
            /\ Digest(s)' = Digest(s) /\ Started(s)' = Started(s) /\ Pc(s)' = Pc(s)
            /\ Contended(s)' = Contended(s) /\ Holding(s)' = Holding(s)
            /\ Checked(s)' = Checked(s) /\ Holds(s)' = Holds(s) /\ Over(s)' = Over(s)
    BY <1>1 DEF Digest, Started, Pc, Contended, Holding, Checked, Holds, Over
  <1>6. \A s \in Requests : PaidInTime(s) => PaidInTime(s)'
    BY <1>1, <1>3, <1>4 DEF PaidInTime, Digest, Started
  <1>7. served \subseteq Requests
    BY <1>1 DEF GateTypeOK
  <1>8. TimesOK' /\ OverlapsKnown'
    BY <1>1, <1>3, <1>4, <1>5 DEF GInv, TimesOK, OverlapsKnown
  <1>9. FlightsOK'
    BY <1>1, <1>5, <1>6, <1>7 DEF GInv, FlightsOK
  <1>10. ServedOK'
    BY <1>1, <1>5, <1>6, <1>7 DEF GInv, ServedOK
  <1>11. SingleUseUncontended' /\ AnswersServed'
    BY <1>1, <1>5, <1>7 DEF GInv, SingleUseUncontended, AnswersServed
  <1>12. HoldersKnown'
    BY <1>1, <1>5 DEF GInv, HoldersKnown, Claimed
  <1> QED
    BY <1>2, <1>8, <1>9, <1>10, <1>11, <1>12 DEF GInv

\* Time passes, while no request runs longer than it may.
LEMMA TickKeeps ==
    ASSUME GInv, Tick, UNCHANGED worker
    PROVE  GInv'
  <1>1. /\ now' = now + 1 /\ GateTypeOK /\ now \in Nat
        /\ \A r \in Requests : Pc(r) \in Flying => now - Started(r) < RequestLimit
        /\ UNCHANGED <<payments, claims, requests, served, contended, worker>>
        /\ HoldingPcs' = HoldingPcs /\ CheckedPcs' = CheckedPcs
    BY DEF Tick, GInv, GateTypeOK, InFlight, Flying, Started, HoldingPcs, CheckedPcs
  <1>2. /\ ClaimTtl \in Nat /\ RequestLimit \in Nat
        /\ \A e \in Digests : claims[e] \in Nat /\ payments[e].paidAt \in Nat
        /\ \A s \in Requests : Started(s) \in Nat
    BY <1>1, GateTypes DEF Started
  <1>3. \A s \in Requests :
            /\ Digest(s)' = Digest(s) /\ Started(s)' = Started(s) /\ Pc(s)' = Pc(s)
            /\ Contended(s)' = Contended(s) /\ Holding(s)' = Holding(s)
            /\ Checked(s)' = Checked(s) /\ Holds(s)' = Holds(s)
            /\ PaidInTime(s)' = PaidInTime(s)
    BY <1>1 DEF Digest, Started, Pc, Contended, Holding, Checked, Holds, PaidInTime
  <1>4. \A s \in Requests : Over(s) => Over(s)'
    BY <1>1, <1>2, <1>3 DEF Over
  <1>5. served \subseteq Requests
    BY <1>1 DEF GateTypeOK
  <1>6. GateTypeOK' /\ OverlapsKnown'
    BY <1>1, <1>3 DEF GateTypeOK, GInv, OverlapsKnown
  <1>7. TimesOK'
    BY <1>1, <1>2, <1>3 DEF GInv, TimesOK
  <1>8. FlightsOK'
    BY <1>1, <1>3, <1>5 DEF GInv, FlightsOK
  <1>9. ServedOK'
    BY <1>1, <1>3, <1>4, <1>5 DEF GInv, ServedOK
  <1>10. SingleUseUncontended' /\ AnswersServed'
    BY <1>1, <1>3, <1>5 DEF GInv, SingleUseUncontended, AnswersServed
  <1>11. HoldersKnown'
    BY <1>1, <1>2, <1>3 DEF GInv, HoldersKnown, Claimed
  <1> QED
    BY <1>6, <1>7, <1>8, <1>9, <1>10, <1>11 DEF GInv

-----------------------------------------------------------------------------
\* Each step of either handler is such a step of its request.
LEMMA LarryWorks ==
    ASSUME worker = "larry", UNCHANGED worker, NEW r \in Requests, Larry!Handle(r)
    PROVE  \E pc : Worked(r, pc)
  <1> USE DEF Worked, Pc, Digest, Pcs, Flying, Holding, HoldingPcs, Checked, CheckedPcs
  <1>1. CASE Larry!Claim(r)
    <2>1. Worked(r, "claimed")
      BY <1>1 DEF Larry!Claim, Larry!Goto, Larry!Pc, Larry!Digest, Larry!PutClaim
    <2> QED
      BY <2>1
  <1>2. CASE Larry!ClaimFails(r)
    <2>1. Worked(r, "lost")
      BY <1>2 DEF Larry!ClaimFails, Larry!Goto, Larry!Pc
    <2> QED
      BY <2>1
  <1>3. CASE Larry!Verify(r)
    <2>1. Worked(r, "verified")
      BY <1>3 DEF Larry!Verify, Larry!Goto, Larry!Pc, Larry!Valid, Larry!Digest, Valid
    <2> QED
      BY <2>1
  <1>4. CASE Larry!VerifyFails(r)
    <2>1. Worked(r, "failing")
      BY <1>4 DEF Larry!VerifyFails, Larry!Goto, Larry!Pc
    <2> QED
      BY <2>1
  <1>5. CASE Larry!Answer(r)
    <2>1. Worked(r, "answered")
      BY <1>5 DEF Larry!Answer, Larry!Goto, Larry!Pc
    <2> QED
      BY <2>1
  <1>6. CASE Larry!CommandFails(r)
    <2>1. Worked(r, "failing")
      BY <1>6 DEF Larry!CommandFails, Larry!Goto, Larry!Pc
    <2> QED
      BY <2>1
  <1>7. CASE Larry!Post(r)
    <2>1. Worked(r, "answered")
      BY <1>7 DEF Larry!Post, Larry!Goto, Larry!Pc
    <2> QED
      BY <2>1
  <1>8. CASE Larry!PostFails(r)
    <2>1. Worked(r, "lost")
      BY <1>8 DEF Larry!PostFails, Larry!Goto, Larry!Pc
    <2> QED
      BY <2>1
  <1>9. CASE Larry!Unclaim(r)
    <2>1. Worked(r, "rejected")
      BY <1>9 DEF Larry!Unclaim, Larry!Goto, Larry!Pc, Larry!Digest
    <2> QED
      BY <2>1
  <1>10. CASE Larry!UnclaimFails(r)
    <2>1. Worked(r, "lost")
      BY <1>10 DEF Larry!UnclaimFails, Larry!Goto, Larry!Pc
    <2> QED
      BY <2>1
  <1> QED
    BY <1>1, <1>2, <1>3, <1>4, <1>5, <1>6, <1>7, <1>8, <1>9, <1>10 DEF Larry!Handle

LEMMA SovereignWorks ==
    ASSUME worker = "sovereign", UNCHANGED worker, NEW r \in Requests, Sovereign!Handle(r)
    PROVE  \E pc : Worked(r, pc)
  <1> USE DEF Worked, Pc, Digest, Pcs, Flying, Holding, HoldingPcs, Checked, CheckedPcs
  <1>1. CASE Sovereign!Verify(r)
    <2>1. Worked(r, "verified")
      BY <1>1 DEF Sovereign!Verify, Sovereign!Goto, Sovereign!Pc, Sovereign!Valid, Sovereign!Digest, Valid
    <2> QED
      BY <2>1
  <1>2. CASE Sovereign!VerifyFails(r)
    <2>1. Worked(r, "rejected")
      BY <1>2 DEF Sovereign!VerifyFails, Sovereign!Goto, Sovereign!Pc
    <2> QED
      BY <2>1
  <1>3. CASE Sovereign!Claim(r)
    <2>1. Worked(r, "claimed")
      BY <1>3 DEF Sovereign!Claim, Sovereign!Goto, Sovereign!Pc, Sovereign!Digest, Sovereign!PutClaim
    <2> QED
      BY <2>1
  <1>4. CASE Sovereign!ClaimFails(r)
    <2>1. Worked(r, "lost")
      BY <1>4 DEF Sovereign!ClaimFails, Sovereign!Goto, Sovereign!Pc
    <2> QED
      BY <2>1
  <1>5. CASE Sovereign!Answer(r)
    <2>1. Worked(r, "answered")
      BY <1>5 DEF Sovereign!Answer, Sovereign!Goto, Sovereign!Pc
    <2> QED
      BY <2>1
  <1>6. CASE Sovereign!AnswerFails(r)
    <2>1. Worked(r, "lost")
      BY <1>6 DEF Sovereign!AnswerFails, Sovereign!Goto, Sovereign!Pc
    <2> QED
      BY <2>1
  <1> QED
    BY <1>1, <1>2, <1>3, <1>4, <1>5, <1>6 DEF Sovereign!Handle

\* The steps the two have in common.
LEMMA GateStepKeeps ==
    ASSUME GInv, UNCHANGED worker, NEW routes \in SUBSET Routes, GateStep(routes)
    PROVE  GInv'
  <1>1. CASE \E r \in Requests, route \in routes, d \in Digests : Look(r, route, d)
    BY <1>1, LookKeeps
  <1>2. ASSUME NEW r \in Requests, Crash(r)
        PROVE  GInv'
    <2>1. Worked(r, "lost")
      BY <1>2 DEF Crash, Worked, InFlight, Pc, Pcs, Flying, HoldingPcs, CheckedPcs
    <2> QED
      BY <2>1, WorkedKeeps
  <1>3. CASE \E d \in Digests, n \in Amounts, b \in BOOLEAN : Pay(d, n, b)
    <2>1. \A n \in Amounts : n \in Nat
      BY GateAssumption
    <2> QED
      BY <1>3, <2>1, PayKeeps
  <1>4. CASE Tick
    BY <1>4, TickKeeps
  <1> QED
    BY <1>1, <1>2, <1>3, <1>4 DEF GateStep

LEMMA EndpointsKeep == GInv /\ Next => GInv'
  <1> SUFFICES ASSUME GInv, Next
               PROVE  GInv'
    OBVIOUS
  <1>1. UNCHANGED worker /\ {"hire"} \in SUBSET Routes
    BY GateAssumption DEF Next
  <1>2. CASE worker = "larry" /\ Larry!Next
    <2>1. CASE Larry!GateStep(Routes)
      <3>1. GateStep(Routes)
        BY <2>1 DEF Larry!GateStep, Larry!Look, Larry!Crash, Larry!Pay, Larry!Tick,
             Larry!Claimed, Larry!Pc, Larry!Digest, Larry!InFlight, Larry!NoPayment,
             GateStep, Look, Crash, Pay, Tick, Claimed, Pc, Digest, InFlight, NoPayment
      <3> QED
        BY <1>1, <3>1, GateStepKeeps
    <2>2. CASE \E r \in Requests : Larry!Handle(r)
      BY <1>1, <1>2, <2>2, LarryWorks, WorkedKeeps
    <2> QED
      BY <1>2, <2>1, <2>2 DEF Larry!Next
  <1>3. CASE worker = "sovereign" /\ Sovereign!Next
    <2>1. CASE Sovereign!GateStep({"hire"})
      <3>1. GateStep({"hire"})
        BY <2>1 DEF Sovereign!GateStep, Sovereign!Look, Sovereign!Crash, Sovereign!Pay,
             Sovereign!Tick, Sovereign!Claimed, Sovereign!Pc, Sovereign!Digest,
             Sovereign!InFlight, Sovereign!NoPayment,
             GateStep, Look, Crash, Pay, Tick, Claimed, Pc, Digest, InFlight, NoPayment
      <3> QED
        BY <1>1, <3>1, GateStepKeeps
    <2>2. CASE \E r \in Requests : Sovereign!Handle(r)
      BY <1>1, <1>3, <2>2, SovereignWorks, WorkedKeeps
    <2> QED
      BY <1>3, <2>1, <2>2 DEF Sovereign!Next
  <1> QED
    BY <1>2, <1>3 DEF Next

LEMMA InitGInv == Init => GInv
  <1> SUFFICES ASSUME Init
               PROVE  GInv
    OBVIOUS
  <1>1. (CHOOSE route \in Routes : TRUE) \in Routes /\ (CHOOSE d \in Digests : TRUE) \in Digests
    BY GateAssumption
  <1>2. GateTypeOK
    BY <1>1 DEF Init, GateInit, GateTypeOK, Payment, Request, Pcs, NoPayment
  <1>3. /\ now = 0 /\ served = {} /\ \A r \in Requests : Pc(r) = "idle"
        /\ \A d \in Digests : payments[d].paidAt = 0 /\ claims[d] = 0
        /\ ClaimTtl \in Nat
    BY GateAssumption DEF Init, GateInit, NoPayment, Pc
  <1> QED
    BY <1>2, <1>3 DEF GInv, TimesOK, OverlapsKnown, FlightsOK, ServedOK, SingleUseUncontended,
         HoldersKnown, AnswersServed, Holding, Checked, HoldingPcs, CheckedPcs, Flying, Claimed

-----------------------------------------------------------------------------
(* The form. *)

\* What an endpoint's step leaves of payments and requests, and how a request fails.
Advances ==
    /\ \A d \in Digests : payments[d].amount # 0 => payments'[d] = payments[d]
    /\ \A s \in served : s \in served'
    /\ \A s \in Requests : Pc(s) # "idle" =>
          /\ requests'[s].digest = requests[s].digest /\ requests'[s].route = requests[s].route
          /\ requests'[s].startedAt = requests[s].startedAt
          /\ requests'[s].pc # "idle"
          /\ \/ requests'[s].pc = requests[s].pc
             \/ requests'[s].pc \notin {"failing", "conflict", "rejected"}
             \/ requests'[s].pc = "failing" /\ requests[s].pc \in {"claimed", "verified"}
             \/ requests'[s].pc = "rejected" /\ requests[s].pc = "failing"

LEMMA WorkedAdvances ==
    ASSUME GateTypeOK, worker = "larry", NEW r \in Requests, NEW pc, Worked(r, pc)
    PROVE  Advances
  <1>1. /\ pc \in Pcs /\ requests' = [requests EXCEPT ![r].pc = pc] /\ payments' = payments
        /\ \A s \in served : s \in served'
    BY DEF Worked
  <1>2. \A s \in Requests :
            /\ requests'[s].digest = requests[s].digest
            /\ requests'[s].route = requests[s].route
            /\ requests'[s].startedAt = requests[s].startedAt
            /\ requests'[s].pc = IF s = r THEN pc ELSE requests[s].pc
    BY <1>1, MovedFacts
  <1> QED
    BY <1>1, <1>2 DEF Advances, Worked, Pc

LEMMA LookAdvances ==
    ASSUME GateTypeOK, NEW r \in Requests, NEW route, NEW d, Look(r, route, d)
    PROVE  Advances
  <1>1. /\ requests \in [Requests -> Request] /\ Pc(r) = "idle"
        /\ UNCHANGED <<payments, served>>
        /\ \A s \in Requests : s # r => requests'[s] = requests[s]
    BY DEF Look, GateTypeOK
  <1> QED
    BY <1>1 DEF Advances, Pc

LEMMA PayAdvances ==
    ASSUME GateTypeOK, NEW d \in Digests, NEW n, NEW b, Pay(d, n, b)
    PROVE  Advances
  <1>1. /\ payments[d].amount = 0 /\ \A e \in Digests : e # d => payments'[e] = payments[e]
        /\ UNCHANGED <<requests, served>>
    BY DEF Pay, NoPayment, GateTypeOK
  <1> QED
    BY <1>1 DEF Advances, Pc

LEMMA LarryAdvances ==
    ASSUME GInv, Next, worker = "larry"
    PROVE  Advances
  <1>1. UNCHANGED worker /\ Larry!Next /\ GateTypeOK
    BY DEF Next, GInv
  <1>2. CASE \E r \in Requests : Larry!Handle(r)
    BY <1>1, <1>2, LarryWorks, WorkedAdvances
  <1>3. CASE Larry!GateStep(Routes)
    <2>1. GateStep(Routes)
      BY <1>3 DEF Larry!GateStep, Larry!Look, Larry!Crash, Larry!Pay, Larry!Tick,
           Larry!Claimed, Larry!Pc, Larry!Digest, Larry!InFlight, Larry!NoPayment,
           GateStep, Look, Crash, Pay, Tick, Claimed, Pc, Digest, InFlight, NoPayment
    <2>2. ASSUME NEW r \in Requests, Crash(r)
          PROVE  Advances
      <3>1. Worked(r, "lost")
        BY <1>1, <2>2 DEF Crash, Worked, InFlight, Pc, Pcs, Flying, HoldingPcs, CheckedPcs
      <3> QED
        BY <1>1, <3>1, WorkedAdvances
    <2>3. Tick => Advances
      BY DEF Tick, Advances, Pc
    <2> QED
      BY <1>1, <2>1, <2>2, <2>3, LookAdvances, PayAdvances DEF GateStep
  <1> QED
    BY <1>1, <1>2, <1>3 DEF Larry!Next

RunnerType == [pc : {"idle", "signing", "paid", "posted", "answered", "failed"},
               price : Nat, digest : Digests, request : Requests \cup {NoRequest}]

\* What the form knows of its payment and its request holds while the agent works:
\* a request that fails does so by a fault, or its payment does not check out.
LEMMA FormEndpointStep ==
    ASSUME HInv, EndpointStep
    PROVE  FormOK'
  <1>0. PICK r : r = runner.request
    OBVIOUS
  <1>1. /\ runner \in RunnerType /\ UNCHANGED <<runner, worker>> /\ Next
        /\ GInv /\ FormOK /\ GateTypeOK
    BY DEF HInv, GInv, FormOK, RunnerType, EndpointStep, Next
  <1>2. CASE runner.pc = "idle"
    BY <1>1, <1>2 DEF FormOK, RunnerType
  <1>3. CASE runner.pc # "idle"
    <2>1. worker = "larry" /\ runner.price \in Nat /\ runner.price > 0 /\ runner.digest \in Digests
      BY <1>1, <1>3 DEF FormOK, RunnerType
    <2>2. Advances
      BY <1>1, <2>1, LarryAdvances
    <2>3. runner.pc \in {"paid", "posted", "answered", "failed"} =>
             payments'[runner.digest] = payments[runner.digest]
      BY <1>1, <2>1, <2>2 DEF Advances, FormOK
    <2>4. runner.pc = "answered" => r \in served'
      BY <1>0, <1>1, <2>2 DEF Advances, FormOK
    <2>5. ASSUME r # NoRequest
          PROVE  /\ Digest(r)' = runner.digest /\ requests'[r].route = "hire" /\ Pc(r)' # "idle"
                 /\ Pc(r)' \in {"failing", "conflict", "rejected", "lost"} => Excused(r)'
      <3>1. r \in Requests /\ runner.pc \in {"posted", "answered", "failed"}
        BY <1>0, <1>1, <2>5 DEF RunnerType, FormOK
      <3>2. /\ Digest(r) = runner.digest /\ requests[r].route = "hire" /\ Pc(r) # "idle"
            /\ Pc(r) \in {"failing", "conflict", "rejected", "lost"} => Excused(r)
        BY <1>0, <1>1, <2>5 DEF FormOK
      <3>3. /\ requests'[r].digest = runner.digest /\ requests'[r].route = "hire"
            /\ requests'[r].startedAt = requests[r].startedAt /\ requests'[r].pc # "idle"
            /\ \/ requests'[r].pc = requests[r].pc
               \/ requests'[r].pc \notin {"failing", "conflict", "rejected"}
               \/ requests'[r].pc = "failing" /\ requests[r].pc \in {"claimed", "verified"}
               \/ requests'[r].pc = "rejected" /\ requests[r].pc = "failing"
        BY <2>2, <3>1, <3>2 DEF Advances, Digest
      <3>4. Excused(r) => Excused(r)'
        <4>1. struck \subseteq struck'
          BY DEF EndpointStep
        <4>2. \A s \in Requests : Pc(s) # "idle" /\ Digest(s) = runner.digest =>
                  Pc(s)' # "idle" /\ Digest(s)' = runner.digest
          BY <2>2 DEF Advances, Pc, Digest
        <4>3. Started(r)' = Started(r)
          BY <3>3 DEF Started
        <4> QED
          BY <1>1, <2>3, <3>1, <4>1, <4>2, <4>3 DEF Excused
      <3>5. struck' = struck \cup {s \in Requests : Pc(s)' # Pc(s) /\ Strikes(s)}
        BY DEF EndpointStep
      <3>6. CASE requests'[r].pc = requests[r].pc
        BY <3>2, <3>3, <3>4, <3>6 DEF Pc, Digest
      <3>7. CASE requests'[r].pc = "lost" /\ requests[r].pc # "lost"
        <4>1. r \in struck'
          BY <3>1, <3>5, <3>7 DEF Strikes, Pc
        <4> QED
          BY <3>3, <4>1 DEF Excused, Pc, Digest
      <3>8. CASE requests'[r].pc = "failing" /\ requests[r].pc = "verified"
        <4>1. r \in struck'
          BY <3>1, <3>5, <3>8 DEF Strikes, Pc
        <4> QED
          BY <3>3, <4>1 DEF Excused, Pc, Digest
      <3>9. CASE requests'[r].pc = "failing" /\ requests[r].pc = "claimed"
        <4>1. CASE Valid(Digest(r), Floor["hire"])
          <5>1. r \in struck'
            BY <3>1, <3>5, <3>9, <4>1 DEF Strikes, Pc
          <5> QED
            BY <3>3, <5>1 DEF Excused, Pc, Digest
        <4>2. CASE ~ Valid(Digest(r), Floor["hire"])
          <5> DEFINE payment == payments[runner.digest]
          <5>1. payment.amount = runner.price
            BY <1>1, <3>1 DEF FormOK
          <5>2. /\ now \in Nat /\ Freshness \in Nat /\ RequestLimit \in Nat
                /\ payment.paidAt \in Nat /\ Started(r) \in Nat
                /\ Floor["hire"] \in Nat
            BY <1>1, <2>1, <3>1, GateTypes, GateAssumption DEF Started
          <5>3. now <= Started(r) + RequestLimit
            BY <1>1, <3>1, <3>9 DEF GInv, TimesOK, Pc, Flying
          <5>4. \/ runner.price < Floor["hire"]
                \/ ~ payment.counted
                \/ payment.paidAt + Freshness < Started(r) + RequestLimit
            <6>1. payment.amount >= Floor["hire"] /\ payment.counted => now - payment.paidAt > Freshness
              BY <3>2, <4>2, <5>2 DEF Valid
            <6> QED
              BY <2>1, <5>1, <5>2, <5>3, <6>1
          <5>5. Excused(r)
            BY <5>4 DEF Excused
          <5> QED
            BY <3>3, <3>4, <5>5 DEF Pc, Digest
        <4> QED
          BY <4>1, <4>2
      <3>10. CASE requests'[r].pc = "rejected" /\ requests[r].pc = "failing"
        BY <3>2, <3>3, <3>4, <3>10 DEF Pc, Digest
      <3>11. CASE requests'[r].pc \notin {"failing", "conflict", "rejected", "lost"}
        BY <3>3, <3>11 DEF Pc, Digest
      <3> QED
        BY <3>3, <3>6, <3>7, <3>8, <3>9, <3>10, <3>11 DEF Pc
    <2> QED
      BY <1>0, <1>1, <2>1, <2>3, <2>4, <2>5 DEF FormOK
  <1> QED
    BY <1>2, <1>3

\* The form's own steps: it has the wallet pay, posts the digest once, and waits.
LEMMA RunSyncKeeps ==
    ASSUME HInv, worker = "larry", RunSync
    PROVE  HInv'
  <1>1. /\ runner \in RunnerType /\ GInv /\ FormOK /\ GateTypeOK
    BY DEF HInv, GInv, FormOK, RunnerType
  <1>2. ASSUME UNCHANGED endpointVars
        PROVE  GInv'
    BY <1>1, <1>2 DEF endpointVars, gateVars, GInv, GateTypeOK, TimesOK, OverlapsKnown,
         FlightsOK, ServedOK, SingleUseUncontended, HoldersKnown, AnswersServed, Holding,
         HoldingPcs, Checked, CheckedPcs, Holds, Over, PaidInTime, Contended, Claimed, Pc,
         Digest, Started
  <1>3. ASSUME NEW n \in Prices, AskWallet(n)
        PROVE  HInv'
    <2>1. n \in Nat /\ n > 0
      BY <1>3, HireAssumption DEF Prices, AskWallet
    <2>2. /\ runner.pc = "idle" /\ runner' = [runner EXCEPT !.pc = "signing", !.price = n]
          /\ UNCHANGED endpointVars /\ worker' = worker
      BY <1>3 DEF AskWallet, endpointVars
    <2>3. runner.request = NoRequest
      BY <1>1, <2>2 DEF FormOK
    <2>4. FormOK'
      BY <1>1, <2>1, <2>2, <2>3 DEF FormOK, RunnerType
    <2> QED
      BY <1>2, <2>2, <2>4 DEF HInv
  <1>4. ASSUME NEW d \in Digests, NEW b \in BOOLEAN, WalletPays(d, b)
        PROVE  HInv'
    <2>1. /\ runner.pc = "signing" /\ Pay(d, runner.price, b) /\ worker' = worker
          /\ runner' = [runner EXCEPT !.pc = "paid", !.digest = d]
      BY <1>4 DEF WalletPays
    <2>2. runner.price \in Nat /\ runner.price > 0 /\ runner.request = NoRequest
      BY <1>1, <2>1 DEF FormOK, RunnerType
    <2>3. payments'[d].amount = runner.price
      BY <1>1, <2>1 DEF Pay, GateTypeOK
    <2>4. FormOK'
      BY <1>1, <2>1, <2>2, <2>3 DEF FormOK, RunnerType
    <2>5. GInv'
      BY <1>1, <2>1, <2>2, PayKeeps
    <2> QED
      BY <2>4, <2>5 DEF HInv
  <1>5. CASE WalletFails
    <2>1. runner.pc = "signing" /\ runner' = RunnerIdle /\ worker' = worker
      BY <1>5 DEF WalletFails
    <2>2. runner.price \in Nat
      BY <1>1 DEF RunnerType
    <2>3. GInv'
      BY <1>1, <1>2, <1>5, <2>1, <2>2, PayKeeps DEF WalletFails, endpointVars
    <2>4. FormOK'
      BY <2>1, GateAssumption DEF FormOK, RunnerIdle
    <2> QED
      BY <2>3, <2>4 DEF HInv
  <1>6. ASSUME NEW q \in Requests, Relay(q)
        PROVE  HInv'
    <2> DEFINE d == runner.digest
    <2>1. /\ runner.pc = "paid" /\ Look(q, "hire", d) /\ worker' = worker
          /\ runner' = [runner EXCEPT !.pc = "posted", !.request = q]
      BY <1>6 DEF Relay
    <2>2. /\ d \in Digests /\ runner.price > 0 /\ payments[d].amount = runner.price
          /\ q # NoRequest /\ "hire" \in Routes
      BY <1>1, <2>1, HireAssumption, GateAssumption DEF FormOK, RunnerType
    <2>3. GInv'
      BY <1>1, <2>1, <2>2, LookKeeps
    <2>4. /\ requests'[q] = [pc |-> IF Claimed(d) THEN "conflict" ELSE "looked",
                             route |-> "hire", digest |-> d, startedAt |-> now]
          /\ \A s \in Requests : s # q => requests'[s] = requests[s]
          /\ Pc(q) = "idle" /\ payments' = payments
      BY <1>1, <2>1 DEF Look, GateTypeOK
    <2>5. /\ requests'[q].pc \in {"conflict", "looked"} /\ requests'[q].digest = d
          /\ requests'[q].route = "hire" /\ (requests'[q].pc = "conflict" => Claimed(d))
      BY <2>4
    <2>6. ASSUME Claimed(d)
          PROVE  \E s \in Requests \ {q} : requests'[s].pc # "idle" /\ requests'[s].digest = d
      <3>1. PICK s \in Requests : Digest(s) = d /\ (Holding(s) \/ Pc(s) \in {"answered", "lost"})
        BY <1>1, <2>2, <2>6 DEF GInv, HoldersKnown
      <3>2. Pc(s) # "idle"
        BY <3>1 DEF Holding, HoldingPcs
      <3> QED
        BY <2>4, <3>1, <3>2 DEF Pc, Digest
    <2>7. /\ runner'.pc = "posted" /\ runner'.request = q /\ runner'.digest = d
          /\ runner'.price = runner.price /\ runner' \in RunnerType
      BY <1>1, <2>1 DEF RunnerType
    <2>8. Pc(q)' = "conflict" => \E s \in Requests \ {q} : Pc(s)' # "idle" /\ Digest(s)' = runner'.digest
      BY <2>5, <2>6, <2>7 DEF Pc, Digest
    <2>9. FormOK'
      BY <2>1, <2>2, <2>4, <2>5, <2>7, <2>8 DEF FormOK, RunnerType, Excused, Pc, Digest
    <2> QED
      BY <2>3, <2>9 DEF HInv
  <1>7. ASSUME UNCHANGED <<endpointVars, struck>>, NEW pc \in {"answered", "failed"},
               runner' = [runner EXCEPT !.pc = pc],
               runner.pc = "posted" \/ (runner.pc = "paid" /\ pc = "failed"),
               pc = "answered" => Pc(runner.request) = "answered"
        PROVE  HInv'
    <2>1. /\ runner'.pc = pc /\ runner'.request = runner.request
          /\ runner'.digest = runner.digest /\ runner'.price = runner.price
          /\ runner' \in RunnerType
      BY <1>1, <1>7 DEF RunnerType
    <2>2. /\ worker' = worker /\ payments' = payments /\ requests' = requests
          /\ struck' = struck /\ served' = served
      BY <1>7 DEF endpointVars, gateVars
    <2>3. pc = "answered" => runner.request \in served /\ runner.request # NoRequest
      BY <1>1, <1>7 DEF GInv, AnswersServed, FormOK, RunnerType
    <2>4. FormOK'
      BY <1>1, <1>7, <2>1, <2>2, <2>3 DEF FormOK, RunnerType, Excused, Pc, Digest, Started
    <2> QED
      BY <1>2, <1>7, <2>4 DEF HInv
  <1>8. CASE RelayLost \/ ReplyLost \/ ShowFailure
    <2>1. /\ UNCHANGED <<endpointVars, struck>> /\ runner' = [runner EXCEPT !.pc = "failed"]
          /\ runner.pc \in {"paid", "posted"}
      BY <1>8 DEF RelayLost, ReplyLost, ShowFailure, To
    <2> QED
      BY <1>7, <2>1
  <1>9. CASE ShowAnswer
    <2>1. /\ UNCHANGED <<endpointVars, struck>> /\ runner' = [runner EXCEPT !.pc = "answered"]
          /\ runner.pc = "posted" /\ Pc(runner.request) = "answered"
      BY <1>9 DEF ShowAnswer, To
    <2> QED
      BY <1>7, <2>1
  <1> QED
    BY <1>3, <1>4, <1>5, <1>6, <1>8, <1>9 DEF RunSync

LEMMA HireStep == HInv /\ [HireNext]_hireVars => HInv'
  <1>1. ASSUME HInv, EndpointStep
        PROVE  HInv'
    BY <1>1, FormEndpointStep, EndpointsKeep DEF HInv, EndpointStep
  <1>2. ASSUME HInv, UNCHANGED hireVars
        PROVE  HInv'
    BY <1>2 DEF hireVars, endpointVars, gateVars, HInv, GInv, GateTypeOK, TimesOK,
         OverlapsKnown, FlightsOK, ServedOK, SingleUseUncontended, HoldersKnown,
         AnswersServed, Holding, HoldingPcs, Checked, CheckedPcs, Holds, Over, PaidInTime,
         Contended, Claimed, Pc, Digest, Started, FormOK, Excused
  <1> QED
    BY <1>1, <1>2, RunSyncKeeps DEF HireNext

LEMMA HireInitInv == HireInit => HInv
  BY InitGInv, GateAssumption DEF HireInit, HInv, FormOK, RunnerIdle

THEOREM HireInvariant == HireSpec => []HInv
  BY HireInitInv, HireStep, PTL DEF HireSpec

\* No handler does work that an outsider has not paid for.
THEOREM WorkAlwaysPaid == HireSpec => []WorkIsPaid
  <1>1. HInv => WorkIsPaid
    BY DEF HInv, GInv, ServedOK, PaidInTime, WorkIsPaid
  <1> QED
    BY <1>1, HireInvariant, PTL

\* A payment is used once, unless two requests on it were in flight together.
THEOREM UsedOnce == HireSpec => []SingleUseUncontended
  <1>1. HInv => SingleUseUncontended
    BY DEF HInv, GInv
  <1> QED
    BY <1>1, HireInvariant, PTL

\* What funded work stays claimed: always with the sovereign agent, with Larry
\* unless requests on it overlapped.
THEOREM UsedStaysClaimed == HireSpec => []ServedStaysClaimed
  <1>1. HInv => ServedStaysClaimed
    <2> SUFFICES ASSUME HInv, NEW r \in served, now < requests[r].startedAt + ClaimTtl
                 PROVE  Claimed(Digest(r)) \/ (worker = "larry" /\ Digest(r) \in contended)
      BY DEF ServedStaysClaimed
    <2>1. GateTypeOK /\ r \in Requests /\ worker \in {"larry", "sovereign"}
      BY DEF HInv, GInv, GateTypeOK
    <2>2. /\ now \in Nat /\ ClaimTtl \in Nat /\ Started(r) \in Nat /\ Digest(r) \in Digests
          /\ claims[Digest(r)] \in Nat
      BY <2>1, GateTypes DEF Started, Digest
    <2>3. /\ Contended(r) \/ Over(r) \/ Holds(r)
          /\ worker = "sovereign" => Holds(r)
      BY DEF HInv, GInv, ServedOK
    <2>4. ~ Over(r)
      BY <2>2 DEF Over, Started
    <2>5. Holds(r) => Claimed(Digest(r))
      BY <2>2 DEF Holds, Claimed, Started
    <2> QED
      BY <2>1, <2>3, <2>4, <2>5 DEF Contended
  <1> QED
    BY <1>1, HireInvariant, PTL

\* A claim that stands was put by a request that is handled, answered, or lost.
THEOREM NoStrayClaim == HireSpec => []ClaimsExplained
  <1>1. HInv => ClaimsExplained
    BY DEF HInv, GInv, HoldersKnown, ClaimsExplained, Holding, HoldingPcs, InFlight
  <1> QED
    BY <1>1, HireInvariant, PTL

\* A payment through the form buys an answer, unless one of the stated things happened.
THEOREM FormPaysForWork == HireSpec => []PaidIsServed
  <1>1. HInv => PaidIsServed
    <2> SUFFICES ASSUME HInv, runner.pc = "failed",
                        runner.request \notin struck \cup served \cup InFlight \cup {NoRequest}
                 PROVE  LET r == runner.request
                            payment == payments[runner.digest]
                        IN  \/ runner.price < Floor["hire"] \/ ~payment.counted
                            \/ payment.paidAt + Freshness < requests[r].startedAt + RequestLimit
                            \/ \E s \in Requests \ {r} : Pc(s) # "idle" /\ Digest(s) = runner.digest
      BY DEF PaidIsServed, HInv, FormOK
    <2>1. PICK r \in Requests : r = runner.request
      BY DEF HInv, FormOK
    <2>2. Pc(r) \in Pcs /\ Pc(r) \notin Flying /\ Pc(r) # "answered" /\ Pc(r) # "idle"
      BY <2>1, GateTypes DEF HInv, GInv, FormOK, AnswersServed, InFlight, Flying, Pc
    <2>3. Pc(r) \in {"failing", "conflict", "rejected", "lost"}
      BY <2>2 DEF Pcs, Flying
    <2>4. Excused(r)
      BY <2>1, <2>3 DEF HInv, FormOK
    <2> QED
      BY <2>1, <2>4 DEF Excused, Started
  <1> QED
    BY <1>1, HireInvariant, PTL
====
