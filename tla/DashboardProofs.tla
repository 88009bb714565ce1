--------------------------- MODULE DashboardProofs ---------------------------
(***************************************************************************)
(* The dashboard, for every value of its parameters: the promise of the    *)
(* RPC cache, what the pages may leave out and how old they may be, what   *)
(* the trade form yields, and how far the market moves the discovery       *)
(* score.                                                                  *)
(***************************************************************************)
EXTENDS Dashboard, LaunchpadProofs

CacheTypeOK ==
    /\ clock \in Nat
    /\ cache \in [Keys -> [asOf : Nat, expires : Nat, failedOver : BOOLEAN]]
    /\ flights \in [Keys -> [phase : {"none", "sent", "body"}, node : 1 .. NodeCount,
                             since : Nat, asOf : Nat, failedOver : BOOLEAN]]
    /\ readers \in [Readers -> [pc : {"idle", "waiting", "got", "failed"}, key : Keys,
                                since : Nat, floor : Nat, asOf : Nat, at : Nat,
                                failedOver : BOOLEAN]]
    /\ seen \in [Keys -> Nat]

\* A request keeps to its time limits.
Punctual(k) ==
    /\ flights[k].phase # "none" => flights[k].since <= clock
    /\ flights[k].phase = "sent" => clock <= flights[k].since + Timeout
    /\ flights[k].phase = "body" => clock <= flights[k].since + BodyLimit

\* What an answer on its way, or an entry, may still be worth.
Young(k) ==
    /\ flights[k].phase = "body" =>
            flights[k].since <= flights[k].asOf + Timeout + MaxLag
    /\ cache[k].expires > 0 => cache[k].expires <= cache[k].asOf + AgeLimit

\* The inductive invariant: AgeBounded alone says nothing of what readers have yet
\* to be given.
CInv ==
    /\ CacheTypeOK
    /\ \A k \in Keys : Punctual(k) /\ Young(k)
    /\ AgeBounded

LEMMA LimitsTyped ==
    /\ Ttl \in Nat /\ Timeout \in Nat /\ BodyLimit \in Nat /\ MaxLag \in Nat
    /\ NodeCount \in Nat /\ 1 \in 1 .. NodeCount
    /\ AgeLimit = Ttl + Timeout + BodyLimit + MaxLag /\ AgeLimit \in Nat
  BY CacheAssumption DEF AgeLimit

\* What the type invariant says of one key and of one reader.
LEMMA KeyTyped ==
    ASSUME CInv, NEW k \in Keys
    PROVE  /\ clock \in Nat
           /\ flights[k].phase \in {"none", "sent", "body"}
           /\ flights[k].node \in 1 .. NodeCount
           /\ flights[k].since \in Nat /\ flights[k].asOf \in Nat
           /\ flights[k].failedOver \in BOOLEAN
           /\ cache[k].asOf \in Nat /\ cache[k].expires \in Nat
           /\ cache[k].failedOver \in BOOLEAN
           /\ Punctual(k) /\ Young(k)
  BY DEF CInv, CacheTypeOK

\* A key whose request and entry are left alone.
LEMMA KeyUntouched ==
    ASSUME CInv, NEW k \in Keys, clock' = clock,
           flights'[k] = flights[k], cache'[k] = cache[k]
    PROVE  Punctual(k)' /\ Young(k)'
  BY DEF CInv, Punctual, Young

LEMMA CacheInitInv == CacheInit => CInv
  <1> SUFFICES ASSUME CacheInit
               PROVE  CInv
    OBVIOUS
  <1>1. (CHOOSE k \in Keys : TRUE) \in Keys
    BY CacheAssumption
  <1>2. CacheTypeOK
    BY <1>1, LimitsTyped DEF CacheInit, CacheTypeOK, NoEntry, NoFlight
  <1>3. \A k \in Keys : Punctual(k) /\ Young(k)
    BY DEF CacheInit, Punctual, Young, NoEntry, NoFlight
  <1>4. AgeBounded
    BY DEF CacheInit, AgeBounded
  <1> QED
    BY <1>2, <1>3, <1>4 DEF CInv

\* A reader is served from an entry that has not expired.
LEMMA ReadHitInv ==
    ASSUME CInv, NEW r \in Readers, NEW k \in Keys, ReadHit(r, k)
    PROVE  CInv'
  <1> DEFINE given == Given(Reading(r, k), cache[k].asOf, cache[k].failedOver)
  <1>1. /\ readers' = [readers EXCEPT ![r] = given]
        /\ UNCHANGED <<clock, cache, flights, seen>>
        /\ Hit(k)
    BY DEF ReadHit
  <1>2. /\ given \in [pc : {"idle", "waiting", "got", "failed"}, key : Keys, since : Nat,
                      floor : Nat, asOf : Nat, at : Nat, failedOver : BOOLEAN]
        /\ given.at = clock /\ given.asOf = cache[k].asOf
    BY KeyTyped DEF CInv, CacheTypeOK, Given, Reading
  <1> HIDE DEF given
  <1>3. CacheTypeOK'
    BY <1>1, <1>2 DEF CInv, CacheTypeOK
  <1>4. \A j \in Keys : Punctual(j)' /\ Young(j)'
    BY <1>1, KeyUntouched
  <1>5. clock - cache[k].asOf <= AgeLimit
    BY <1>1, KeyTyped, LimitsTyped DEF Hit, Young
  <1>6. ASSUME NEW s \in Readers, readers'[s].pc = "got"
        PROVE  readers'[s].at - readers'[s].asOf <= AgeLimit'
    BY <1>1, <1>2, <1>5, <1>6 DEF CInv, CacheTypeOK, AgeBounded, AgeLimit
  <1> QED
    BY <1>3, <1>4, <1>6 DEF CInv, AgeBounded

\* A reader that starts to wait has been given nothing.
LEMMA ReadWaitInv ==
    ASSUME CInv, NEW r \in Readers, NEW k \in Keys, ReadJoin(r, k) \/ ReadSend(r, k)
    PROVE  CInv'
  <1>1. /\ readers' = [readers EXCEPT ![r] = Reading(r, k)]
        /\ UNCHANGED <<clock, cache, seen>>
        /\ \/ flights' = flights
           \/ flights' = [flights EXCEPT ![k] = Ask(1, FALSE)]
    BY DEF ReadJoin, ReadSend, FirstNode
  <1>2. /\ Reading(r, k) \in [pc : {"idle", "waiting", "got", "failed"}, key : Keys,
                              since : Nat, floor : Nat, asOf : Nat, at : Nat,
                              failedOver : BOOLEAN]
        /\ Reading(r, k).pc = "waiting"
    BY DEF CInv, CacheTypeOK, Reading
  <1>3. /\ Ask(1, FALSE) \in [phase : {"none", "sent", "body"}, node : 1 .. NodeCount,
                              since : Nat, asOf : Nat, failedOver : BOOLEAN]
        /\ Ask(1, FALSE).phase = "sent" /\ Ask(1, FALSE).since = clock
    BY LimitsTyped DEF CInv, CacheTypeOK, Ask
  <1>4. CacheTypeOK'
    <2>1. readers' \in [Readers -> [pc : {"idle", "waiting", "got", "failed"}, key : Keys,
                                    since : Nat, floor : Nat, asOf : Nat, at : Nat,
                                    failedOver : BOOLEAN]]
      BY <1>1, <1>2 DEF CInv, CacheTypeOK
    <2>2. flights' \in [Keys -> [phase : {"none", "sent", "body"}, node : 1 .. NodeCount,
                                 since : Nat, asOf : Nat, failedOver : BOOLEAN]]
      BY <1>1, <1>3 DEF CInv, CacheTypeOK
    <2> QED
      BY <1>1, <2>1, <2>2 DEF CInv, CacheTypeOK
  <1>5. ASSUME NEW j \in Keys
        PROVE  Punctual(j)' /\ Young(j)'
    <2>1. CASE flights'[j] = flights[j]
      BY <1>1, <2>1, KeyUntouched
    <2>2. CASE flights'[j] # flights[j]
      <3>1. flights'[j] = Ask(1, FALSE)
        BY <1>1, <2>2 DEF CInv, CacheTypeOK
      <3>2. flights'[j].phase = "sent" /\ flights'[j].since = clock
        BY <1>3, <3>1
      <3>3. clock' = clock /\ cache' = cache /\ clock \in Nat /\ Young(j)
        BY <1>1, KeyTyped
      <3>4. Punctual(j)'
        BY <3>2, <3>3, LimitsTyped DEF Punctual
      <3> QED
        BY <3>2, <3>3, <3>4 DEF Young, AgeLimit
    <2> QED
      BY <2>1, <2>2
  <1>6. AgeBounded'
    BY <1>1, <1>2 DEF CInv, CacheTypeOK, AgeBounded, AgeLimit
  <1> QED
    BY <1>4, <1>5, <1>6 DEF CInv

\* The node looked the answer up after it was asked, less its lag.
LEMMA HeadersInv ==
    ASSUME CInv, NEW k \in Keys, Headers(k)
    PROVE  CInv'
  <1>1. PICK t \in flights[k].since - Lag[flights[k].node] .. clock :
            /\ t >= 0
            /\ flights' = [flights EXCEPT ![k].phase = "body", ![k].asOf = t,
                                          ![k].since = clock]
    BY DEF Headers
  <1>2. flights[k].phase = "sent" /\ UNCHANGED <<clock, cache, readers, seen>>
    BY DEF Headers
  <1>3. Lag[flights[k].node] \in 0 .. MaxLag
    BY KeyTyped, CacheAssumption
  <1>4. t \in Nat
    BY <1>1, <1>3, KeyTyped
  <1>5. clock <= t + Timeout + MaxLag
    BY <1>1, <1>2, <1>3, <1>4, KeyTyped, LimitsTyped DEF Punctual
  <1>6. CacheTypeOK'
    <2>1. [flights[k] EXCEPT !.phase = "body", !.asOf = t, !.since = clock]
            \in [phase : {"none", "sent", "body"}, node : 1 .. NodeCount,
                 since : Nat, asOf : Nat, failedOver : BOOLEAN]
      BY <1>4 DEF CInv, CacheTypeOK
    <2>2. flights' = [flights EXCEPT ![k] =
            [flights[k] EXCEPT !.phase = "body", !.asOf = t, !.since = clock]]
      BY <1>1
    <2>3. flights' \in [Keys -> [phase : {"none", "sent", "body"}, node : 1 .. NodeCount,
                                 since : Nat, asOf : Nat, failedOver : BOOLEAN]]
      BY <2>1, <2>2 DEF CInv, CacheTypeOK
    <2> QED
      BY <1>2, <2>3 DEF CInv, CacheTypeOK
  <1>7. ASSUME NEW j \in Keys
        PROVE  Punctual(j)' /\ Young(j)'
    <2>1. CASE j = k
      <3>1. flights'[k].phase = "body" /\ flights'[k].asOf = t /\ flights'[k].since = clock
        BY <1>1 DEF CInv, CacheTypeOK
      <3> QED
        BY <1>2, <1>5, <2>1, <3>1, KeyTyped, LimitsTyped DEF Punctual, Young
    <2>2. CASE j # k
      <3>1. flights'[j] = flights[j]
        BY <1>1, <2>2 DEF CInv, CacheTypeOK
      <3> QED
        BY <1>2, <3>1, KeyUntouched
    <2> QED
      BY <2>1, <2>2
  <1>8. AgeBounded'
    BY <1>2 DEF CInv, AgeBounded
  <1> QED
    BY <1>6, <1>7, <1>8 DEF CInv

\* Pruning takes entries away, and changes none.
LEMMA PrunedOnly ==
    ASSUME CInv
    PROVE  /\ Pruned \in [Keys -> [asOf : Nat, expires : Nat, failedOver : BOOLEAN]]
           /\ \A k \in Keys : Pruned[k] = NoEntry \/ Pruned[k] = cache[k]
  BY DEF CInv, CacheTypeOK, Pruned, NoEntry

\* The answer is put in the cache and given to all who wait.
LEMMA AnswerInv ==
    ASSUME CInv, NEW k \in Keys, Answer(k)
    PROVE  CInv'
  <1> DEFINE f == flights[k]
             entry == [asOf |-> f.asOf, expires |-> clock + Ttl, failedOver |-> f.failedOver]
  <1>1. /\ cache' = [Pruned EXCEPT ![k] = entry]
        /\ flights' = [flights EXCEPT ![k] = NoFlight]
        /\ readers' = [r \in Readers |-> IF r \in Waiting(k)
                            THEN Given(readers[r], f.asOf, f.failedOver) ELSE readers[r]]
        /\ seen' = [seen EXCEPT ![k] = IF f.asOf > seen[k] THEN f.asOf ELSE seen[k]]
        /\ clock' = clock /\ f.phase = "body"
    BY DEF Answer
  <1>2. clock <= f.asOf + BodyLimit + Timeout + MaxLag
    BY <1>1, KeyTyped, LimitsTyped DEF Punctual, Young
  <1>3. CacheTypeOK'
    <2>1. entry \in [asOf : Nat, expires : Nat, failedOver : BOOLEAN]
      BY KeyTyped, LimitsTyped
    <2>2. cache' \in [Keys -> [asOf : Nat, expires : Nat, failedOver : BOOLEAN]]
      BY <1>1, <2>1, PrunedOnly
    <2>3. readers' \in [Readers -> [pc : {"idle", "waiting", "got", "failed"}, key : Keys,
                                    since : Nat, floor : Nat, asOf : Nat, at : Nat,
                                    failedOver : BOOLEAN]]
      BY <1>1, KeyTyped DEF Given, CInv, CacheTypeOK
    <2>4. flights' \in [Keys -> [phase : {"none", "sent", "body"}, node : 1 .. NodeCount,
                                 since : Nat, asOf : Nat, failedOver : BOOLEAN]]
      BY <1>1, LimitsTyped DEF NoFlight, CInv, CacheTypeOK
    <2>5. seen' \in [Keys -> Nat]
      BY <1>1, KeyTyped DEF CInv, CacheTypeOK
    <2> QED
      BY <1>1, <2>2, <2>3, <2>4, <2>5 DEF CInv, CacheTypeOK
  <1>4. ASSUME NEW j \in Keys
        PROVE  Punctual(j)' /\ Young(j)'
    <2>1. CASE j = k
      <3>1. flights'[k] = NoFlight /\ cache'[k] = entry
        BY <1>1, PrunedOnly DEF CInv, CacheTypeOK
      <3> QED
        BY <1>1, <1>2, <2>1, <3>1, KeyTyped, LimitsTyped DEF Punctual, Young, NoFlight
    <2>2. CASE j # k
      <3>1. /\ flights'[j] = flights[j]
            /\ cache'[j] = NoEntry \/ cache'[j] = cache[j]
        BY <1>1, <2>2, PrunedOnly DEF CInv, CacheTypeOK
      <3> QED
        BY <1>1, <3>1, KeyTyped DEF Punctual, Young, NoEntry, AgeLimit
    <2> QED
      BY <2>1, <2>2
  <1>5. ASSUME NEW r \in Readers, readers'[r].pc = "got"
        PROVE  readers'[r].at - readers'[r].asOf <= AgeLimit'
    <2>1. CASE r \in Waiting(k)
      <3>1. readers'[r].at = clock /\ readers'[r].asOf = f.asOf
        BY <1>1, <2>1 DEF Given, CInv, CacheTypeOK
      <3> QED
        BY <1>2, <3>1, KeyTyped, LimitsTyped DEF AgeLimit
    <2>2. CASE r \notin Waiting(k)
      BY <1>1, <1>5, <2>2 DEF AgeBounded, CInv, AgeLimit
    <2> QED
      BY <2>1, <2>2
  <1> QED
    BY <1>3, <1>4, <1>5 DEF AgeBounded, CInv

\* A rejected promise gives nobody a value.
LEMMA RejectInv ==
    ASSUME CInv, NEW k \in Keys, Reject(k)
    PROVE  CInv'
  <1>1. /\ flights' = [flights EXCEPT ![k] = NoFlight]
        /\ readers' = [r \in Readers |-> IF r \in Waiting(k)
                        THEN [readers[r] EXCEPT !.pc = "failed", !.at = clock]
                        ELSE readers[r]]
        /\ UNCHANGED <<clock, cache, seen>>
    BY DEF Reject
  <1>2. CacheTypeOK'
    BY <1>1, LimitsTyped DEF NoFlight, CInv, CacheTypeOK
  <1>3. ASSUME NEW j \in Keys
        PROVE  Punctual(j)' /\ Young(j)'
    <2>1. flights'[j] = NoFlight \/ flights'[j] = flights[j]
      BY <1>1 DEF CInv, CacheTypeOK
    <2>2. CASE flights'[j] = NoFlight
      <3>1. flights'[j].phase = "none"
        BY <2>2 DEF NoFlight
      <3>2. clock' = clock /\ cache' = cache
        BY <1>1
      <3>3. Young(j)
        BY KeyTyped
      <3> QED
        BY <3>1, <3>2, <3>3 DEF Punctual, Young, AgeLimit
    <2>3. CASE flights'[j] = flights[j]
      BY <1>1, <2>3, KeyUntouched
    <2> QED
      BY <2>1, <2>2, <2>3
  <1>4. AgeBounded'
    BY <1>1 DEF CInv, CacheTypeOK, AgeBounded, AgeLimit
  <1> QED
    BY <1>2, <1>3, <1>4 DEF CInv

\* A new request has used none of its time.
LEMMA NextNodeInv ==
    ASSUME CInv, NEW k \in Keys, NextNode(k)
    PROVE  CInv'
  <1>1. CASE flights[k].node < NodeCount
    <2> DEFINE ask == Ask(flights[k].node + 1, TRUE)
    <2>1. flights' = [flights EXCEPT ![k] = ask] /\ UNCHANGED <<clock, cache, readers, seen>>
      BY <1>1 DEF NextNode
    <2>2. /\ ask \in [phase : {"none", "sent", "body"}, node : 1 .. NodeCount,
                      since : Nat, asOf : Nat, failedOver : BOOLEAN]
          /\ ask.phase = "sent" /\ ask.since = clock
      BY <1>1, KeyTyped, LimitsTyped DEF Ask
    <2> HIDE DEF ask
    <2>3. CacheTypeOK'
      BY <2>1, <2>2 DEF CInv, CacheTypeOK
    <2>4. ASSUME NEW j \in Keys
          PROVE  Punctual(j)' /\ Young(j)'
      <3>1. flights'[j] = ask \/ flights'[j] = flights[j]
        BY <2>1 DEF CInv, CacheTypeOK
      <3> QED
        BY <2>1, <2>2, <3>1, KeyTyped, LimitsTyped DEF Punctual, Young
    <2>5. AgeBounded'
      BY <2>1 DEF CInv, AgeBounded
    <2> QED
      BY <2>3, <2>4, <2>5 DEF CInv
  <1>2. CASE ~(flights[k].node < NodeCount)
    BY <1>2, RejectInv DEF NextNode
  <1> QED
    BY <1>1, <1>2

\* The clock stops for the request that has run out of time.
LEMMA TickInv ==
    ASSUME CInv, CacheTick
    PROVE  CInv'
  <1>1. clock' = clock + 1 /\ UNCHANGED <<cache, flights, readers, seen>>
    BY DEF CacheTick
  <1>2. CacheTypeOK'
    BY <1>1 DEF CInv, CacheTypeOK
  <1>3. ASSUME NEW j \in Keys
        PROVE  Punctual(j)' /\ Young(j)'
    <2>1. /\ flights[j].phase = "sent" => clock - flights[j].since < Timeout
          /\ flights[j].phase = "body" => clock - flights[j].since < BodyLimit
      BY DEF CacheTick
    <2> QED
      BY <1>1, <2>1, KeyTyped, LimitsTyped DEF Punctual, Young
  <1>4. AgeBounded'
    BY <1>1 DEF CInv, AgeBounded
  <1> QED
    BY <1>2, <1>3, <1>4 DEF CInv

LEMMA CacheStepInv == CInv /\ [CacheNext]_cacheVars => CInv'
  <1> SUFFICES ASSUME CInv, [CacheNext]_cacheVars
               PROVE  CInv'
    OBVIOUS
  <1>1. ASSUME NEW r \in Readers, NEW k \in Keys,
               ReadHit(r, k) \/ ReadJoin(r, k) \/ ReadSend(r, k)
        PROVE  CInv'
    BY <1>1, ReadHitInv, ReadWaitInv
  <1>2. ASSUME NEW k \in Keys, FlightStep(k)
        PROVE  CInv'
    BY <1>2, HeadersInv, AnswerInv, RejectInv, NextNodeInv
       DEF FlightStep, NodeFails, NodeTimesOut, BodyFails, MethodError
  <1>3. CASE UNCHANGED cacheVars
    BY <1>3 DEF cacheVars, CInv, CacheTypeOK, Punctual, Young, AgeBounded
  <1> QED
    BY <1>1, <1>2, <1>3, TickInv DEF CacheNext

\* Nobody is given a state of the chain older than a slow request and a lifetime
\* of an entry, however reads are coalesced, cached, pruned and failed over.
THEOREM AnswersStayYoung == CacheSpec => []AgeBounded
  <1>1. CInv => AgeBounded
    BY DEF CInv
  <1> QED
    BY CacheInitInv, CacheStepInv, <1>1, PTL DEF CacheSpec

\* What the answers on their way, the entries and those who wait owe to what
\* readers were given before: only a fallback may be behind it.
Forward(k) ==
    /\ seen[k] <= clock
    /\ flights[k].phase = "sent" /\ ~ flights[k].failedOver =>
            flights[k].node = 1 /\ seen[k] <= flights[k].since
    /\ flights[k].phase = "body" => flights[k].asOf <= clock
    /\ flights[k].phase = "body" /\ ~ flights[k].failedOver => seen[k] <= flights[k].asOf
    /\ cache[k].expires > 0 /\ ~ cache[k].failedOver => seen[k] <= cache[k].asOf

Patient(r) == readers[r].pc = "waiting" => readers[r].floor <= seen[readers[r].key]

ForwardInv ==
    /\ CInv
    /\ \A k \in Keys : Forward(k)
    /\ \A r \in Readers : Patient(r)
    /\ ReadsGoForward

LEMMA ReaderTyped ==
    ASSUME CInv, NEW r \in Readers
    PROVE  /\ readers[r].key \in Keys /\ readers[r].floor \in Nat /\ readers[r].asOf \in Nat
           /\ seen[readers[r].key] \in Nat
  BY DEF CInv, CacheTypeOK

LEMMA ForwardInit == CacheInit => ForwardInv
  <1> SUFFICES ASSUME CacheInit
               PROVE  ForwardInv
    OBVIOUS
  <1>1. CInv
    BY CacheInitInv
  <1>2. \A k \in Keys : Forward(k)
    BY DEF CacheInit, Forward, NoEntry, NoFlight
  <1>3. \A r \in Readers : Patient(r)
    BY DEF CacheInit, Patient
  <1>4. ReadsGoForward
    BY DEF CacheInit, ReadsGoForward
  <1> QED
    BY <1>1, <1>2, <1>3, <1>4 DEF ForwardInv

LEMMA ReadForward ==
    ASSUME ForwardInv, NEW r \in Readers, NEW k \in Keys,
           ReadHit(r, k) \/ ReadJoin(r, k) \/ ReadSend(r, k)
    PROVE  /\ \A j \in Keys : Forward(j)'
           /\ \A s \in Readers : Patient(s)'
           /\ ReadsGoForward'
  <1> USE DEF ForwardInv
  <1>1. PICK new : /\ readers' = [readers EXCEPT ![r] = new]
                   /\ \/ new = Reading(r, k)
                      \/ Hit(k) /\ new = Given(Reading(r, k), cache[k].asOf, cache[k].failedOver)
    BY DEF ReadHit, ReadJoin, ReadSend
  <1>2. /\ readers'[r] = new /\ \A s \in Readers \ {r} : readers'[s] = readers[s]
        /\ UNCHANGED <<clock, cache, seen>>
    BY <1>1 DEF ReadHit, ReadJoin, ReadSend, CInv, CacheTypeOK
  <1>3. /\ new.floor = seen[k] /\ new.key = k
        /\ new.pc = "waiting" \/ (Hit(k) /\ new.asOf = cache[k].asOf
                                   /\ new.failedOver = cache[k].failedOver)
    BY <1>1 DEF CInv, CacheTypeOK, Reading, Given
  <1>4. \A s \in Readers : Patient(s)'
    BY <1>2, <1>3, KeyTyped DEF Patient, CInv, CacheTypeOK
  <1>5. ReadsGoForward'
    <2>1. Hit(k) => cache[k].expires > 0
      BY KeyTyped DEF Hit
    <2> QED
      BY <1>2, <1>3, <2>1 DEF ReadsGoForward, Forward
  <1>6. ASSUME NEW j \in Keys
        PROVE  Forward(j)'
    <2>1. CASE flights'[j] = flights[j]
      BY <1>2, <2>1 DEF Forward
    <2>2. CASE flights'[j] # flights[j]
      <3>1. flights'[j] = Ask(1, FALSE)
        BY <2>2 DEF ReadHit, ReadJoin, ReadSend, FirstNode, CInv, CacheTypeOK
      <3>2. /\ flights'[j].phase = "sent" /\ flights'[j].node = 1
            /\ flights'[j].since = clock
        BY <3>1 DEF Ask
      <3> QED
        BY <1>2, <3>2 DEF Forward
    <2> QED
      BY <2>1, <2>2
  <1> QED
    BY <1>4, <1>5, <1>6

\* Where the primary endpoint is up to date, its answer is at least as new as
\* the request.
LEMMA HeadersForward ==
    ASSUME ForwardInv, Lag[1] = 0, NEW k \in Keys, Headers(k)
    PROVE  /\ \A j \in Keys : Forward(j)'
           /\ \A s \in Readers : Patient(s)'
           /\ ReadsGoForward'
  <1> USE DEF ForwardInv
  <1>1. PICK t \in flights[k].since - Lag[flights[k].node] .. clock :
            /\ t >= 0
            /\ flights' = [flights EXCEPT ![k].phase = "body", ![k].asOf = t,
                                          ![k].since = clock]
    BY DEF Headers
  <1>2. flights[k].phase = "sent" /\ UNCHANGED <<clock, cache, readers, seen>>
    BY DEF Headers
  <1>3. Lag[flights[k].node] \in 0 .. MaxLag
    BY KeyTyped, CacheAssumption
  <1>4. t \in Nat /\ t <= clock /\ flights[k].since - Lag[flights[k].node] <= t
    BY <1>1, <1>3, KeyTyped
  <1>5. /\ flights'[k].phase = "body" /\ flights'[k].asOf = t
        /\ flights'[k].failedOver = flights[k].failedOver
        /\ \A j \in Keys \ {k} : flights'[j] = flights[j]
    BY <1>1 DEF CInv, CacheTypeOK
  <1>6. ~ flights[k].failedOver => seen[k] <= t
    <2>1. seen[k] \in Nat /\ flights[k].since \in Nat
      BY KeyTyped DEF CInv, CacheTypeOK
    <2> QED
      BY <1>2, <1>4, <2>1 DEF Forward
  <1>7. \A j \in Keys : Forward(j)'
    BY <1>2, <1>4, <1>5, <1>6 DEF Forward
  <1> QED
    BY <1>2, <1>7 DEF Patient, ReadsGoForward

\* An answer that is taken becomes the newest state any reader was given, unless
\* a fallback gave it.
LEMMA AnswerForward ==
    ASSUME ForwardInv, NEW k \in Keys, Answer(k)
    PROVE  /\ \A j \in Keys : Forward(j)'
           /\ \A s \in Readers : Patient(s)'
           /\ ReadsGoForward'
  <1> USE DEF ForwardInv
  <1> DEFINE f == flights[k]
             entry == [asOf |-> f.asOf, expires |-> clock + Ttl, failedOver |-> f.failedOver]
  <1>1. /\ cache' = [Pruned EXCEPT ![k] = entry]
        /\ flights' = [flights EXCEPT ![k] = NoFlight]
        /\ readers' = [r \in Readers |-> IF r \in Waiting(k)
                            THEN Given(readers[r], f.asOf, f.failedOver) ELSE readers[r]]
        /\ seen' = [seen EXCEPT ![k] = IF f.asOf > seen[k] THEN f.asOf ELSE seen[k]]
        /\ clock' = clock /\ f.phase = "body"
    BY DEF Answer
  <1>2. /\ f.asOf \in Nat /\ f.asOf <= clock /\ clock \in Nat
        /\ ~ f.failedOver => seen[k] <= f.asOf
    BY <1>1, KeyTyped DEF Forward
  <1>3. /\ \A j \in Keys : seen'[j] \in Nat /\ seen[j] \in Nat /\ seen[j] <= seen'[j]
        /\ \A j \in Keys \ {k} : seen'[j] = seen[j]
        /\ seen'[k] <= clock /\ (~ f.failedOver => seen'[k] = f.asOf)
    BY <1>1, <1>2 DEF CInv, CacheTypeOK, Forward
  <1>4. /\ cache'[k].asOf = f.asOf /\ cache'[k].failedOver = f.failedOver
        /\ \A j \in Keys \ {k} : cache'[j] = NoEntry \/ cache'[j] = cache[j]
        /\ flights'[k].phase = "none"
        /\ \A j \in Keys \ {k} : flights'[j] = flights[j]
    BY <1>1, PrunedOnly DEF CInv, CacheTypeOK, NoFlight
  <1>5. ASSUME NEW j \in Keys
        PROVE  Forward(j)'
    <2>1. CASE j = k
      BY <1>1, <1>3, <1>4, <2>1, KeyTyped DEF Forward
    <2>2. CASE j # k
      BY <1>1, <1>3, <1>4, <2>2 DEF Forward, NoEntry
    <2> QED
      BY <2>1, <2>2
  <1>6. ASSUME NEW s \in Readers
        PROVE  /\ Patient(s)'
               /\ readers'[s].pc = "got" /\ ~ readers'[s].failedOver
                     => readers'[s].asOf >= readers'[s].floor
    <2>1. CASE s \in Waiting(k)
      <3>1. /\ readers'[s].pc = "got" /\ readers'[s].asOf = f.asOf
            /\ readers'[s].floor = readers[s].floor
            /\ readers'[s].failedOver = f.failedOver
        BY <1>1, <2>1 DEF Given, CInv, CacheTypeOK
      <3>2. readers[s].floor <= seen[k] /\ readers[s].floor \in Nat
        BY <2>1, ReaderTyped DEF Waiting, Patient
      <3> QED
        BY <1>2, <1>3, <3>1, <3>2 DEF Patient
    <2>2. CASE s \notin Waiting(k)
      <3>1. readers'[s] = readers[s]
        BY <1>1, <2>2
      <3>2. Patient(s)'
        BY <1>3, <3>1, ReaderTyped DEF Patient
      <3> QED
        BY <3>1, <3>2 DEF ReadsGoForward
    <2> QED
      BY <2>1, <2>2
  <1> QED
    BY <1>5, <1>6 DEF ReadsGoForward

LEMMA RejectForward ==
    ASSUME ForwardInv, NEW k \in Keys, Reject(k)
    PROVE  /\ \A j \in Keys : Forward(j)'
           /\ \A s \in Readers : Patient(s)'
           /\ ReadsGoForward'
  <1> USE DEF ForwardInv
  <1>1. /\ flights' = [flights EXCEPT ![k] = NoFlight]
        /\ readers' = [r \in Readers |-> IF r \in Waiting(k)
                        THEN [readers[r] EXCEPT !.pc = "failed", !.at = clock]
                        ELSE readers[r]]
        /\ UNCHANGED <<clock, cache, seen>>
    BY DEF Reject
  <1>2. /\ flights'[k].phase = "none"
        /\ \A j \in Keys \ {k} : flights'[j] = flights[j]
        /\ \A s \in Readers : readers'[s] = readers[s] \/ readers'[s].pc = "failed"
    BY <1>1 DEF CInv, CacheTypeOK, NoFlight
  <1>3. \A j \in Keys : Forward(j)'
    BY <1>1, <1>2 DEF Forward
  <1> QED
    BY <1>1, <1>2, <1>3 DEF Patient, ReadsGoForward

LEMMA NextNodeForward ==
    ASSUME ForwardInv, NEW k \in Keys, NextNode(k)
    PROVE  /\ \A j \in Keys : Forward(j)'
           /\ \A s \in Readers : Patient(s)'
           /\ ReadsGoForward'
  <1>1. CASE Reject(k)
    BY <1>1, RejectForward
  <1>2. CASE flights' = [flights EXCEPT ![k] = Ask(flights[k].node + 1, TRUE)]
             /\ UNCHANGED <<clock, cache, readers, seen>>
    <2>1. /\ flights'[k].phase = "sent" /\ flights'[k].failedOver
          /\ \A j \in Keys \ {k} : flights'[j] = flights[j]
      BY <1>2 DEF ForwardInv, CInv, CacheTypeOK, Ask
    <2>2. \A j \in Keys : Forward(j)'
      BY <1>2, <2>1 DEF ForwardInv, Forward
    <2> QED
      BY <1>2, <2>2 DEF ForwardInv, Patient, ReadsGoForward
  <1> QED
    BY <1>1, <1>2 DEF NextNode

LEMMA ForwardStep ==
    ASSUME Lag[1] = 0
    PROVE  ForwardInv /\ [CacheNext]_cacheVars => ForwardInv'
  <1> SUFFICES ASSUME ForwardInv, [CacheNext]_cacheVars
               PROVE  ForwardInv'
    OBVIOUS
  <1>1. CInv'
    BY CacheStepInv DEF ForwardInv
  <1>2. CASE \E r \in Readers, k \in Keys : ReadHit(r, k) \/ ReadJoin(r, k) \/ ReadSend(r, k)
    BY <1>1, <1>2, ReadForward DEF ForwardInv
  <1>3. ASSUME NEW k \in Keys, FlightStep(k)
        PROVE  ForwardInv'
    <2>1. Headers(k) \/ Answer(k) \/ NextNode(k) \/ Reject(k)
      BY <1>3 DEF FlightStep, NodeFails, NodeTimesOut, BodyFails, MethodError
    <2> QED
      BY <1>1, <2>1, HeadersForward, AnswerForward, NextNodeForward, RejectForward
      DEF ForwardInv
  <1>4. CASE CacheTick
    <2>1. clock' = clock + 1 /\ UNCHANGED <<cache, flights, readers, seen>> /\ clock \in Nat
      BY <1>4 DEF CacheTick, ForwardInv, CInv, CacheTypeOK
    <2>2. \A k \in Keys : seen[k] \in Nat /\ flights[k].asOf \in Nat
      BY DEF ForwardInv, CInv, CacheTypeOK
    <2>3. \A k \in Keys : Forward(k)'
      BY <2>1, <2>2 DEF ForwardInv, Forward
    <2> QED
      BY <1>1, <2>1, <2>3 DEF ForwardInv, Patient, ReadsGoForward
  <1>5. CASE UNCHANGED cacheVars
    BY <1>1, <1>5 DEF cacheVars, ForwardInv, Forward, Patient, ReadsGoForward
  <1> QED
    BY <1>2, <1>3, <1>4, <1>5 DEF CacheNext

\* The cache's part of the dashboard.
LEMMA CacheOfDashboard == Spec => CacheSpec
  <1>1. Init => CacheInit
    BY DEF Init
  <1>2. [Next]_dashboardVars => [CacheNext]_cacheVars
    BY DEF Next, CacheRuns, PageRuns, FormRuns, dashboardVars
  <1> QED
    BY <1>1, <1>2, PTL DEF Spec, CacheSpec

\* ReadsGoForward: where the primary endpoint is not behind the chain, a reader
\* is never given an older state than somebody had before it asked, other than
\* by a fallback endpoint, through any coalescing, expiry and pruning.
THEOREM ReadsAlwaysForward ==
    ASSUME Lag[1] = 0
    PROVE  CacheSpec => []ReadsGoForward
  <1>1. ForwardInv => ReadsGoForward
    BY DEF ForwardInv
  <1> QED
    BY ForwardInit, ForwardStep, <1>1, PTL DEF CacheSpec

-----------------------------------------------------------------------------
(* The discovery score. *)

\* A product with a fixed factor does not invert an order.
LEMMA QuotientOrder ==
    ASSUME NEW d \in Nat \ {0}, NEW p \in Nat, NEW q \in Nat, d * p < d * q + d
    PROVE  p <= q
  <1>1. d * p < d * (q + 1)
    OBVIOUS
  <1>2. p < q + 1
    BY <1>1
  <1> QED
    BY <1>2

LEMMA MultiplierTyped ==
    ASSUME NEW earned \in Nat, NEW target \in Nat
    PROVE  Multiplier(earned, target) \in Base .. 2 * Base
  <1> DEFINE bonus == (earned * Base) \div target
  <1>1. Base \in Nat
    BY StandingAssumption
  <1>2. CASE target = 0
    BY <1>1, <1>2 DEF Multiplier
  <1>3. CASE target # 0
    <2>1. earned * Base \in Nat
      BY <1>1
    <2>2. bonus \in Nat
      BY <1>3, <2>1, DivBounds
    <2>3. Multiplier(earned, target) = Base + (IF bonus > Base THEN Base ELSE bonus)
      BY <1>3 DEF Multiplier
    <2> HIDE DEF bonus
    <2> QED
      BY <1>1, <2>2, <2>3
  <1> QED
    BY <1>2, <1>3

\* The dashboard never shows a hire price below the NAV or above twice the NAV
\* ("saturates at 2.00x"), whatever the revenue and its target.
THEOREM HireQuoteSaturates ==
    ASSUME NEW nav \in Nat, NEW earned \in Nat, NEW target \in Nat
    PROVE  HireQuote(nav, earned, target) \in nav .. 2 * nav
  <1> DEFINE m == Multiplier(earned, target)
             q == (nav * m) \div Base
  <1>1. Base \in Nat \ {0}
    BY StandingAssumption
  <1>2. m \in Nat /\ Base <= m /\ m <= 2 * Base
    BY <1>1, MultiplierTyped
  <1> HIDE DEF m
  <1>3. nav * m \in Nat
    BY <1>2
  <1>4. q \in Nat /\ Base * q <= nav * m /\ nav * m < Base * q + Base
    BY <1>1, <1>3, DivBounds
  <1>5. nav * Base <= nav * m /\ nav * m <= nav * (2 * Base)
    BY <1>1, <1>2
  <1> HIDE DEF q
  <1>6. Base * nav < Base * q + Base
    BY <1>1, <1>2, <1>4, <1>5
  <1>7. nav <= q
    BY <1>1, <1>4, <1>6, QuotientOrder
  <1>8. Base * q < Base * (2 * nav) + Base
    BY <1>1, <1>2, <1>4, <1>5
  <1>9. q <= 2 * nav
    BY <1>1, <1>4, <1>8, QuotientOrder
  <1> QED
    BY <1>4, <1>7, <1>9 DEF HireQuote, q, m

\* More SUI in the pool never lowers the standing, and raises it by no more than
\* the market's share of it (standing.ts: "a market pump can move standing by at
\* most its `market` share"), to within the rounding of one division.
THEOREM MarketKeepsToItsShare ==
    ASSUME NEW nav \in Nat, NEW multiplier \in Nat, NEW pooled \in Nat, NEW more \in Nat
    PROVE  LET weights == FundamentalWeight + MarketWeight
               before  == ComputeStanding(nav, multiplier, pooled)
               after   == ComputeStanding(nav, multiplier, pooled + more)
           IN  before <= after
                 /\ weights * (after - before) < more * MarketWeight + weights
  <1> DEFINE w == FundamentalWeight + MarketWeight
             h == (nav * multiplier) \div Base
             a == h * FundamentalWeight + pooled * MarketWeight
             x == more * MarketWeight
             p == a \div w
             q == (a + x) \div w
  <1>1. w \in Nat \ {0} /\ FundamentalWeight \in Nat /\ MarketWeight \in Nat
    BY StandingAssumption
  <1>2. h \in Nat
    <2>1. nav * multiplier \in Nat
      OBVIOUS
    <2> QED
      BY <2>1, DivBounds, StandingAssumption
  <1> HIDE DEF h
  <1>3. a \in Nat /\ x \in Nat
    <2>1. h * FundamentalWeight \in Nat /\ pooled * MarketWeight \in Nat
      BY <1>1, <1>2
    <2>2. x \in Nat
      BY <1>1
    <2> QED
      BY <2>1, <2>2
  <1>4. h * FundamentalWeight + (pooled + more) * MarketWeight = a + x
    <2>1. (pooled + more) * MarketWeight = pooled * MarketWeight + x
      BY <1>1
    <2>2. h * FundamentalWeight \in Nat /\ pooled * MarketWeight \in Nat /\ x \in Nat
      BY <1>1, <1>2
    <2> QED
      BY <2>1, <2>2
  <1>5. /\ ComputeStanding(nav, multiplier, pooled) = p
        /\ ComputeStanding(nav, multiplier, pooled + more) = q
    BY <1>4 DEF ComputeStanding, h
  <1> HIDE DEF w, a, x
  <1>6. /\ p \in Nat /\ w * p <= a /\ a < w * p + w
        /\ q \in Nat /\ w * q <= a + x /\ a + x < w * q + w
    BY <1>1, <1>3, DivBounds
  <1> HIDE DEF p, q
  <1>7. p <= q
    <2>1. w * p < w * q + w
      BY <1>1, <1>3, <1>6
    <2> QED
      BY <1>1, <1>6, <2>1, QuotientOrder
  <1>8. w * (q - p) = w * q - w * p
    BY <1>1, <1>6
  <1>9. w * (q - p) < x + w
    <2> DEFINE y == w * q
               z == w * p
    <2>1. y \in Nat /\ z \in Nat
      BY <1>1, <1>6
    <2>2. y <= a + x /\ a < z + w /\ w * (q - p) = y - z
      BY <1>6, <1>8
    <2> HIDE DEF y, z
    <2> QED
      BY <1>1, <1>3, <2>1, <2>2
  <1> QED
    BY <1>5, <1>7, <1>9 DEF w, x

-----------------------------------------------------------------------------
(* The pages. *)

Event == [kind : Kinds, agent : Agents, payer : Payers, at : Nat]

\* The chain, and the render in progress, which has not used up its time.
ChainTyped ==
    /\ time \in Nat /\ skew \in Int
    /\ log \in Seq(Event)
    /\ \/ load = Idle
       \/ load \in Nat /\ load <= time /\ time <= load + LoadLimit

\* An answer is from the time the page may speak of, or it failed.
Honest(answer) ==
    \/ answer = Failed
    \/ answer \in Nat /\ page.since - MaxAge <= answer /\ answer <= time

\* No launch of a is so early that the page must have seen it.
Unlaunched(a) ==
    \A e \in Ids : log[e].kind = "launch" /\ log[e].agent = a => ~Early(e)

HonestRow(a, answer) == Honest(answer) \/ (answer = Absent /\ Unlaunched(a))

Stamped == page.stamp \in Nat /\ page.stamp <= page.since + LoadLimit

PageTyped ==
    /\ page.kind \in {"none", "error", "agent", "notFound", "directory", "network"}
    /\ page.kind # "none" => page.since \in Nat /\ page.since <= time

AgentHonest ==
    page.kind = "agent" =>
        /\ Stamped
        /\ Honest(page.account) /\ Honest(page.tape) /\ Honest(page.orders)

NetworkHonest ==
    page.kind = "network" =>
        /\ Stamped
        /\ Honest(page.account) /\ Honest(page.launches)

NotFoundHonest ==
    page.kind = "notFound" =>
        /\ page.incomplete \/ ~Read(page.account)
        /\ HonestRow(Shown, page.account)

\* An agent that was launched early has a row, or the launches did not show it.
RowsHonest ==
    \A e \in Ids : log[e].kind = "launch" /\ Early(e) =>
        \/ log[e].agent \in DOMAIN page.row
        \/ page.launches = Failed \/ PushedOut(e, LaunchLimit)

DirectoryHonest ==
    page.kind = "directory" =>
        /\ Honest(page.launches) /\ Honest(page.recent)
        /\ Known \subseteq DOMAIN page.row
        /\ \A a \in DOMAIN page.row : HonestRow(a, page.row[a])
        /\ RowsHonest

PageInv ==
    /\ ChainTyped /\ PageTyped
    /\ AgentHonest /\ NetworkHonest /\ NotFoundHonest /\ DirectoryHonest

LEMMA PageConstants ==
    /\ MaxAge \in Nat /\ MaxAge > 0 /\ LoadLimit \in Nat /\ StaleAfter \in Nat
    /\ Limit \in Nat /\ OrderLimit \in Nat /\ LaunchLimit \in Nat /\ RecentLimit \in Nat
    /\ Shown \in Agents /\ Known \subseteq Agents
  BY PageAssumption

LEMMA EventTyped ==
    ASSUME ChainTyped, NEW e \in Ids
    PROVE  /\ e \in Nat /\ Len(log) \in Nat /\ e <= Len(log) /\ log[e] \in Event
           /\ log[e].at \in Nat /\ log[e].agent \in Agents /\ log[e].kind \in Kinds
  <1>1. Len(log) \in Nat /\ log[e] \in Event
    BY DEF ChainTyped, Ids
  <1> QED
    BY <1>1 DEF Ids, Event

LEMMA IdsFinite ==
    ASSUME ChainTyped, NEW S, S \subseteq Ids
    PROVE  IsFiniteSet(S) /\ Cardinality(S) \in Nat
  <1>1. Len(log) \in Nat
    BY DEF ChainTyped
  <1>2. IsFiniteSet(Ids)
    BY <1>1, FS_Interval DEF Ids
  <1> QED
    BY <1>2, FS_Subset, FS_CardinalityType

\* What was on chain when a query was answered is among the answer, unless
\* events of its kind pushed it out.
LEMMA ListedOrPushed ==
    ASSUME ChainTyped, NEW n \in Nat, NEW t \in Int, NEW e \in Ids, log[e].at <= t
    PROVE  e \in NewestOfKind(log[e].kind, n, t) \/ PushedOut(e, n)
  <1> DEFINE k == log[e].kind
             S == {f \in OfKind(k, t) : f > e}
             T == {f \in Ids : f > e /\ log[f].kind = log[e].kind}
  <1>1. S \subseteq T /\ T \subseteq Ids
    BY DEF OfKind
  <1>2. IsFiniteSet(T) /\ Cardinality(T) \in Nat
    BY <1>1, IdsFinite
  <1>3. Cardinality(S) \in Nat /\ Cardinality(S) <= Cardinality(T)
    BY <1>1, <1>2, FS_Subset, FS_CardinalityType
  <1>4. e \in OfKind(k, t)
    BY DEF OfKind
  <1>5. Cardinality(S) < n => e \in NewestOfKind(k, n, t)
    BY <1>4 DEF NewestOfKind
  <1>6. Cardinality(T) >= n => PushedOut(e, n)
    BY DEF PushedOut
  <1> HIDE DEF S, T, k
  <1> QED
    BY <1>2, <1>3, <1>5, <1>6 DEF k


-----------------------------------------------------------------------------
(* The invariant, action by action. *)

LEMMA PageInitInv == PageInit => PageInv
  BY PageAssumption
     DEF PageInit, PageInv, ChainTyped, PageTyped, AgentHonest, NetworkHonest,
         NotFoundHonest, DirectoryHonest, Idle, Nothing

\* A longer log, of which all that is new is young.
LEMMA EmitInv ==
    ASSUME PageInv, NEW kind \in Kinds, NEW a \in Agents, NEW payer \in Payers,
           Emit(kind, a, payer)
    PROVE  PageInv'
  <1> DEFINE new == [kind |-> kind, agent |-> a, payer |-> payer, at |-> time]
  <1>1. log' = Append(log, new) /\ UNCHANGED <<time, skew, view, load, page>>
    BY DEF Emit
  <1>2. time \in Nat /\ log \in Seq(Event) /\ Len(log) \in Nat
    BY DEF PageInv, ChainTyped
  <1>3. new \in Event /\ new.at = time
    BY <1>2 DEF Event
  <1> HIDE DEF new
  <1>4. /\ log' \in Seq(Event)
        /\ Len(log') = Len(log) + 1 /\ log'[Len(log) + 1] = new
        /\ \A e \in Ids : log'[e] = log[e]
    BY <1>1, <1>2, <1>3 DEF Ids
  <1>5. Ids' = Ids \cup {Len(log) + 1} /\ Ids \subseteq Ids'
    BY <1>2, <1>4 DEF Ids
  <1>6. ChainTyped'
    BY <1>1, <1>4 DEF PageInv, ChainTyped
  <1>7. PageTyped' /\ AgentHonest' /\ NetworkHonest'
    BY <1>1 DEF PageInv, PageTyped, AgentHonest, NetworkHonest, Honest, Stamped
  <1>8. ASSUME page.kind # "none", NEW e \in Ids', Early(e)'
        PROVE  e \in Ids /\ Early(e) /\ log'[e] = log[e]
    <2>1. page.since \in Nat /\ page.since <= time
      BY <1>8 DEF PageInv, PageTyped
    <2>2. e # Len(log) + 1
      <3>1. log'[e].at <= page.since - MaxAge
        BY <1>1, <1>8 DEF Early
      <3>2. time > page.since - MaxAge
        BY <1>2, <2>1, PageConstants
      <3>3. log'[Len(log) + 1].at = time
        BY <1>3, <1>4
      <3> QED
        BY <1>2, <2>1, <3>1, <3>2, <3>3, PageConstants
    <2> QED
      BY <1>1, <1>4, <1>5, <1>8, <2>2 DEF Early
  <1>9. ASSUME page.kind # "none", NEW b
        PROVE  Unlaunched(b) => Unlaunched(b)'
    BY <1>8, <1>9 DEF Unlaunched
  <1>10. ASSUME NEW e \in Ids, NEW n \in Nat, PushedOut(e, n)
         PROVE  PushedOut(e, n)'
    <2> DEFINE S == {f \in Ids : f > e /\ log[f].kind = log[e].kind}
               T == {f \in Ids' : f > e /\ log'[f].kind = log'[e].kind}
    <2>1. S \subseteq T
      BY <1>4, <1>5
    <2>2. T \subseteq Ids'
      OBVIOUS
    <2>3. IsFiniteSet(Ids')
      <3>1. Len(log') \in Nat
        BY <1>2, <1>4
      <3> QED
        BY <3>1, FS_Interval DEF Ids
    <2>4. IsFiniteSet(T)
      BY <2>2, <2>3, FS_Subset
    <2> HIDE DEF S, T
    <2>5. Cardinality(S) <= Cardinality(T) /\ Cardinality(S) \in Nat /\ Cardinality(T) \in Nat
      BY <2>1, <2>4, FS_Subset, FS_CardinalityType
    <2>6. Cardinality(S) >= n
      BY <1>10 DEF PushedOut, S
    <2> QED
      BY <2>5, <2>6 DEF PushedOut, T
  <1>11. NotFoundHonest'
    BY <1>1, <1>9 DEF PageInv, NotFoundHonest, HonestRow, Honest
  <1>12. page.kind = "directory" => RowsHonest'
    BY <1>1, <1>8, <1>10, PageConstants DEF PageInv, DirectoryHonest, RowsHonest
  <1>13. DirectoryHonest'
    BY <1>1, <1>9, <1>12 DEF PageInv, DirectoryHonest, HonestRow, Honest
  <1> QED
    BY <1>6, <1>7, <1>11, <1>13 DEF PageInv

\* Time passes, and a render is begun or is lost.
LEMMA QuietPageInv ==
    ASSUME PageInv, Begin \/ RefreshLost \/ PageTick
    PROVE  PageInv'
  <1>1. /\ log' = log /\ page' = page /\ view' = view /\ skew' = skew
        /\ time' = time \/ time' = time + 1
    BY DEF Begin, RefreshLost, PageTick
  <1>2. time \in Nat /\ time' \in Nat /\ time <= time'
    BY <1>1 DEF PageInv, ChainTyped
  <1>3. ChainTyped'
    BY <1>1, PageConstants
    DEF PageInv, ChainTyped, Begin, RefreshLost, PageTick, Idle
  <1>4. PageTyped'
    BY <1>1, <1>2 DEF PageInv, PageTyped
  <1>5. \A answer : Honest(answer) => Honest(answer)'
    BY <1>1, <1>2 DEF Honest
  <1>6. /\ Ids' = Ids /\ \A e : Early(e)' <=> Early(e)
        /\ \A e, n : PushedOut(e, n) => PushedOut(e, n)'
    BY <1>1 DEF Ids, Early, PushedOut
  <1>7. \A b : Unlaunched(b) => Unlaunched(b)'
    BY <1>1, <1>6 DEF Unlaunched
  <1>8. AgentHonest' /\ NetworkHonest' /\ NotFoundHonest'
    BY <1>1, <1>5, <1>7
    DEF PageInv, AgentHonest, NetworkHonest, NotFoundHonest, HonestRow, Stamped
  <1>9. page.kind = "directory" => RowsHonest'
    BY <1>1, <1>6 DEF PageInv, DirectoryHonest, RowsHonest
  <1>10. DirectoryHonest'
    BY <1>1, <1>5, <1>7, <1>9 DEF PageInv, DirectoryHonest, HonestRow
  <1> QED
    BY <1>3, <1>4, <1>8, <1>10 DEF PageInv

\* What a finished render may put on the screen.
Rendering(content) ==
    /\ load # Idle /\ Show(content)
    /\ content.since = load

LEMMA RenderedPage ==
    ASSUME PageInv, NEW content, Rendering(content)
    PROVE  /\ load \in Nat /\ load <= time /\ time <= load + LoadLimit /\ time \in Nat
           /\ page' = content /\ log' = log /\ time' = time /\ Ids' = Ids
           /\ ChainTyped'
           /\ \A answer \in Answers : Honest(answer)'
           /\ \A b, v : (\E t \in Answers : v = AccountRead(b, t)) => HonestRow(b, v)'
           /\ \A t \in AsOf : t \in Nat /\ t <= load + LoadLimit
           /\ \A e \in Ids : Early(e)' => log[e].at <= load - MaxAge
  <1>1. /\ load \in Nat /\ load <= time /\ time <= load + LoadLimit /\ time \in Nat
        /\ page' = content /\ content.since = load /\ log' = log /\ time' = time
    BY DEF PageInv, ChainTyped, Rendering, Show
  <1>2. Ids' = Ids /\ ChainTyped'
    BY <1>1 DEF PageInv, ChainTyped, Rendering, Show, Ids
  <1>3. \A t \in AsOf : t \in Nat /\ load - MaxAge <= t /\ t <= time /\ t <= load + LoadLimit
    BY <1>1, PageConstants DEF AsOf
  <1>4. \A answer \in Answers : Honest(answer)'
    BY <1>1, <1>3 DEF Answers, Honest
  <1>5. \A e \in Ids : Early(e)' <=> log[e].at <= load - MaxAge
    BY <1>1 DEF Early
  <1>6. ASSUME NEW b, NEW v, NEW t \in Answers, v = AccountRead(b, t)
        PROVE  HonestRow(b, v)'
    <2>1. CASE t \in AsOf /\ ~LaunchedBy(b, t)
      <3>1. v = Absent
        BY <1>6, <2>1 DEF AccountRead
      <3>2. ASSUME NEW e \in Ids, log[e].kind = "launch", log[e].agent = b
            PROVE  ~ Early(e)'
        <4>1. ~ (log[e].at <= t)
          BY <2>1, <3>2 DEF LaunchedBy, OfKind
        <4>2. log[e].at \in Nat
          BY EventTyped DEF PageInv
        <4> QED
          BY <1>1, <1>3, <1>5, <2>1, <4>1, <4>2, PageConstants
      <3>3. Unlaunched(b)'
        BY <1>1, <1>2, <3>2 DEF Unlaunched
      <3> QED
        BY <3>1, <3>3 DEF HonestRow, Absent
    <2>2. CASE ~(t \in AsOf /\ ~LaunchedBy(b, t))
      BY <1>4, <1>6, <2>2 DEF AccountRead, HonestRow
    <2> QED
      BY <2>1, <2>2
  <1> QED
    BY <1>1, <1>2, <1>3, <1>4, <1>5, <1>6

LEMMA ShowAgentInv ==
    ASSUME PageInv, ShowAgent
    PROVE  PageInv'
  <1>1. PICK row \in Answers, tape \in Answers, orders \in Answers, stamp \in AsOf,
             lost \in SUBSET Ids :
            Show([kind |-> "agent", since |-> load, stamp |-> stamp,
                  account |-> row, tape |-> tape, orders |-> orders, lost |-> lost])
    BY DEF ShowAgent, Of, NewestOfKind, OfKind
  <1> DEFINE content == [kind |-> "agent", since |-> load, stamp |-> stamp,
                  account |-> row, tape |-> tape, orders |-> orders, lost |-> lost]
  <1>2. /\ content.kind = "agent" /\ content.since = load /\ content.stamp = stamp
        /\ content.account = row /\ content.tape = tape /\ content.orders = orders
    OBVIOUS
  <1> HIDE DEF content
  <1>3. Rendering(content)
    BY <1>1, <1>2 DEF content, Rendering, ShowAgent
  <1>4. /\ page' = content /\ ChainTyped' /\ time' = time
        /\ load \in Nat /\ load <= time
        /\ Honest(row)' /\ Honest(tape)' /\ Honest(orders)'
        /\ stamp \in Nat /\ stamp <= load + LoadLimit
    BY <1>3, RenderedPage
  <1>5. PageTyped'
    BY <1>2, <1>4 DEF PageTyped
  <1>6. AgentHonest'
    BY <1>2, <1>4 DEF AgentHonest, Stamped, Honest
  <1> QED
    BY <1>2, <1>4, <1>5, <1>6 DEF PageInv, NetworkHonest, NotFoundHonest, DirectoryHonest

LEMMA ShowNetworkInv ==
    ASSUME PageInv, ShowNetwork
    PROVE  PageInv'
  <1>1. PICK row \in Answers, launches \in Answers, stamp \in AsOf :
            Show([kind |-> "network", since |-> load, stamp |-> stamp,
                  account |-> row, launches |-> launches])
    BY DEF ShowNetwork
  <1> DEFINE content == [kind |-> "network", since |-> load, stamp |-> stamp,
                         account |-> row, launches |-> launches]
  <1>2. /\ content.kind = "network" /\ content.since = load /\ content.stamp = stamp
        /\ content.account = row /\ content.launches = launches
    OBVIOUS
  <1> HIDE DEF content
  <1>3. Rendering(content)
    BY <1>1, <1>2 DEF content, Rendering, ShowNetwork
  <1>4. /\ page' = content /\ ChainTyped' /\ time' = time
        /\ load \in Nat /\ load <= time
        /\ Honest(row)' /\ Honest(launches)'
        /\ stamp \in Nat /\ stamp <= load + LoadLimit
    BY <1>3, RenderedPage
  <1>5. PageTyped'
    BY <1>2, <1>4 DEF PageTyped
  <1>6. NetworkHonest'
    BY <1>2, <1>4 DEF NetworkHonest, Stamped, Honest
  <1> QED
    BY <1>2, <1>4, <1>5, <1>6 DEF PageInv, AgentHonest, NotFoundHonest, DirectoryHonest

LEMMA ShowNotFoundInv ==
    ASSUME PageInv, ShowNotFound
    PROVE  PageInv'
  <1>1. PICK answer \in Answers, incomplete \in BOOLEAN :
            /\ incomplete \/ ~Read(AccountRead(Shown, answer))
            /\ Show([kind |-> "notFound", since |-> load, incomplete |-> incomplete,
                     account |-> AccountRead(Shown, answer)])
    BY DEF ShowNotFound
  <1>2. PICK row : row = AccountRead(Shown, answer)
    OBVIOUS
  <1> DEFINE content == [kind |-> "notFound", since |-> load, incomplete |-> incomplete,
                         account |-> row]
  <1>3. /\ content.kind = "notFound" /\ content.since = load
        /\ content.incomplete = incomplete /\ content.account = row
    OBVIOUS
  <1> HIDE DEF content
  <1>4. Rendering(content)
    BY <1>1, <1>2, <1>3 DEF content, Rendering, ShowNotFound
  <1>5. /\ page' = content /\ ChainTyped' /\ time' = time
        /\ load \in Nat /\ load <= time
        /\ HonestRow(Shown, row)'
    BY <1>2, <1>4, RenderedPage
  <1>6. PageTyped'
    BY <1>3, <1>5 DEF PageTyped
  <1>7. NotFoundHonest'
    <2>1. incomplete \/ ~Read(row)
      BY <1>1, <1>2
    <2> QED
      BY <1>3, <1>5, <2>1 DEF NotFoundHonest, HonestRow, Honest, Read
  <1> QED
    BY <1>3, <1>5, <1>6, <1>7 DEF PageInv, AgentHonest, NetworkHonest, DirectoryHonest

LEMMA ShowErrorInv ==
    ASSUME PageInv, ShowError
    PROVE  PageInv'
  <1> DEFINE content == [kind |-> "error", since |-> load]
  <1>1. content.kind = "error" /\ content.since = load
    OBVIOUS
  <1> HIDE DEF content
  <1>2. Rendering(content)
    BY <1>1 DEF content, Rendering, ShowError
  <1>3. page' = content /\ ChainTyped' /\ time' = time /\ load \in Nat /\ load <= time
    BY <1>2, RenderedPage
  <1>4. PageTyped'
    BY <1>1, <1>3 DEF PageTyped
  <1> QED
    BY <1>1, <1>3, <1>4
    DEF PageInv, AgentHonest, NetworkHonest, NotFoundHonest, DirectoryHonest

\* Every agent the launches show, and every known one, has a row.
LEMMA ShowDirectoryInv ==
    ASSUME PageInv, ShowDirectory
    PROVE  PageInv'
  <1>0. PICK launches \in Answers, recent \in Answers :
            \E answers \in [Found(launches) -> Answers] :
               Show([kind |-> "directory", since |-> load, launches |-> launches,
                     row |-> [a \in Found(launches) |-> AccountRead(a, answers[a])],
                     recent |-> recent])
    BY DEF ShowDirectory
  <1>1. PICK answers \in [Found(launches) -> Answers] :
            Show([kind |-> "directory", since |-> load, launches |-> launches,
                  row |-> [a \in Found(launches) |-> AccountRead(a, answers[a])],
                  recent |-> recent])
    BY <1>0
  <1>2. PICK row, found : /\ found = Found(launches)
                          /\ row = [a \in found |-> AccountRead(a, answers[a])]
    OBVIOUS
  <1> DEFINE content == [kind |-> "directory", since |-> load, launches |-> launches,
                         row |-> row, recent |-> recent]
  <1>3. /\ content.kind = "directory" /\ content.since = load
        /\ content.launches = launches /\ content.row = row /\ content.recent = recent
    OBVIOUS
  <1> HIDE DEF content
  <1>4. Rendering(content)
    BY <1>1, <1>2, <1>3 DEF content, Rendering, ShowDirectory
  <1>5. /\ page' = content /\ ChainTyped' /\ time' = time /\ log' = log /\ Ids' = Ids
        /\ load \in Nat /\ load <= time
        /\ Honest(launches)' /\ Honest(recent)'
        /\ \A b, v : (\E t \in Answers : v = AccountRead(b, t)) => HonestRow(b, v)'
        /\ \A e \in Ids : Early(e)' => log[e].at <= load - MaxAge
    BY <1>4, RenderedPage
  <1>6. PageTyped'
    BY <1>3, <1>5 DEF PageTyped
  <1>7. DOMAIN row = found /\ \A a \in found : HonestRow(a, row[a])'
    <2>1. ASSUME NEW a \in found, NEW v, v = row[a]
          PROVE  HonestRow(a, v)'
      <3>1. v = AccountRead(a, answers[a]) /\ answers[a] \in Answers
        BY <1>2, <2>1
      <3> QED
        BY <1>5, <3>1
    <2> QED
      BY <1>2, <2>1
  <1>8. Known \subseteq found
    BY <1>2 DEF Found
  <1>9. ASSUME NEW e \in Ids, log[e].kind = "launch", Early(e)', launches # Failed
        PROVE  log[e].agent \in found \/ PushedOut(e, LaunchLimit)
    <2>1. launches \in AsOf
      BY <1>9 DEF Answers
    <2>2. launches \in Int /\ load - MaxAge <= launches
      BY <2>1, <1>5, PageConstants DEF AsOf
    <2>3. log[e].at \in Nat /\ log[e].agent \in Agents /\ ChainTyped
      BY EventTyped DEF PageInv
    <2>4. log[e].at <= launches
      BY <1>5, <1>9, <2>2, <2>3, PageConstants
    <2>5. e \in NewestOfKind("launch", LaunchLimit, launches) \/ PushedOut(e, LaunchLimit)
      BY <1>9, <2>2, <2>3, <2>4, ListedOrPushed, PageConstants
    <2> QED
      BY <1>2, <2>3, <2>5 DEF Found, Of
  <1>10. RowsHonest'
    BY <1>3, <1>5, <1>7, <1>9 DEF RowsHonest, PushedOut
  <1>11. DirectoryHonest'
    BY <1>3, <1>5, <1>7, <1>8, <1>10 DEF DirectoryHonest
  <1> QED
    BY <1>3, <1>5, <1>6, <1>11 DEF PageInv, AgentHonest, NetworkHonest, NotFoundHonest

LEMMA PageStepInv == PageInv /\ [PageNext]_pageVars => PageInv'
  <1> SUFFICES ASSUME PageInv, [PageNext]_pageVars
               PROVE  PageInv'
    OBVIOUS
  <1>1. CASE \E kind \in Kinds, a \in Agents, payer \in Payers : Emit(kind, a, payer)
    BY <1>1, EmitInv
  <1>2. CASE Begin \/ RefreshLost \/ PageTick
    BY <1>2, QuietPageInv
  <1>3. CASE ShowAgent \/ ShowNotFound \/ ShowDirectory \/ ShowNetwork \/ ShowError
    BY <1>3, ShowAgentInv, ShowNotFoundInv, ShowDirectoryInv, ShowNetworkInv, ShowErrorInv
  <1>4. CASE UNCHANGED pageVars
    BY <1>4 DEF pageVars, PageInv, ChainTyped, PageTyped, AgentHonest, NetworkHonest,
                NotFoundHonest, DirectoryHonest, Honest, HonestRow, Unlaunched, Stamped,
                RowsHonest, Early, PushedOut, Ids, Read
  <1> QED
    BY <1>1, <1>2, <1>3, <1>4 DEF PageNext

-----------------------------------------------------------------------------
(* What the invariant says of the listings. *)

\* Events of the time before every read are in an answer, or were pushed out.
LEMMA EarlyListed ==
    ASSUME PageInv, page.kind # "none", NEW n \in Nat, NEW e \in Ids, Early(e),
           NEW answer, Honest(answer), answer # Failed
    PROVE  /\ e \in NewestOfKind(log[e].kind, n, answer) \/ PushedOut(e, n)
           /\ e \in FoundAsOf(log[e].kind, n, answer) \/ PushedOut(e, n)
  <1>1. /\ page.since \in Nat /\ answer \in Nat /\ page.since - MaxAge <= answer
        /\ log[e].at \in Nat /\ ChainTyped
    BY EventTyped DEF PageInv, PageTyped, Honest
  <1>2. log[e].at <= answer
    BY <1>1, PageConstants DEF Early
  <1>3. e \in NewestOfKind(log[e].kind, n, answer) \/ PushedOut(e, n)
    BY <1>1, <1>2, ListedOrPushed
  <1> QED
    BY <1>1, <1>3 DEF FoundAsOf, Read

LEMMA AgentListings ==
    ASSUME PageInv, page.kind = "agent", NEW e \in Of(Shown, Ids), Early(e)
    PROVE  /\ log[e].kind \in {"trade", "service"} =>
                    e \in Tape \/ page.tape = Failed \/ PushedOut(e, Limit)
           /\ log[e].kind = "order" =>
                    \/ e \in OrdersListed \cup page.lost
                    \/ page.orders = Failed \/ PushedOut(e, OrderLimit)
  <1>1. /\ e \in Ids /\ log[e].agent = Shown
        /\ Honest(page.tape) /\ Honest(page.orders)
    BY DEF Of, PageInv, AgentHonest
  <1>2. ASSUME log[e].kind \in {"trade", "service"}, page.tape # Failed, ~PushedOut(e, Limit)
        PROVE  e \in Tape
    <2>1. e \in NewestOfKind(log[e].kind, Limit, page.tape)
      BY <1>1, <1>2, EarlyListed, PageConstants
    <2>2. Read(page.tape)
      BY <1>1, <1>2 DEF Honest, Read
    <2> QED
      BY <1>1, <1>2, <2>1, <2>2 DEF Tape, Of
  <1>3. ASSUME log[e].kind = "order", page.orders # Failed, ~PushedOut(e, OrderLimit)
        PROVE  e \in OrdersListed \cup page.lost
    BY <1>1, <1>3, EarlyListed, PageConstants DEF OrdersListed, Of
  <1> QED
    BY <1>2, <1>3

LEMMA DirectoryListings ==
    ASSUME PageInv, page.kind = "directory"
    PROVE  /\ \A e \in OfKind("launch", time) : Early(e) =>
                LET a == log[e].agent
                IN  \/ a \in Rows
                    \/ a \in DOMAIN page.row /\ page.row[a] = Failed
                    \/ /\ a \notin Known
                       /\ page.launches = Failed \/ PushedOut(e, LaunchLimit)
           /\ \A e \in OfKind("order", time) : Early(e) =>
                \/ e \in RecentHires
                \/ page.recent = Failed \/ PushedOut(e, RecentLimit)
           /\ \A a, b \in Rows : Outranks(a, b) => Above(a, b)
  <1>1. /\ Honest(page.launches) /\ Honest(page.recent)
        /\ Known \subseteq DOMAIN page.row
        /\ \A a \in DOMAIN page.row : HonestRow(a, page.row[a])
        /\ RowsHonest
    BY DEF PageInv, DirectoryHonest
  <1>2. ASSUME NEW a \in DOMAIN page.row
        PROVE  \/ Honest(page.row[a]) /\ (a \in Rows \/ page.row[a] = Failed)
               \/ a \notin Rows /\ Unlaunched(a)
    BY <1>1 DEF HonestRow, Honest, Rows, Read, Absent, Failed
  <1>3. ASSUME NEW e \in OfKind("launch", time), Early(e)
        PROVE  \/ log[e].agent \in Rows
               \/ log[e].agent \in DOMAIN page.row /\ page.row[log[e].agent] = Failed
               \/ /\ log[e].agent \notin Known
                  /\ page.launches = Failed \/ PushedOut(e, LaunchLimit)
    <2>1. e \in Ids /\ log[e].kind = "launch"
      BY DEF OfKind
    <2>2. CASE log[e].agent \in DOMAIN page.row
      BY <1>2, <1>3, <2>1, <2>2 DEF Unlaunched
    <2>3. CASE log[e].agent \notin DOMAIN page.row
      BY <1>1, <1>3, <2>1, <2>3 DEF RowsHonest
    <2> QED
      BY <2>2, <2>3
  <1>4. ASSUME NEW e \in OfKind("order", time), Early(e)
        PROVE  \/ e \in RecentHires
               \/ page.recent = Failed \/ PushedOut(e, RecentLimit)
    <2>1. e \in Ids /\ log[e].kind = "order"
      BY DEF OfKind
    <2> QED
      BY <1>1, <1>4, <2>1, EarlyListed, PageConstants DEF RecentHires
  <1>5. ASSUME NEW a \in Rows, NEW b \in Rows, Outranks(a, b)
        PROVE  Above(a, b)
    <2>1. /\ page.row[a] \in page.since - MaxAge .. time /\ page.row[a] >= 0
          /\ page.row[b] \in page.since - MaxAge .. time /\ page.row[b] >= 0
      <3>1. ASSUME NEW c \in Rows
            PROVE  page.row[c] \in page.since - MaxAge .. time /\ page.row[c] >= 0
        <4>1. c \in DOMAIN page.row /\ Read(page.row[c])
          BY DEF Rows
        <4>2. Honest(page.row[c]) /\ page.row[c] # Failed
          BY <1>1, <4>1 DEF HonestRow, Read, Absent, Failed
        <4>3. page.since \in Nat /\ time \in Nat
          BY DEF PageInv, PageTyped, ChainTyped
        <4> QED
          BY <4>2, <4>3, PageConstants DEF Honest
      <3> QED
        BY <3>1
    <2> QED
      BY <1>5, <2>1 DEF Outranks, Above
  <1> QED
    BY <1>3, <1>4, <1>5

LEMMA ListingsHold == PageInv => ListingsExplained
  <1> SUFFICES ASSUME PageInv
               PROVE  ListingsExplained
    OBVIOUS
  <1>1. page.kind = "notFound" /\ page.account # Failed /\ ~page.incomplete =>
            \A e \in Of(Shown, OfKind("launch", time)) : ~Early(e)
    BY DEF PageInv, NotFoundHonest, HonestRow, Honest, Read, Unlaunched, Of, OfKind
  <1>2. page.kind = "network" =>
            \A e \in OfKind("launch", time) : Early(e) =>
                \/ e \in FoundAsOf("launch", LaunchLimit, page.launches)
                \/ page.launches = Failed \/ PushedOut(e, LaunchLimit)
    BY EarlyListed, PageConstants DEF PageInv, NetworkHonest, OfKind
  <1> QED
    BY <1>1, <1>2, AgentListings, DirectoryListings DEF ListingsExplained

LEMMA RecentHolds == PageInv => LiveMeansRecent
  <1> SUFFICES ASSUME PageInv, page.kind \in {"agent", "network"}, Live,
                      NEW answer \in {page.account} \cup
                       (IF page.kind = "agent" THEN {page.tape} ELSE {page.launches}),
                      Read(answer)
               PROVE  time - answer <= StaleAfter + LoadLimit + MaxAge - skew
    BY DEF LiveMeansRecent
  <1>1. /\ time \in Nat /\ skew \in Int /\ page.since \in Nat
        /\ page.stamp \in Nat /\ page.stamp <= page.since + LoadLimit
        /\ time + skew - page.stamp <= StaleAfter
    BY DEF PageInv, PageTyped, ChainTyped, AgentHonest, NetworkHonest, Stamped, Live
  <1>2. answer \in Nat /\ page.since - MaxAge <= answer
    BY DEF PageInv, AgentHonest, NetworkHonest, Honest, Read, Failed
  <1> QED
    BY <1>1, <1>2, PageConstants

LEMMA PageInvariant == Spec => []PageInv
  <1>1. Init => PageInv
    BY PageInitInv DEF Init
  <1>2. PageInv /\ [Next]_dashboardVars => PageInv'
    <2>1. [Next]_dashboardVars => [PageNext]_pageVars
      BY DEF Next, CacheRuns, PageRuns, FormRuns, dashboardVars
    <2> QED
      BY <2>1, PageStepInv
  <1> QED
    BY <1>1, <1>2, PTL DEF Spec

\* ListingsExplained: nothing of an agent is missing from its page, the directory
\* or the network page but for a failed read, newer events or the age of an answer,
\* and the directory ranks no agent below one it outranked all the while; for any
\* agents, any number of events and any limits.
THEOREM ListingsAlwaysExplained == Spec => []ListingsExplained
  BY PageInvariant, ListingsHold, PTL

\* LiveMeansRecent: a page that calls itself live is no older than its stamp may
\* be, one render, one lifetime of the cache and what the browser's clock is behind,
\* for any such limits and clocks.
THEOREM LiveIsRecent == Spec => []LiveMeansRecent
  BY PageInvariant, RecentHolds, PTL

-----------------------------------------------------------------------------
(* The caution about who paid. *)

\* The values a function has on a finite set are finitely many.
LEMMA ImageFinite ==
    ASSUME NEW S, IsFiniteSet(S), NEW f, DOMAIN f = S
    PROVE  IsFiniteSet({f[x] : x \in S})
  <1> DEFINE T == {f[x] : x \in S}
             g == [x \in S |-> f[x]]
  <1>1. g \in Surjection(S, T)
    BY DEF Surjection
  <1> HIDE DEF T, g
  <1>2. IsFiniteSet(T)
    BY <1>1, FS_Surjection
  <1> QED
    BY <1>2 DEF T

\* Payments add up to something as soon as there is one.
LEMMA CountedPositive ==
    ASSUME NEW D, IsFiniteSet(D), \A p \in D : p.amount \in Nat /\ p.amount > 0
    PROVE  CountedTotal(D) > 0 <=> D # {}
  <1> DEFINE f == [p \in D |-> p.amount]
             Adder(it) == it = [s \in SUBSET D |->
                                  IF s = {} THEN 0
                                  ELSE (CHOOSE x \in s : TRUE).amount
                                         + it[s \ {CHOOSE x \in s : TRUE}]]
             it == CHOOSE jt : Adder(jt)
  <1>1. Adder(it)
    <2>1. f \in [D -> Int]
      OBVIOUS
    <2>2. PICK jt \in [SUBSET D -> Int] : Adds(jt, f, SUBSET D)
      <3> HIDE DEF f
      <3> QED
        BY <2>1, AdderExists
    <2>3. Adder(jt)
      <3>1. ASSUME NEW s \in SUBSET D, s # {}
            PROVE  f[First(s)] = First(s).amount
        BY <3>1, FirstIn
      <3> HIDE DEF f
      <3> QED
        BY <2>2, <3>1 DEF Adds, First
    <2> QED
      BY <2>3
  <1>2. CountedTotal(D) = it[D]
    BY DEF CountedTotal, MapThenSumSet, MapThenFoldSet
  <1> HIDE DEF it
  <1>3. \A s \in SUBSET D : it[s] = IF s = {} THEN 0
                                     ELSE First(s).amount + it[s \ {First(s)}]
    BY <1>1 DEF First
  <1> HIDE DEF Adder
  <1> DEFINE G == {s \in SUBSET D : it[s] \in Nat /\ (it[s] > 0 <=> s # {})}
  <1>4. {} \in G
    <2>1. it[{}] = 0
      BY <1>3
    <2> QED
      BY <2>1
  <1>5. ASSUME NEW s \in SUBSET D, s # {}, s \ {First(s)} \in G
        PROVE  s \in G
    <2>1. First(s) \in s
      BY <1>5, FirstIn
    <2>2. it[s] = First(s).amount + it[s \ {First(s)}]
      BY <1>3, <1>5
    <2>3. First(s).amount \in Nat /\ First(s).amount > 0 /\ it[s \ {First(s)}] \in Nat
      BY <1>5, <2>1
    <2> QED
      BY <1>5, <2>2, <2>3
  <1>6. D \in G
    <2> HIDE DEF G
    <2> QED
      BY <1>4, <1>5, SubsetInduction
  <1> QED
    BY <1>2, <1>6

LEMMA CautionHolds == PageInv => CautionExplained
  <1> SUFFICES ASSUME PageInv, page.kind = "agent"
               PROVE  CautionExplained
    BY DEF CautionExplained
  <1> DEFINE before == Revenue(Shown, page.since - MaxAge)
             ever == Revenue(Shown, time)
             Payer(events) == {log[e].payer : e \in events}
             counted == {e \in Tape : Counted(e)}
  <1>1. ChainTyped /\ page.since \in Nat /\ page.since <= time /\ time \in Nat
    BY DEF PageInv, PageTyped, ChainTyped
  <1>2. counted \subseteq ever
    <2>1. SUFFICES ASSUME NEW e \in Tape, Counted(e)
                   PROVE  e \in ever
      OBVIOUS
    <2>2. /\ page.tape \in Nat /\ page.tape <= time
          /\ e \in Ids /\ log[e].agent = Shown /\ log[e].at <= page.tape
      BY <2>1 DEF Tape, Of, NewestOfKind, OfKind, PageInv, AgentHonest, Honest, Read, Failed
    <2>3. log[e].at \in Nat
      BY <1>1, <2>2, EventTyped
    <2> QED
      BY <1>1, <2>1, <2>2, <2>3 DEF Revenue, Of, OfKind, Counted
  <1>3. before \subseteq Tape => before \subseteq counted
    BY DEF Revenue
  <1>4. ever \subseteq Ids
    BY DEF Revenue, Of, OfKind
  <1>5. CountedOnTape = {Payment(e) : e \in counted}
    BY DEF CountedOnTape
  <1>6. PayersOf(CountedOnTape) = Payer(counted)
    <2>1. \A e : Payment(e).payer = log[e].payer
      BY DEF Payment
    <2> QED
      BY <1>5, <2>1 DEF PayersOf
  <1> HIDE DEF before, ever, counted
  <1>7. ASSUME NEW S, S \subseteq Ids
        PROVE  IsFiniteSet(Payer(S)) /\ Cardinality(Payer(S)) \in Nat
    <2>1. IsFiniteSet(S)
      BY <1>1, <1>7, IdsFinite
    <2> DEFINE f == [e \in S |-> log[e].payer]
    <2>2. IsFiniteSet(Payer(S))
      <3>1. DOMAIN f = S /\ \A e \in S : f[e] = log[e].payer
        OBVIOUS
      <3> HIDE DEF f
      <3>2. {f[x] : x \in S} = Payer(S)
        BY <3>1
      <3> QED
        BY <2>1, <3>1, <3>2, ImageFinite
    <2> QED
      BY <2>2, FS_CardinalityType
  <1>8. ASSUME NEW S, NEW T, S \subseteq T, T \subseteq Ids
        PROVE  Cardinality(Payer(S)) <= Cardinality(Payer(T))
    <2>1. Payer(S) \subseteq Payer(T)
      BY <1>8
    <2>2. IsFiniteSet(Payer(T))
      BY <1>7, <1>8
    <2> HIDE DEF Payer
    <2> QED
      BY <2>1, <2>2, FS_Subset
  <1>9. CountedTotal(CountedOnTape) > 0 <=> counted # {}
    <2>1. IsFiniteSet(counted)
      BY <1>1, <1>2, <1>4, IdsFinite
    <2> DEFINE f == [e \in counted |-> Payment(e)]
    <2>2. IsFiniteSet(CountedOnTape)
      <3>1. DOMAIN f = counted /\ \A e \in counted : f[e] = Payment(e)
        OBVIOUS
      <3> HIDE DEF f
      <3>2. {f[x] : x \in counted} = CountedOnTape
        BY <1>5, <3>1
      <3> QED
        BY <2>1, <3>1, <3>2, ImageFinite
    <2>3. \A p \in CountedOnTape : p.amount \in Nat /\ p.amount > 0
      BY <1>5 DEF Payment
    <2> QED
      BY <1>5, <2>2, <2>3, CountedPositive
  <1>10. Cardinality(Payer({})) = 0
    BY FS_EmptySet
  <1>11. ASSUME SingleSource(CountedOnTape), before \subseteq Tape
         PROVE  Cardinality(Payer(before)) <= 1 /\ ever # {}
    <2>1. Cardinality(Payer(counted)) <= 1 /\ counted # {}
      BY <1>6, <1>9, <1>11 DEF SingleSource
    <2>2. /\ Cardinality(Payer(before)) <= Cardinality(Payer(counted))
          /\ Cardinality(Payer(before)) \in Nat /\ Cardinality(Payer(counted)) \in Nat
      BY <1>2, <1>3, <1>4, <1>7, <1>8, <1>11
    <2> QED
      BY <1>2, <2>1, <2>2
  <1>12. ASSUME ~SingleSource(CountedOnTape), before \subseteq Tape
         PROVE  Cardinality(Payer(before)) # 1 \/ Cardinality(Payer(ever)) > 1
    <2>1. CASE counted = {}
      <3>1. before = {}
        BY <1>3, <1>12, <2>1
      <3> QED
        BY <1>10, <3>1
    <2>2. CASE counted # {}
      <3>1. ~ (Cardinality(Payer(counted)) <= 1)
        BY <1>6, <1>9, <1>12, <2>2 DEF SingleSource
      <3>2. /\ Cardinality(Payer(counted)) <= Cardinality(Payer(ever))
            /\ Cardinality(Payer(ever)) \in Nat /\ Cardinality(Payer(counted)) \in Nat
        BY <1>2, <1>4, <1>7, <1>8
      <3> QED
        BY <3>1, <3>2
    <2> QED
      BY <2>1, <2>2
  <1> QED
    BY <1>11, <1>12 DEF CautionExplained, before, ever

\* CautionExplained: the caution "from a single payer" is on the page exactly when
\* the counted revenue has one payer, but for payments the tape misses or that are
\* younger than it; for any payers and any length of the tape.
THEOREM CautionAlwaysExplained == Spec => []CautionExplained
  BY PageInvariant, CautionHolds, PTL

-----------------------------------------------------------------------------
(* The trade form. *)

Pool == [realSui : Nat, realToken : Nat, fee : 0 .. BpsDenominator]

Attempt == [pc : {"listing", "signing"}, sender : Addr, side : {"buy", "sell"},
            amount : Nat \ {0}, slippage : Slippages, props : Pool, listed : Nat]

\* Who holds the tokens that circulate.
TokensHeld == tokens \in [Addr -> Nat] /\ Total(tokens) = circulating

FormTyped ==
    /\ props \in Pool
    /\ wallet \in Addr \cup {None}
    /\ balances \in [owner : Addr \cup {None}, sui : Nat, tokens : Nat]
    /\ polls \subseteq [owner : Addr, cancelled : BOOLEAN]
    /\ \A c \in Clicks : attempts[c] = NoAttempt \/ attempts[c] \in Attempt
    /\ DOMAIN attempts = Clicks

\* A poll that still counts is one of the wallet that is connected.
PollsOwned == \A p \in polls : p.cancelled \/ p.owner = wallet

FormInv == IInv /\ TokensHeld /\ FormTyped /\ PollsOwned

LEMMA FormConstants ==
    /\ BpsDenominator \in Nat \ {0} /\ GasReserve \in Nat /\ Subunits \in Nat \ {0}
    /\ TypedAmounts \subseteq Nat /\ Slippages \subseteq 0 .. BpsDenominator
    /\ VirtualSui \in Nat \ {0} /\ VirtualToken \in Nat \ {0} /\ SaleSupply \in Nat \ {0}
    /\ None \notin Addr /\ IsFiniteSet(Addr) /\ Publisher \in Addr
  BY FormAssumption, BpsAssumption, LaunchpadAssumption, ConfigAssumption

\* What the state of the launchpad is, as the form sees it.
LEMMA PoolFacts ==
    ASSUME IInv
    PROVE  /\ account \in Account /\ config \in Config
           /\ sui \in [Addr -> Nat] /\ circulating \in Nat
           /\ account.realSui \in Nat /\ account.realToken \in Nat
           /\ config.tradeFee \in 0 .. BpsDenominator /\ config.admin \in Addr
           /\ published \in Nat /\ published >= 1
           /\ Rendered \in Pool
  <1>1. /\ account \in Account /\ config \in Config
        /\ sui \in [Addr -> Nat] /\ circulating \in Nat
        /\ published \in 1 .. MaxVersion
    BY DEF IInv, LaunchpadTypeOK, ConfigTypeOK
  <1>2. config.tradeFee \in 0 .. BpsDenominator
    BY ConfigFacts DEF IInv
  <1>3. account.realSui \in Nat /\ account.realToken \in Nat /\ config.admin \in Addr
    BY <1>1 DEF Account, Config
  <1>4. published \in Nat /\ published >= 1
    BY <1>1, ConfigAssumption
  <1> QED
    BY <1>1, <1>2, <1>3, <1>4 DEF Rendered, Pool

\* No holder has more tokens than circulate.
LEMMA HeldCirculates ==
    ASSUME TokensHeld, NEW a \in Addr
    PROVE  tokens[a] \in Nat /\ tokens[a] <= circulating
  BY TotalCovers, FormConstants DEF TokensHeld

LEMMA FormInitInv == Init => FormInv
  <1> SUFFICES ASSUME Init
               PROVE  FormInv
    OBVIOUS
  <1> USE DEF Init, FormInit
  <1>1. config \in Config /\ ConfigTypeOK /\ SharesSafe /\ published = 1
    BY ConfigAssumption DEF ConfigInit, Config, ConfigTypeOK, SharesSafe
  <1>2. /\ account.version = 1 /\ account \in Account
        /\ account.realSui = 0 /\ account.realToken = SaleSupply
        /\ account.navToken = 0 /\ account.totalSupply = SaleSupply + LpSupply
    <2>1. 1 \in 1 .. MaxVersion
      BY ConfigAssumption
    <2> QED
      BY <1>1, <2>1, FreshFacts, FormConstants
  <1>3. IInv
    <2>1. LaunchpadTypeOK
      BY <1>1, <1>2, LaunchpadAssumption DEF LaunchpadTypeOK
    <2>2. PoolInv
      BY <1>2, LaunchpadAssumption DEF PoolInv
    <2>3. TokensConserved /\ PreLaunch
      BY <1>2, LaunchpadAssumption DEF TokensConserved, PreLaunch, Launched
    <2> QED
      BY <1>1, <2>1, <2>2, <2>3 DEF IInv
  <1>4. TokensHeld
    <2>1. tokens = [a \in Addr |-> 0] /\ circulating = 0
      OBVIOUS
    <2> QED
      BY <2>1, TotalZero, FormConstants DEF TokensHeld
  <1>5. FormTyped
    <2>1. props \in Pool
      BY <1>3, PoolFacts
    <2>2. balances \in [owner : Addr \cup {None}, sui : Nat, tokens : Nat]
      BY DEF NoBalance
    <2> QED
      BY <2>1, <2>2 DEF FormTyped
  <1>6. PollsOwned
    BY DEF PollsOwned
  <1> QED
    BY <1>3, <1>4, <1>5, <1>6 DEF FormInv

\* Steps that leave the chain alone.
LEMMA OffChain ==
    ASSUME FormInv, UNCHANGED <<launchpadVars, tokens>>
    PROVE  IInv' /\ TokensHeld'
  <1>1. [LaunchpadNext]_launchpadVars
    OBVIOUS
  <1>2. IInv'
    BY <1>1, NextInv DEF FormInv
  <1> QED
    BY <1>2 DEF FormInv, TokensHeld, launchpadVars

\* The browser's own steps.
LEMMA BrowserInv ==
    ASSUME FormInv,
           \/ Render \/ StartPoll
           \/ \E a \in Addr \cup {None} : SwitchWallet(a)
           \/ \E p \in polls : PollAnswers(p) \/ PollFails(p)
    PROVE  FormInv' /\ (balances' # balances => balances'.owner = wallet')
  <1>1. IInv' /\ TokensHeld' /\ attempts' = attempts
    BY OffChain DEF Render, StartPoll, SwitchWallet, PollAnswers, PollFails
  <1>2. IInv /\ TokensHeld /\ FormTyped /\ PollsOwned /\ Rendered \in Pool
    BY PoolFacts DEF FormInv
  <1>3. CASE Render
    <2>1. PICK pool \in PoolsRead, fee \in FeesRead : props' = [pool EXCEPT !.fee = fee]
      BY <1>3 DEF Render
    <2>2. pool \in Pool /\ fee \in 0 .. BpsDenominator
      BY <1>2, PoolFacts DEF PoolsRead, FeesRead, FormTyped, Pool
    <2>3. props' \in Pool
      BY <2>1, <2>2 DEF Pool
    <2>4. UNCHANGED <<wallet, balances, polls>>
      BY <1>3 DEF Render
    <2> QED
      BY <1>1, <1>2, <2>3, <2>4 DEF FormInv, FormTyped, PollsOwned
  <1>4. CASE StartPoll
    <2>1. /\ wallet \in Addr /\ UNCHANGED <<props, wallet, balances>>
          /\ polls' = polls \cup {[owner |-> wallet, cancelled |-> FALSE]}
      BY <1>2, <1>4 DEF StartPoll, FormTyped
    <2> DEFINE poll == [owner |-> wallet, cancelled |-> FALSE]
    <2>0. poll \in [owner : Addr, cancelled : BOOLEAN] /\ poll.owner = wallet
      BY <2>1
    <2> HIDE DEF poll
    <2>2. /\ polls' \subseteq [owner : Addr, cancelled : BOOLEAN]
          /\ \A p \in polls' : p.cancelled \/ p.owner = wallet
      BY <1>2, <2>0, <2>1 DEF FormTyped, PollsOwned, poll
    <2>3. FormTyped' /\ PollsOwned'
      BY <1>1, <1>2, <2>1, <2>2 DEF FormTyped, PollsOwned
    <2> QED
      BY <1>1, <2>1, <2>3 DEF FormInv
  <1>5. ASSUME NEW a \in Addr \cup {None}, SwitchWallet(a)
        PROVE  FormInv' /\ (balances' # balances => balances'.owner = wallet')
    <2>1. /\ wallet' = a /\ props' = props
          /\ polls' = {[p EXCEPT !.cancelled = TRUE] : p \in polls}
          /\ balances' = balances \/ (balances' = NoBalance /\ a = None)
      BY <1>5 DEF SwitchWallet
    <2>2. \A p \in polls' : p \in [owner : Addr, cancelled : BOOLEAN] /\ p.cancelled
      BY <1>2, <2>1 DEF FormTyped
    <2>3. /\ NoBalance \in [owner : Addr \cup {None}, sui : Nat, tokens : Nat]
          /\ NoBalance.owner = None
      BY DEF NoBalance
    <2> HIDE DEF NoBalance
    <2>4. FormTyped'
      BY <1>1, <1>2, <2>1, <2>2, <2>3 DEF FormTyped
    <2> QED
      BY <1>1, <2>1, <2>2, <2>3, <2>4 DEF FormInv, PollsOwned
  <1>6. ASSUME NEW p \in polls, PollAnswers(p) \/ PollFails(p)
        PROVE  FormInv' /\ (balances' # balances => balances'.owner = wallet')
    <2>1. /\ polls' = polls \ {p} /\ UNCHANGED <<props, wallet>>
          /\ balances' = balances \/ (balances' = Balances(p.owner) /\ ~p.cancelled)
      BY <1>6 DEF PollAnswers, PollFails
    <2>2. p.owner \in Addr /\ (~p.cancelled => p.owner = wallet)
      BY <1>2 DEF FormTyped, PollsOwned
    <2>3. /\ Balances(p.owner) \in [owner : Addr \cup {None}, sui : Nat, tokens : Nat]
          /\ Balances(p.owner).owner = p.owner
      BY <1>2, <2>2, PoolFacts, HeldCirculates DEF Balances
    <2>4. FormTyped'
      BY <1>1, <1>2, <2>1, <2>3 DEF FormTyped
    <2>5. PollsOwned'
      BY <1>2, <2>1 DEF PollsOwned
    <2> QED
      BY <1>1, <2>1, <2>2, <2>3, <2>4, <2>5 DEF FormInv
  <1> QED
    BY <1>3, <1>4, <1>5, <1>6


\* The mirror computes what the contract does.
LEMMA EstimateTyped ==
    ASSUME NEW p \in Pool, NEW n \in Nat \ {0}, NEW side \in {"buy", "sell"}
    PROVE  /\ Estimate(p, side, n) \in Nat
           /\ side = "buy" => Estimate(p, side, n)
                 = ComputeBuy(p.realSui, p.realToken, VirtualSui, VirtualToken, n, p.fee).out
           /\ side = "sell" => Estimate(p, side, n)
                 = ComputeSell(p.realSui, p.realToken, VirtualSui, VirtualToken, n, p.fee).out
  <1>1. /\ p.realSui \in Nat /\ p.realToken \in Nat /\ p.fee \in 0 .. BpsDenominator
        /\ n # 0
    BY DEF Pool
  <1>2. CASE side = "buy"
    <2> DEFINE S == p.realSui + VirtualSui
               T == p.realToken + VirtualToken
               fee == FeeOn(n, p.fee)
               q == ComputeBuy(p.realSui, p.realToken, VirtualSui, VirtualToken, n, p.fee)
    <2>1. MirrorBuy(p, n) = T - CeilDiv(S * T, S + (n - fee))
      <3> DEFINE d == S + (n - fee)
                 c == CeilDiv(S * T, d)
      <3>0. fee \in 0 .. n
        BY <1>1, FeeWithin
      <3>1. fee \in Int /\ S \in Nat /\ T \in Nat /\ d \in Nat \ {0}
        <4> HIDE DEF fee
        <4> QED
          BY <1>1, <3>0, FormConstants
      <3>2. S * T \in Nat
        BY <3>1
      <3> HIDE DEF d, S, T, fee
      <3>3. c \in Int
        BY <3>1, <3>2, CeilDivLeast
      <3>4. MirrorBuy(p, n) = p.realToken + (VirtualToken - c)
        BY DEF MirrorBuy, CeilDiv, d, S, T, fee
      <3> HIDE DEF c
      <3>5. p.realToken + (VirtualToken - c) = T - c
        BY <1>1, <3>3, FormConstants DEF T
      <3> QED
        BY <3>4, <3>5 DEF c, d
    <2>2. q.out = T - CeilDiv(S * T, S + (n - fee))
      BY <1>1 DEF ComputeBuy
    <2>3. q.out \in Nat
      BY <1>1, BuyKeepsProduct, FormConstants
    <2> HIDE DEF S, T, fee, q
    <2>4. Estimate(p, side, n) = q.out
      BY <1>2, <2>1, <2>2 DEF Estimate
    <2> QED
      BY <1>2, <2>3, <2>4 DEF q
  <1>3. CASE side = "sell"
    <2> DEFINE gross == SellGross(p.realSui, p.realToken, VirtualSui, VirtualToken, n)
               q == ComputeSell(p.realSui, p.realToken, VirtualSui, VirtualToken, n, p.fee)
    <2>1. MirrorSell(p, n) = gross - FeeOn(gross, p.fee)
      BY <1>1, FormConstants, SMT DEF MirrorSell, SellGross, CeilDiv
    <2>2. q.out = gross - FeeOn(gross, p.fee)
      BY <1>1 DEF ComputeSell
    <2>3. q.out \in Nat
      BY <1>1, SellKeepsProduct, FormConstants
    <2> HIDE DEF gross, q
    <2>4. Estimate(p, side, n) = q.out
      BY <1>3, <2>1, <2>2 DEF Estimate
    <2> QED
      BY <1>3, <2>3, <2>4 DEF q
  <1> QED
    BY <1>2, <1>3

\* The minimum is what was estimated less the slippage, rounded down.
LEMMA LeastBounds ==
    ASSUME NEW try \in Attempt
    PROVE  /\ Least(try) \in Nat
           /\ Least(try) <= Estimate(try.props, try.side, try.amount)
           /\ \A got \in Int : got >= Least(try) =>
                (got + 1) * BpsDenominator
                  > Estimate(try.props, try.side, try.amount)
                        * (BpsDenominator - try.slippage)
  <1> DEFINE est == Estimate(try.props, try.side, try.amount)
             kept == BpsDenominator - try.slippage
  <1>1. est \in Nat
    BY EstimateTyped DEF Attempt
  <1>2. kept \in Nat /\ kept <= BpsDenominator /\ BpsDenominator \in Nat \ {0}
    <2>1. try.slippage \in 0 .. BpsDenominator
      BY FormConstants DEF Attempt
    <2> QED
      BY <2>1, FormConstants
  <1>3. Least(try) = (est * kept) \div BpsDenominator
    BY DEF Least, MinOut
  <1> HIDE DEF est, kept
  <1>4. est * kept \in Nat /\ est * kept <= est * BpsDenominator
    BY <1>1, <1>2, MulMono
  <1> DEFINE x == est * kept
             q == x \div BpsDenominator
  <1>5. x \in Nat /\ x <= est * BpsDenominator
    BY <1>4
  <1> HIDE DEF x
  <1>6. /\ q \in Nat /\ BpsDenominator * q <= x
        /\ x < BpsDenominator * q + BpsDenominator
    BY <1>2, <1>5, DivBounds
  <1>7. Least(try) = q
    BY <1>3 DEF x
  <1> HIDE DEF q
  <1>8. BpsDenominator * q < BpsDenominator * (est + 1)
    BY <1>1, <1>2, <1>5, <1>6
  <1>9. q <= est
    BY <1>1, <1>2, <1>6, <1>8, MulCancel
  <1>10. x < BpsDenominator * (q + 1)
    BY <1>2, <1>6
  <1>11. ASSUME NEW got \in Int, got >= q
         PROVE  (got + 1) * BpsDenominator > x
    <2>1. (q + 1) * BpsDenominator <= (got + 1) * BpsDenominator
      BY <1>2, <1>6, <1>11, MulMono
    <2> QED
      BY <1>2, <1>5, <1>6, <1>10, <2>1
  <1> QED
    BY <1>6, <1>7, <1>9, <1>11 DEF x, est, kept

\* A purchase, and a sale of tokens the seller has, keep the pool in order and
\* every token in somebody's hands.
LEMMA BuyHeld ==
    ASSUME IInv, TokensHeld, NEW s \in Addr, NEW n \in Nat, n <= sui[s], NEW m,
           Buy(1, s, n, m), tokens' = [tokens EXCEPT ![s] = @ + BuyQuote(n).out]
    PROVE  /\ IInv' /\ TokensHeld'
           /\ BuyQuote(n).out \in Nat /\ BuyQuote(n).out >= m
           /\ tokens'[s] = tokens[s] + BuyQuote(n).out /\ tokens[s] \in Nat
  <1> DEFINE got == BuyQuote(n).out
  <1>1. /\ n \in Nat \ {0} /\ got >= m /\ circulating' = circulating + got
    BY DEF Buy
  <1>2. /\ 1 \in PackageVersions /\ sui[s] \in Nat /\ tokens \in [Addr -> Nat]
        /\ circulating = Total(tokens)
    <2>1. 1 \in PackageVersions
      BY PoolFacts DEF PackageVersions
    <2>2. sui \in [Addr -> Nat]
      BY PoolFacts
    <2> QED
      BY <2>1, <2>2 DEF TokensHeld
  <1>3. n \in 1 .. sui[s]
    BY <1>1, <1>2
  <1>4. IInv'
    BY <1>2, <1>3, BuyStep
  <1>5. got \in Nat
    BY <1>1, PoolFacts, BuyKeepsProduct, FormConstants DEF BuyQuote
  <1> HIDE DEF got
  <1>6. tokens' = Credit(tokens, s, got)
    BY DEF Credit, got
  <1>7. tokens' \in [Addr -> Nat] /\ Total(tokens') = Total(tokens) + got
    <2>1. /\ Credit(tokens, s, got) \in [Addr -> Nat]
          /\ Total(Credit(tokens, s, got)) = Total(tokens) + got
      BY <1>2, <1>5, WalletCredited
    <2> QED
      BY <1>6, <2>1
  <1>8. tokens'[s] = tokens[s] + got /\ tokens[s] \in Nat
    BY <1>2, <1>6 DEF Credit
  <1>9. TokensHeld'
    BY <1>1, <1>2, <1>7 DEF TokensHeld
  <1> QED
    BY <1>1, <1>4, <1>5, <1>8, <1>9 DEF got

LEMMA SellHeld ==
    ASSUME IInv, TokensHeld, NEW s \in Addr, NEW n \in Nat, n <= tokens[s], NEW m,
           Sell(1, s, n, m), tokens' = [tokens EXCEPT ![s] = @ - n]
    PROVE  /\ IInv' /\ TokensHeld'
           /\ SellQuote(n).out \in Nat /\ SellQuote(n).out >= m
           /\ sui'[s] >= sui[s] + SellQuote(n).out /\ sui[s] \in Nat /\ sui'[s] \in Nat
  <1> DEFINE q == SellQuote(n)
             split == ComputeSplit(q.fee, config.tradeShares)
  <1>1. /\ n \in Nat \ {0} /\ q.out >= m /\ circulating' = circulating - n
        /\ sui' = DistributeSui(Credit(sui, s, q.out), split,
                                account.creator, config.platformTreasury)
    BY DEF Sell
  <1>2. /\ 1 \in PackageVersions /\ sui \in [Addr -> Nat] /\ tokens \in [Addr -> Nat]
        /\ circulating \in Nat /\ circulating = Total(tokens)
        /\ tokens[s] \in Nat /\ tokens[s] <= circulating
    <2>1. 1 \in PackageVersions
      BY PoolFacts DEF PackageVersions
    <2>2. sui \in [Addr -> Nat] /\ circulating \in Nat
      BY PoolFacts
    <2>3. tokens[s] \in Nat /\ tokens[s] <= circulating
      BY HeldCirculates
    <2> QED
      BY <2>1, <2>2, <2>3 DEF TokensHeld
  <1>3. n \in 1 .. circulating
    BY <1>1, <1>2
  <1>4. IInv'
    BY <1>2, <1>3, SellStep
  <1>5. /\ account.creator \in Addr /\ config.platformTreasury \in Addr
    BY PoolFacts DEF Account, Config
  <1>6. q.out \in Nat /\ q.fee \in Nat
    BY <1>1, PoolFacts, SellKeepsProduct, FormConstants DEF SellQuote
  <1> HIDE DEF q
  <1>7. split.creator \in Nat /\ split.rest \in Nat
    BY <1>6, ConfigFacts, SplitExact DEF IInv
  <1> HIDE DEF split
  <1>8. sui'[s] >= sui[s] + q.out /\ sui[s] \in Nat /\ sui'[s] \in Nat
    <2> DEFINE paid == Credit(sui, s, q.out)
    <2>1. paid \in [Addr -> Nat]
      BY <1>2, <1>6, WalletCredited
    <2>2. paid[s] = sui[s] + q.out
      BY <1>2 DEF Credit
    <2> HIDE DEF paid
    <2>3. sui' \in [Addr -> Nat] /\ sui'[s] >= paid[s]
      BY <1>1, <1>5, <1>7, <2>1, WalletsPaid DEF paid
    <2> QED
      BY <1>2, <2>2, <2>3
  <1>9. tokens' = Debit(tokens, s, n)
    BY DEF Debit
  <1>10. tokens' \in [Addr -> Nat] /\ Total(tokens') = Total(tokens) - n
    <2>1. /\ Debit(tokens, s, n) \in [Addr -> Nat]
          /\ Total(Debit(tokens, s, n)) = Total(tokens) - n
      BY <1>2, WalletDebited
    <2> QED
      BY <1>9, <2>1
  <1>11. TokensHeld'
    BY <1>1, <1>2, <1>10 DEF TokensHeld
  <1> QED
    BY <1>1, <1>4, <1>6, <1>8, <1>11 DEF q

\* Trades of others, and the admin's changes of the fee.
LEMMA OthersInv ==
    ASSUME FormInv, Others
    PROVE  FormInv' /\ attempts' = attempts
  <1>1. /\ UNCHANGED <<props, wallet, balances, polls, attempts>>
        /\ IInv /\ TokensHeld
    BY DEF Others, FormInv
  <1>2. ASSUME NEW a \in Addr, NEW n \in OtherAmounts, n <= sui[a], Buy(1, a, n, 0),
               tokens' = [tokens EXCEPT ![a] = @ + BuyQuote(n).out]
        PROVE  IInv' /\ TokensHeld'
    BY <1>1, <1>2, BuyHeld, FormAssumption
  <1>3. ASSUME NEW a \in Addr, NEW n \in OtherAmounts, n <= tokens[a], Sell(1, a, n, 0),
               tokens' = [tokens EXCEPT ![a] = @ - n]
        PROVE  IInv' /\ TokensHeld'
    BY <1>1, <1>3, SellHeld, FormAssumption
  <1>4. ASSUME NEW fee \in FeeChoices, SetTradeFeeBps(1, config.admin, fee),
               UNCHANGED <<published, account, sui, circulating, tokens>>
        PROVE  IInv' /\ TokensHeld'
    <2>1. 1 \in PackageVersions /\ config.admin \in Addr
      BY <1>1, PoolFacts DEF PackageVersions
    <2>2. ConfigNext /\ UNCHANGED <<account, sui, circulating>>
      BY <1>4, <2>1 DEF ConfigNext, AdminStep
    <2> QED
      BY <1>1, <1>4, <2>2, ConfigStep DEF TokensHeld
  <1>5. IInv' /\ TokensHeld'
    BY <1>2, <1>3, <1>4 DEF Others
  <1> QED
    BY <1>1, <1>5 DEF FormInv, FormTyped, PollsOwned

\* A submission is made of an amount that is not zero, and for the wallet and the
\* quote of that moment.
LEMMA SubmitInv ==
    ASSUME FormInv, NEW c \in Clicks, NEW side \in {"buy", "sell"}, NEW s \in Slippages,
           NEW n \in Amounts(side), Submit(c, side, n, s)
    PROVE  FormInv' /\ circulating' = circulating
  <1> DEFINE try == [pc |-> IF side = "buy" THEN "signing" ELSE "listing", sender |-> wallet,
                     side |-> side, amount |-> n, slippage |-> s, props |-> props,
                     listed |-> 0]
  <1>1. /\ wallet # None /\ SubmitLabel(side, n) = side
        /\ attempts' = [attempts EXCEPT ![c] = try]
        /\ UNCHANGED <<launchpadVars, tokens, props, wallet, balances, polls, moves>>
    BY DEF Submit
  <1>2. IInv' /\ TokensHeld' /\ FormTyped /\ PollsOwned
    BY <1>1, OffChain DEF FormInv
  <1>3. n \in Nat
    <2>1. CASE n \in {ParseUnits(t) : t \in TypedAmounts}
      <3>1. PICK t \in TypedAmounts : n = t \div Subunits
        BY <2>1 DEF ParseUnits
      <3>2. t \in Nat
        BY FormConstants
      <3> QED
        BY <3>1, <3>2, DivBounds, FormConstants
    <2>2. CASE n = Spendable(side)
      BY <1>2, <2>2, FormConstants DEF Spendable, FormTyped
    <2> QED
      BY <2>1, <2>2 DEF Amounts
  <1>4. n # 0
    BY <1>1 DEF SubmitLabel
  <1>5. try \in Attempt
    BY <1>1, <1>2, <1>3, <1>4 DEF Attempt, FormTyped
  <1> HIDE DEF try
  <1>6. FormTyped'
    BY <1>1, <1>2, <1>5 DEF FormTyped
  <1>7. PollsOwned' /\ circulating' = circulating
    BY <1>1, <1>2 DEF PollsOwned, launchpadVars
  <1> QED
    BY <1>2, <1>6, <1>7 DEF FormInv

\* What FilledAsShown says of one step.
GoodFill ==
    \A c \in Clicks :
        LET try == attempts[c]
        IN  try # NoAttempt /\ attempts'[c] = NoAttempt /\ circulating' # circulating =>
              (Received(try) + 1) * BpsDenominator
                > Estimate(try.props, try.side, try.amount)
                      * (BpsDenominator - try.slippage)

LEMMA OpenAttempt ==
    ASSUME FormInv, NEW c \in Clicks, attempts[c].pc # "none"
    PROVE  /\ attempts[c] \in Attempt /\ attempts[c].sender \in Addr
           /\ attempts[c].amount \in Nat \ {0} /\ attempts[c].side \in {"buy", "sell"}
           /\ attempts[c].props \in Pool /\ attempts[c].listed \in Nat
  <1>1. NoAttempt.pc = "none"
    BY DEF NoAttempt
  <1>2. attempts[c] \in Attempt
    BY <1>1 DEF FormInv, FormTyped
  <1> QED
    BY <1>2 DEF Attempt

\* A submission is closed, and the others stay as they are.
LEMMA CloseInv ==
    ASSUME FormInv, NEW c \in Clicks, IInv', TokensHeld',
           attempts' = [attempts EXCEPT ![c] = NoAttempt],
           UNCHANGED <<props, wallet, balances, polls>>
    PROVE  FormInv' /\ \A d \in Clicks \ {c} : attempts'[d] = attempts[d]
  <1> HIDE DEF NoAttempt
  <1>1. FormTyped' /\ \A d \in Clicks \ {c} : attempts'[d] = attempts[d]
    BY DEF FormInv, FormTyped
  <1> QED
    BY <1>1 DEF FormInv, PollsOwned

\* The transaction executes with the minimum that was put in.
LEMMA FillInv ==
    ASSUME FormInv, NEW c \in Clicks, Fill(c)
    PROVE  FormInv' /\ GoodFill
  <1> DEFINE try == attempts[c]
             est == Estimate(try.props, try.side, try.amount)
  <1>1. /\ try.pc = "signing" /\ Affordable(try) /\ Close(c)
        /\ IInv /\ TokensHeld
    BY DEF Fill, FormInv
  <1>2. /\ try \in Attempt /\ try.sender \in Addr /\ try.amount \in Nat \ {0}
        /\ try.amount \in Nat /\ try.side \in {"buy", "sell"}
    BY <1>1, OpenAttempt
  <1>3. IInv' /\ TokensHeld' /\ Received(try) \in Int /\ Received(try) >= Least(try)
    <2>1. CASE try.side = "buy"
      <3>1. /\ Buy(1, try.sender, try.amount, Least(try))
            /\ tokens' = [tokens EXCEPT ![try.sender] = @ + BuyQuote(try.amount).out]
        BY <2>1 DEF Fill
      <3>2. try.amount <= sui[try.sender]
        <4>1. sui[try.sender] \in Nat /\ sui[try.sender] >= try.amount
          BY <1>1, <1>2, <2>1, PoolFacts DEF Affordable
        <4> QED
          BY <1>2, <4>1
      <3>3. /\ IInv' /\ TokensHeld'
            /\ BuyQuote(try.amount).out \in Nat /\ BuyQuote(try.amount).out >= Least(try)
            /\ tokens'[try.sender] = tokens[try.sender] + BuyQuote(try.amount).out
            /\ tokens[try.sender] \in Nat
        BY <1>1, <1>2, <3>1, <3>2, BuyHeld
      <3>4. Received(try) = tokens'[try.sender] - tokens[try.sender]
        BY <2>1 DEF Received
      <3> HIDE DEF try
      <3>5. Received(try) = BuyQuote(try.amount).out
        BY <3>3, <3>4
      <3> QED
        BY <3>3, <3>5
    <2>2. CASE try.side = "sell"
      <3>1. /\ Sell(1, try.sender, try.amount, Least(try))
            /\ tokens' = [tokens EXCEPT ![try.sender] = @ - try.amount]
        BY <2>2 DEF Fill
      <3>2. try.amount <= tokens[try.sender]
        <4>1. tokens[try.sender] \in Nat /\ tokens[try.sender] >= try.amount
          BY <1>1, <1>2, <2>2, HeldCirculates DEF Affordable
        <4> QED
          BY <1>2, <4>1
      <3>3. /\ IInv' /\ TokensHeld'
            /\ SellQuote(try.amount).out \in Nat /\ SellQuote(try.amount).out >= Least(try)
            /\ sui'[try.sender] >= sui[try.sender] + SellQuote(try.amount).out
            /\ sui[try.sender] \in Nat /\ sui'[try.sender] \in Nat
        BY <1>1, <1>2, <3>1, <3>2, SellHeld
      <3>4. Received(try) = sui'[try.sender] - sui[try.sender]
        BY <2>2 DEF Received
      <3>5. Least(try) \in Nat
        BY <1>2, <3>3, LeastBounds
      <3> HIDE DEF try
      <3> QED
        BY <3>3, <3>4, <3>5
    <2> QED
      BY <1>2, <2>1, <2>2
  <1>4. (Received(try) + 1) * BpsDenominator > est * (BpsDenominator - try.slippage)
    BY <1>2, <1>3, LeastBounds
  <1>5. FormInv' /\ \A d \in Clicks \ {c} : attempts'[d] = attempts[d]
    BY <1>1, <1>3, CloseInv DEF Close
  <1> QED
    BY <1>4, <1>5 DEF GoodFill

\* The steps of a submission that do not reach the chain.
LEMMA AttemptInv ==
    ASSUME FormInv, NEW c \in Clicks, CoinsListed(c) \/ CoinsGone(c) \/ GiveUp(c) \/ Refuse(c)
    PROVE  FormInv' /\ circulating' = circulating
  <1>1. UNCHANGED <<launchpadVars, tokens, props, wallet, balances, polls>>
    BY DEF CoinsListed, CoinsGone, GiveUp, Refuse, Close
  <1>2. IInv' /\ TokensHeld' /\ circulating' = circulating
    BY <1>1, OffChain DEF launchpadVars
  <1>3. CASE GiveUp(c) \/ Refuse(c)
    <2>1. attempts' = [attempts EXCEPT ![c] = NoAttempt]
      BY <1>3 DEF GiveUp, Refuse, Close
    <2> QED
      BY <1>1, <1>2, <2>1, CloseInv
  <1>4. CASE CoinsListed(c) \/ CoinsGone(c)
    <2>1. /\ attempts[c].pc # "none" /\ attempts[c].sender \in Addr
          /\ attempts[c] \in Attempt /\ attempts[c].listed \in Nat
      BY <1>4, OpenAttempt DEF CoinsListed, CoinsGone
    <2>2. tokens[attempts[c].sender] \in Nat
      BY <2>1, HeldCirculates DEF FormInv
    <2>3. PICK new \in Attempt : attempts' = [attempts EXCEPT ![c] = new]
      <3>1. CASE CoinsListed(c)
        <4>1. PICK worth \in 0 .. tokens[attempts[c].sender] :
                attempts' = [attempts EXCEPT ![c] =
                                [@ EXCEPT !.pc = "signing", !.listed = worth]]
          BY <3>1 DEF CoinsListed
        <4>2. worth \in Nat
          BY <2>2, <4>1
        <4>3. [attempts[c] EXCEPT !.pc = "signing", !.listed = worth] \in Attempt
          BY <2>1, <4>2 DEF Attempt
        <4> QED
          BY <4>1, <4>3
      <3>2. CASE CoinsGone(c)
        <4>1. PICK worth \in 0 .. attempts[c].listed - 1 :
                attempts' = [attempts EXCEPT ![c].listed = worth]
          BY <3>2 DEF CoinsGone
        <4>2. [attempts[c] EXCEPT !.listed = worth] \in Attempt
          BY <2>1, <4>1 DEF Attempt
        <4>3. attempts' = [attempts EXCEPT ![c] = [attempts[c] EXCEPT !.listed = worth]]
          BY <4>1
        <4> QED
          BY <4>2, <4>3
      <3> QED
        BY <1>4, <3>1, <3>2
    <2>4. FormTyped'
      BY <1>1, <2>3 DEF FormInv, FormTyped
    <2> QED
      BY <1>1, <1>2, <2>4 DEF FormInv, PollsOwned
  <1> QED
    BY <1>3, <1>4

LEMMA TradeStepInv ==
    ASSUME FormInv, TradeNext
    PROVE  /\ FormInv' /\ GoodFill
           /\ balances' # balances => balances'.owner = wallet'
  <1>1. CASE \/ Render \/ StartPoll
             \/ \E a \in Addr \cup {None} : SwitchWallet(a)
             \/ \E p \in polls : PollAnswers(p) \/ PollFails(p)
    <2>1. circulating' = circulating
      BY <1>1 DEF Render, StartPoll, SwitchWallet, PollAnswers, PollFails, launchpadVars
    <2> QED
      BY <1>1, <2>1, BrowserInv DEF GoodFill
  <1>2. ASSUME NEW c \in Clicks,
               \/ \E side \in {"buy", "sell"}, s \in Slippages :
                     \E n \in Amounts(side) : Submit(c, side, n, s)
               \/ CoinsListed(c) \/ CoinsGone(c) \/ GiveUp(c) \/ Refuse(c)
        PROVE  FormInv' /\ GoodFill /\ balances' = balances
    <2>1. FormInv' /\ circulating' = circulating
      BY <1>2, SubmitInv, AttemptInv
    <2>2. balances' = balances
      BY <1>2 DEF Submit, CoinsListed, CoinsGone, GiveUp, Refuse, Close
    <2> QED
      BY <2>1, <2>2 DEF GoodFill
  <1>3. ASSUME NEW c \in Clicks, Fill(c)
        PROVE  FormInv' /\ GoodFill /\ balances' = balances
    <2>1. balances' = balances
      BY <1>3 DEF Fill, Close
    <2> QED
      BY <1>3, <2>1, FillInv
  <1>4. CASE Others
    <2>1. balances' = balances
      BY <1>4 DEF Others
    <2> QED
      BY <1>4, <2>1, OthersInv DEF GoodFill
  <1> QED
    BY <1>1, <1>2, <1>3, <1>4 DEF TradeNext

LEMMA FormStepInv ==
    ASSUME FormInv, [Next]_dashboardVars
    PROVE  /\ FormInv' /\ [GoodFill]_tradeVars
           /\ [balances' # balances => balances'.owner = wallet']_tradeVars
  <1>1. TradeNext \/ UNCHANGED tradeVars
    BY DEF Next, CacheRuns, PageRuns, FormRuns, dashboardVars
  <1>2. CASE UNCHANGED tradeVars
    <2>1. UNCHANGED <<launchpadVars, tokens, props, wallet, balances, polls, attempts>>
      BY <1>2 DEF tradeVars, formVars
    <2>2. IInv' /\ TokensHeld'
      BY <2>1, OffChain
    <2> QED
      BY <1>2, <2>1, <2>2 DEF FormInv, FormTyped, PollsOwned
  <1>3. CASE TradeNext
    BY <1>3, TradeStepInv
  <1> QED
    BY <1>1, <1>2, <1>3

LEMMA FormInvariant == Spec => []FormInv
  <1>1. FormInv /\ [Next]_dashboardVars => FormInv'
    BY FormStepInv
  <1> QED
    BY <1>1, FormInitInv, PTL DEF Spec

\* FilledAsShown: a trade that goes through yields what the form estimated less the
\* slippage that was chosen, to within the rounding of the minimum, for every curve,
\* fee, slippage and amount, whatever happened since the page was rendered.
THEOREM AlwaysFilledAsShown == Spec => FilledAsShown
  <1>1. FormInv /\ [Next]_dashboardVars => [GoodFill]_tradeVars
    BY FormStepInv
  <1>2. Spec => [][GoodFill]_tradeVars
    BY <1>1, FormInvariant, PTL DEF Spec
  <1> QED
    BY <1>2 DEF GoodFill, FilledAsShown

\* BalanceFollowsWallet: a balance is only ever replaced by one of the wallet that
\* is connected, for any number of wallets and of polls in flight.
THEOREM BalanceIsOfWallet == Spec => BalanceFollowsWallet
  <1>1. FormInv /\ [Next]_dashboardVars
            => [balances' # balances => balances'.owner = wallet']_tradeVars
    BY FormStepInv
  <1> QED
    BY <1>1, FormInvariant, PTL DEF Spec, BalanceFollowsWallet

\* A quote of the pool as it is: the trade it was made for goes through.
LEMMA QuietHolds == FormInv => QuietPoolFills
  <1> SUFFICES ASSUME FormInv, NEW c \in Clicks,
                      attempts[c].pc = "signing", Affordable(attempts[c]),
                      attempts[c].props = Rendered, Aborts(attempts[c]),
                      ~CoinsShort(attempts[c])
               PROVE  /\ attempts[c].side = "buy"
                      /\ MirrorBuy(attempts[c].props, attempts[c].amount)
                            > attempts[c].props.realToken
    BY DEF QuietPoolFills, CoinsShort
  <1> DEFINE try == attempts[c]
             quote == ChainQuote(try)
             est == Estimate(try.props, try.side, try.amount)
  <1>1. /\ try \in Attempt /\ try.sender \in Addr /\ try.amount \in Nat \ {0}
        /\ try.amount # 0 /\ try.side \in {"buy", "sell"} /\ try.props \in Pool
    BY OpenAttempt
  <1>2. /\ try.props.realSui = account.realSui /\ try.props.realToken = account.realToken
        /\ try.props.fee = config.tradeFee
    BY DEF Rendered
  <1>3. est \in Nat /\ quote.out = est
    BY <1>1, <1>2, EstimateTyped DEF ChainQuote, BuyQuote, SellQuote
  <1>4. Least(try) <= est /\ Least(try) \in Nat
    BY <1>1, LeastBounds
  <1>5. \/ ~quote.ok
        \/ try.side = "sell" /\ account.realSui < quote.out + quote.fee
    BY <1>3, <1>4 DEF Aborts
  <1>6. try.side = "buy"
    <2> SUFFICES ASSUME try.side = "sell"
                 PROVE  FALSE
      BY <1>1
    <2>1. tokens[try.sender] \in Nat /\ tokens[try.sender] >= try.amount
      BY <1>1, HeldCirculates DEF Affordable, FormInv
    <2>2. tokens[try.sender] <= circulating /\ circulating \in Nat
      BY <1>1, HeldCirculates, PoolFacts DEF FormInv
    <2>3. try.amount \in 1 .. circulating
      BY <1>1, <2>1, <2>2
    <2>4. Launched
      BY <2>2, <2>3 DEF FormInv, IInv, PreLaunch
    <2>5. /\ SellQuote(try.amount).ok
          /\ account.realSui >= SellQuote(try.amount).out + SellQuote(try.amount).fee
      BY <2>3, <2>4, PoolSolvent DEF FormInv, Solvent
    <2>6. quote = SellQuote(try.amount)
      BY DEF ChainQuote
    <2>7. quote.out \in Nat /\ quote.fee \in Nat /\ account.realSui \in Nat
      BY <1>1, <2>6, PoolFacts, SellKeepsProduct, FormConstants DEF FormInv, SellQuote
    <2> QED
      BY <1>5, <2>5, <2>6, <2>7
  <1>7. ~quote.ok /\ quote = BuyQuote(try.amount)
    BY <1>5, <1>6 DEF ChainQuote
  <1>8. ~(quote.out <= account.realToken)
    <2>1. ASSUME NEW rs, NEW rt, NEW n, NEW fee, n # 0
          PROVE  LET q == ComputeBuy(rs, rt, VirtualSui, VirtualToken, n, fee)
                 IN  q.ok <=> q.out <= rt
      BY <2>1 DEF ComputeBuy
    <2> HIDE DEF try
    <2> QED
      BY <1>1, <1>7, <2>1 DEF BuyQuote
  <1>9. est > account.realToken
    <2>1. account.realToken \in Nat
      BY PoolFacts DEF FormInv
    <2> QED
      BY <1>3, <1>8, <2>1
  <1> QED
    BY <1>2, <1>6, <1>9 DEF Estimate

\* QuietPoolFills: while the pool and the fee are as they were rendered no trade the
\* wallet can pay for is refused, but a buy of more tokens than the pool has and a
\* sale of more than the coins the form found are worth; for every curve, history of
\* trades, fee, slippage and page of coins.
THEOREM QuietPoolAlwaysFills == Spec => []QuietPoolFills
  BY FormInvariant, QuietHolds, PTL

\* The tokens of the form's world are those that circulate, so the pool can pay
\* every holder for any part of what he holds at any time, whoever traded through
\* which form on whatever quote.
THEOREM HoldersCanSell ==
    Spec => [](\A a \in Addr : \A n \in 1 .. tokens[a] :
                  /\ SellQuote(n).ok
                  /\ account.realSui >= SellQuote(n).out + SellQuote(n).fee)
  <1>1. ASSUME FormInv, NEW a \in Addr, NEW n \in 1 .. tokens[a]
        PROVE  SellQuote(n).ok /\ account.realSui >= SellQuote(n).out + SellQuote(n).fee
    <2>1. tokens[a] \in Nat /\ tokens[a] <= circulating /\ circulating \in Nat
      BY <1>1, HeldCirculates, PoolFacts DEF FormInv
    <2>2. n \in 1 .. circulating /\ circulating # 0
      BY <1>1, <2>1
    <2>3. Launched
      BY <1>1, <2>2 DEF FormInv, IInv, PreLaunch
    <2> QED
      BY <1>1, <2>2, <2>3, PoolSolvent DEF FormInv, Solvent
  <1>2. FormInv => \A a \in Addr : \A n \in 1 .. tokens[a] :
                      /\ SellQuote(n).ok
                      /\ account.realSui >= SellQuote(n).out + SellQuote(n).fee
    BY <1>1
  <1> QED
    BY <1>2, FormInvariant, PTL
=============================================================================
