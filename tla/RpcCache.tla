------------------------------ MODULE RpcCache ------------------------------
(***************************************************************************)
(* The JSON-RPC client of the dashboard's server (app/src/lib/sui.ts): a   *)
(* read of the chain is answered from a short-lived cache, joins a request *)
(* for the same key that is in flight, or asks the endpoints one after the *)
(* other.  A value is represented by the instant at which it was the state *)
(* of the chain (asOf): all that the properties tell apart.                *)
(***************************************************************************)
EXTENDS Integers, FiniteSets

CONSTANTS
    Keys,         \* method and parameters of a query
    Readers,      \* renders of pages; each reads many times
    NodeCount,    \* RPC_ENDPOINTS
    Lag, MaxLag,  \* how far each endpoint, and any, may be behind the chain
    Ttl,          \* RPC_CACHE_TTL_MS
    Timeout,      \* RPC_TIMEOUT_MS
    BodyLimit,    \* fetch gives up on a body that takes longer
    CacheMax,     \* RPC_CACHE_MAX
    MaxTime       \* the last instant of a behaviour (a bound)

ASSUME CacheAssumption ==
    /\ Keys # {}
    /\ NodeCount \in Nat \ {0}
    /\ MaxLag \in Nat /\ Lag \in [1 .. NodeCount -> 0 .. MaxLag]
    /\ Ttl \in Nat /\ Timeout \in Nat /\ BodyLimit \in Nat
    /\ CacheMax \in Nat /\ MaxTime \in Nat

VARIABLES
    clock,
    cache,     \* rpcCache
    flights,   \* rpcInflight, with the request each promise is waiting for
    readers,   \* what each reader last asked for and got
    seen       \* history: for each key, the newest state any reader was given

cacheVars == <<clock, cache, flights, readers, seen>>

NoEntry == [asOf |-> 0, expires |-> 0, failedOver |-> FALSE]
NoFlight == [phase |-> "none", node |-> 1, since |-> 0, asOf |-> 0, failedOver |-> FALSE]

CacheInit ==
    /\ clock = 0
    /\ cache = [k \in Keys |-> NoEntry]
    /\ flights = [k \in Keys |-> NoFlight]
    /\ readers = [r \in Readers |-> [pc |-> "idle", key |-> CHOOSE k \in Keys : TRUE,
                                     since |-> 0, floor |-> 0, asOf |-> 0, at |-> 0,
                                     failedOver |-> FALSE]]
    /\ seen = [k \in Keys |-> 0]

\* Mutant: an entry is good for ever.
HitForEver(k) == cache[k].expires > 0

Hit(k) == cache[k].expires > clock

\* Mutant: the endpoints are tried in any order.
FirstNodeAny == NodeCount

FirstNode == 1

Ask(node, failedOver) ==
    [phase |-> "sent", node |-> node, since |-> clock, asOf |-> 0, failedOver |-> failedOver]

Reading(r, k) == [readers[r] EXCEPT !.pc = "waiting", !.key = k, !.since = clock,
                                    !.floor = seen[k]]

Given(reader, asOf, failedOver) ==
    [reader EXCEPT !.pc = "got", !.asOf = asOf, !.at = clock, !.failedOver = failedOver]

\* rpc: a hit is returned at once; otherwise the reader joins the request in
\* flight for the key, or sends one.
ReadHit(r, k) ==
    /\ readers[r].pc # "waiting"
    /\ Hit(k)
    /\ readers' = [readers EXCEPT ![r] =
                        Given(Reading(r, k), cache[k].asOf, cache[k].failedOver)]
    /\ UNCHANGED <<clock, cache, flights, seen>>

ReadJoin(r, k) ==
    /\ readers[r].pc # "waiting"
    /\ ~Hit(k)
    /\ flights[k].phase # "none"
    /\ readers' = [readers EXCEPT ![r] = Reading(r, k)]
    /\ UNCHANGED <<clock, cache, flights, seen>>

ReadSend(r, k) ==
    /\ readers[r].pc # "waiting"
    /\ ~Hit(k)
    /\ flights[k].phase = "none"
    /\ flights' = [flights EXCEPT ![k] = Ask(FirstNode, FALSE)]
    /\ readers' = [readers EXCEPT ![r] = Reading(r, k)]
    /\ UNCHANGED <<clock, cache, seen>>

\* The headers of the answer arrive, which stops the timer of rpcOnce.  The node
\* looked the answer up at some instant since it was asked.
Headers(k) ==
    LET f == flights[k]
    IN  /\ f.phase = "sent"
        /\ \E t \in f.since - Lag[f.node] .. clock :
                /\ t >= 0
                /\ flights' = [flights EXCEPT ![k].phase = "body", ![k].asOf = t,
                                              ![k].since = clock]
        /\ UNCHANGED <<clock, cache, readers, seen>>

Waiting(k) == {r \in Readers : readers[r].pc = "waiting" /\ readers[r].key = k}

\* The entries that survive the insertion of k.
Pruned ==
    IF Cardinality({k \in Keys : cache[k] # NoEntry}) >= CacheMax
        THEN [k \in Keys |-> IF cache[k].expires <= clock THEN NoEntry ELSE cache[k]]
        ELSE cache

\* The body has arrived: the value is cached and given to everybody who waits.
Answer(k) ==
    LET f == flights[k]
    IN  /\ f.phase = "body"
        /\ cache' = [Pruned EXCEPT ![k] = [asOf |-> f.asOf, expires |-> clock + Ttl,
                                           failedOver |-> f.failedOver]]
        /\ flights' = [flights EXCEPT ![k] = NoFlight]
        /\ readers' = [r \in Readers |-> IF r \in Waiting(k)
                            THEN Given(readers[r], f.asOf, f.failedOver) ELSE readers[r]]
        /\ seen' = [seen EXCEPT ![k] = IF f.asOf > @ THEN f.asOf ELSE @]
        /\ UNCHANGED clock

\* The promise is rejected: everybody who waits gets the error, nothing is cached.
Reject(k) ==
    /\ flights' = [flights EXCEPT ![k] = NoFlight]
    /\ readers' = [r \in Readers |-> IF r \in Waiting(k)
                        THEN [readers[r] EXCEPT !.pc = "failed", !.at = clock]
                        ELSE readers[r]]
    /\ UNCHANGED <<clock, cache, seen>>

\* rpcWithFailover: the next endpoint, or the last error.
NextNode(k) ==
    IF flights[k].node < NodeCount
        THEN /\ flights' = [flights EXCEPT ![k] = Ask(flights[k].node + 1, TRUE)]
             /\ UNCHANGED <<clock, cache, readers, seen>>
        ELSE Reject(k)

\* No connection, or an HTTP status that is not ok.
NodeFails(k) == flights[k].phase = "sent" /\ NextNode(k)

\* The timer of rpcOnce aborts the request.
NodeTimesOut(k) ==
    /\ flights[k].phase = "sent"
    /\ clock - flights[k].since >= Timeout
    /\ NextNode(k)

\* The connection breaks while the body is read, or the body is no JSON.
BodyFails(k) == flights[k].phase = "body" /\ NextNode(k)

\* The body is a JSON-RPC error: no other endpoint is asked.
MethodError(k) == flights[k].phase = "body" /\ Reject(k)

CacheTick ==
    /\ clock < MaxTime
    /\ \A k \in Keys : /\ flights[k].phase = "sent" => clock - flights[k].since < Timeout
                       /\ flights[k].phase = "body" => clock - flights[k].since < BodyLimit
    /\ clock' = clock + 1
    /\ UNCHANGED <<cache, flights, readers, seen>>

FlightStep(k) ==
    \/ Headers(k) \/ Answer(k)
    \/ NodeFails(k) \/ NodeTimesOut(k) \/ BodyFails(k) \/ MethodError(k)

CacheNext ==
    \/ \E r \in Readers, k \in Keys : ReadHit(r, k) \/ ReadJoin(r, k) \/ ReadSend(r, k)
    \/ \E k \in Keys : FlightStep(k)
    \/ CacheTick

CacheSpec == CacheInit /\ [][CacheNext]_cacheVars

-----------------------------------------------------------------------------
\* How old an answer can be: an entry on its last instant, whose request was slow.
AgeLimit == Ttl + Timeout + BodyLimit + MaxLag

\* Whatever is coalesced, cached, pruned and failed over, nobody is given a state
\* of the chain older than one slow request and one lifetime of an entry.
AgeBounded ==
    \A r \in Readers : readers[r].pc = "got" => readers[r].at - readers[r].asOf <= AgeLimit

\* Two reads of one key that follow each other show the chain moving forward,
\* unless the later answer came from a fallback, which may be behind: the cache
\* never brings back what it has once replaced.  It is a property of deployments
\* whose primary node is not behind (Lag[1] = 0): one that is may answer the
\* second read with an older state than the first.
ReadsGoForward ==
    \A r \in Readers :
        readers[r].pc = "got" /\ ~readers[r].failedOver => readers[r].asOf >= readers[r].floor

=============================================================================
