--------------------------- MODULE EcosystemFeed ---------------------------
(***************************************************************************)
(* The event feed of examples/cloudflare-agent/src/feed.ts: every cron     *)
(* tick collects the recent events it has not marked as seen, and posts    *)
(* them to the channel; the very first tick only marks them.  Every await  *)
(* ends a step, so a tick interleaves with new events, with the next tick  *)
(* when it outlasts the cron period, and with the faults of the node, the  *)
(* KV and the channel it talks to.                                         *)
(*                                                                         *)
(* Events are numbered in the order of their timestamps.                   *)
(***************************************************************************)
EXTENDS Integers, FiniteSetsExt, Sequences

CONSTANTS
    Ticks,        \* ticks that may run at one time (a bound)
    Kinds,        \* event types polled: each package's kinds
    Window,       \* newest events a query returns (30)
    PostCap,      \* MAX_POSTS_PER_TICK
    MaxEvents,    \* events ever emitted (a bound)
    MaxFaults     \* faults ever injected (a bound)

ASSUME FeedAssumption ==
    /\ Kinds # {}
    /\ Window \in Nat \ {0} /\ PostCap \in Nat \ {0}
    /\ MaxEvents \in Nat /\ MaxFaults \in Nat

VARIABLES
    chain,         \* every event emitted, oldest first
    seen,          \* events with a `seen:` key
    bootstrapped,  \* is there a `feed:bootstrapped` key
    ticks,         \* the ticks running
    channel,       \* history: the events posted, in order
    unmarked,      \* history: events posted whose mark was lost
    backlog,       \* history: events on chain when the bootstrap tick began
    missed,        \* history: events a failing collect left out before bootstrap
    raced,         \* history: events a tick had before it while another was running
    faults

feedVars == <<chain, seen, bootstrapped, ticks, channel, unmarked, backlog, missed,
              raced, faults>>

Events == 1 .. MaxEvents
OnChain == 1 .. Len(chain)

Idle == [pc |-> "idle", kinds |-> {}, todo |-> {}, posted |-> 0, began |-> 0]

FeedInit ==
    /\ chain = <<>> /\ channel = <<>>
    /\ seen = {} /\ unmarked = {} /\ backlog = {} /\ missed = {} /\ raced = {}
    /\ bootstrapped = FALSE
    /\ ticks = [t \in Ticks |-> Idle]
    /\ faults = 0

\* A transaction emits an event.  renderEvent returns null for the trades and
\* payments below the floor, which are never posted.
Emit(kind, postable) ==
    /\ Len(chain) < MaxEvents
    /\ chain' = Append(chain, [kind |-> kind, postable |-> postable])
    /\ UNCHANGED <<seen, bootstrapped, ticks, channel, unmarked, backlog, missed, faults, raced>>

OfKind(kind) == {e \in OnChain : chain[e].kind = kind}

\* The n newest of a kind: queryEvents, newest first.
Newest(kind, n) ==
    {e \in OfKind(kind) : Cardinality({f \in OfKind(kind) : f > e}) < n}

Set(t, tick) == ticks' = [ticks EXCEPT ![t] = tick]

Fault == faults < MaxFaults /\ faults' = faults + 1

Others(t) == {u \in Ticks \ {t} : ticks[u].pc # "idle"}

\* The next tick begins while one is still running only where that one took longer
\* than the cron period, which counts as a fault.
Begin(t) ==
    /\ ticks[t].pc = "idle"
    /\ IF Others(t) = {} THEN UNCHANGED faults ELSE Fault
    /\ Set(t, [Idle EXCEPT !.pc = "collect", !.kinds = Kinds, !.began = Len(chain)])
    /\ raced' = raced \cup UNION {ticks[u].todo : u \in Others(t)}
    /\ UNCHANGED <<chain, seen, bootstrapped, channel, unmarked, backlog, missed>>

\* The events of a kind found in the newest n are looked up and kept if unseen.
Collect(t, kind, n) ==
    /\ ticks[t].pc = "collect"
    /\ kind \in ticks[t].kinds
    /\ LET unseen == Newest(kind, n) \ seen
       IN  /\ Set(t, [ticks[t] EXCEPT !.kinds = @ \ {kind}, !.todo = @ \cup unseen])
           /\ raced' = IF Others(t) # {} THEN raced \cup unseen ELSE raced
    /\ UNCHANGED <<chain, seen, bootstrapped, channel, unmarked, backlog>>

CollectAll(t, kind) == Collect(t, kind, Window) /\ UNCHANGED <<missed, faults>>

\* The query, or a lookup part of the way down the page, throws: caught, and the
\* tick goes on with what it has.
CollectFails(t, kind) ==
    /\ Fault
    /\ \E n \in 0 .. Window - 1 :
            /\ Collect(t, kind, n)
            /\ missed' = IF bootstrapped THEN missed
                         ELSE missed \cup (Newest(kind, Window) \ Newest(kind, n))

\* The bootstrap flag is read after everything is collected.
Decide(t) ==
    /\ ticks[t].pc = "collect"
    /\ ticks[t].kinds = {}
    /\ Set(t, [ticks[t] EXCEPT !.pc = IF bootstrapped THEN "post" ELSE "mark"])
    /\ UNCHANGED <<chain, seen, bootstrapped, channel, unmarked, backlog, missed, faults, raced>>

\* Mutant: the backlog is passed over without being marked.
MarkNothing(t, e) ==
    /\ ticks[t].pc = "mark" /\ e \in ticks[t].todo
    /\ Set(t, [ticks[t] EXCEPT !.todo = @ \ {e}])
    /\ UNCHANGED <<chain, seen, bootstrapped, channel, unmarked, backlog, missed, faults, raced>>

MarkSilently(t, e) ==
    /\ ticks[t].pc = "mark"
    /\ e \in ticks[t].todo
    /\ seen' = seen \cup {e}
    /\ Set(t, [ticks[t] EXCEPT !.todo = @ \ {e}])
    /\ UNCHANGED <<chain, bootstrapped, channel, unmarked, backlog, missed, faults, raced>>

FinishBootstrap(t) ==
    /\ ticks[t].pc = "mark"
    /\ ticks[t].todo = {}
    /\ bootstrapped' = TRUE
    /\ backlog' = backlog \cup 1 .. ticks[t].began
    /\ Set(t, Idle)
    /\ UNCHANGED <<chain, missed, seen, channel, unmarked, faults, raced>>

\* Oldest first.
Current(t) == Min(ticks[t].todo)

Posting(t) == ticks[t].pc = "post" /\ ticks[t].todo # {}

Drop(t) == [ticks[t] EXCEPT !.todo = @ \ {Current(t)}]

\* Mutant: an event that is not worth a post ends the tick.
SkipReturns(t) ==
    /\ Posting(t) /\ ~chain[Current(t)].postable
    /\ Set(t, Idle)
    /\ UNCHANGED <<chain, seen, bootstrapped, channel, unmarked, backlog, missed, faults, raced>>

\* Not worth a post: passed over, and met again by the next tick.
Skip(t) ==
    /\ Posting(t)
    /\ ~chain[Current(t)].postable
    /\ Set(t, Drop(t))
    /\ UNCHANGED <<chain, seen, bootstrapped, channel, unmarked, backlog, missed, faults, raced>>

\* Over the cap of the tick: marked without being posted.
OverCap(t) ==
    /\ Posting(t)
    /\ chain[Current(t)].postable
    /\ ticks[t].posted >= PostCap
    /\ seen' = seen \cup {Current(t)}
    /\ Set(t, Drop(t))
    /\ UNCHANGED <<chain, bootstrapped, channel, unmarked, backlog, missed, faults, raced>>

MaySend(t) ==
    /\ Posting(t)
    /\ chain[Current(t)].postable
    /\ ticks[t].posted < PostCap

Send(t) ==
    /\ MaySend(t)
    /\ channel' = Append(channel, Current(t))
    /\ Set(t, [ticks[t] EXCEPT !.pc = "sent"])
    /\ UNCHANGED <<chain, seen, bootstrapped, unmarked, backlog, missed, faults, raced>>

\* sendPhoto throws: the event stays unseen.
SendFails(t) ==
    /\ MaySend(t) /\ Fault
    /\ Set(t, Drop(t))
    /\ UNCHANGED <<chain, missed, seen, bootstrapped, channel, unmarked, backlog, raced>>

\* It throws although the post went out.
SendAnswerLost(t) ==
    /\ MaySend(t) /\ Fault
    /\ channel' = Append(channel, Current(t))
    /\ unmarked' = unmarked \cup {Current(t)}
    /\ Set(t, Drop(t))
    /\ UNCHANGED <<chain, missed, seen, bootstrapped, backlog, raced>>

\* Mutant: the mark is left to the next tick.
MarkLater(t) ==
    /\ ticks[t].pc = "sent"
    /\ Set(t, [Drop(t) EXCEPT !.pc = "post", !.posted = @ + 1])
    /\ UNCHANGED <<chain, seen, bootstrapped, channel, unmarked, backlog, missed, faults, raced>>

MarkPosted(t) ==
    /\ ticks[t].pc = "sent"
    /\ seen' = seen \cup {Current(t)}
    /\ Set(t, [Drop(t) EXCEPT !.pc = "post", !.posted = @ + 1])
    /\ UNCHANGED <<chain, bootstrapped, channel, unmarked, backlog, missed, faults, raced>>

\* The put throws inside the same try block as the post, and is not counted.
MarkFails(t) ==
    /\ ticks[t].pc = "sent" /\ Fault
    /\ unmarked' = unmarked \cup {Current(t)}
    /\ Set(t, [Drop(t) EXCEPT !.pc = "post"])
    /\ UNCHANGED <<chain, missed, seen, bootstrapped, channel, backlog, raced>>

Finish(t) ==
    /\ ticks[t].pc = "post" /\ ticks[t].todo = {}
    /\ Set(t, Idle)
    /\ UNCHANGED <<chain, seen, bootstrapped, channel, unmarked, backlog, missed, faults, raced>>

\* The worker is cut off.
Crash(t) ==
    /\ ticks[t].pc # "idle" /\ Fault
    /\ unmarked' = IF ticks[t].pc = "sent" THEN unmarked \cup {Current(t)} ELSE unmarked
    /\ Set(t, Idle)
    /\ UNCHANGED <<chain, missed, seen, bootstrapped, channel, backlog, raced>>

\* What a tick does when nothing goes wrong.
Advance(t) ==
    \/ \E k \in Kinds : CollectAll(t, k)
    \/ Decide(t)
    \/ \E e \in Events : MarkSilently(t, e)
    \/ FinishBootstrap(t)
    \/ Skip(t) \/ OverCap(t) \/ Send(t) \/ MarkPosted(t) \/ Finish(t)

Fail(t) ==
    \/ \E k \in Kinds : CollectFails(t, k)
    \/ SendFails(t) \/ SendAnswerLost(t) \/ MarkFails(t) \/ Crash(t)

FeedNext ==
    \/ \E k \in Kinds, b \in BOOLEAN : Emit(k, b)
    \/ \E t \in Ticks : Begin(t) \/ Advance(t) \/ Fail(t)

-----------------------------------------------------------------------------
TimesPosted(e) == Cardinality({i \in DOMAIN channel : channel[i] = e})

\* An event is posted a second time only if a fault struck between its post and
\* its mark, or a tick that had it before it overlapped the next one: not because polls
\* overlap in what they return, nor because sends,
\* queries or whole ticks failed elsewhere (README, "Dedupe lives in the
\* FEED_STATE KV").
RepeatsExplained == \A e \in OnChain : TimesPosted(e) > 1 => e \in unmarked \cup raced

\* The backlog is announced (feed.ts: "only events that appear AFTER this point
\* get announced") only where a query or lookup failed before the bootstrap flag
\* was put, or two ticks overlapped over it: what else was on chain when the
\* bootstrap tick began stays silent.
BacklogExplained ==
    \A e \in backlog : TimesPosted(e) > 0 => e \in missed \cup raced

\* Nothing postable is forgotten while it can be fetched: an event is posted or
\* marked in the end, unless newer ones of its kind pushed it out of the window.
Handled(e) == e \in seen \/ e \notin Newest(chain[e].kind, Window)

EventsHandled ==
    \A e \in Events : (e \in OnChain /\ chain[e].postable) ~> (e \in OnChain /\ Handled(e))
=============================================================================
