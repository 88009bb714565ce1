----------------------------- MODULE AgentPage -----------------------------
(***************************************************************************)
(* What the dashboard's server reads for its live pages, an agent's page,  *)
(* the directory and the network page (app/src/lib/tai.ts and the three    *)
(* page.tsx), and what the browser then shows.  The chain is a log of      *)
(* events; a read answers with the log as of some instant of the last      *)
(* MaxAge, which is what the RPC cache promises, or fails.  The reads of   *)
(* one render are independent of each other, so a page may show several    *)
(* instants at once.                                                       *)
(*                                                                         *)
(* Every event of the log moves one unit.  One package lineage is          *)
(* modelled: an agent's events are all of the types of its own, and a      *)
(* query of another lineage that fails takes nothing away.                 *)
(***************************************************************************)
EXTENDS Standing, Sequences

CONSTANTS
    Agents, Known,     \* and KNOWN_AGENTS, which are always looked up
    Shown,             \* the agent whose page is open
    Payers, Creator,
    CredTarget,
    Limit,             \* newest events of a type an agent's page asks for
    OrderLimit,        \* newest work orders
    RecentLimit,       \* of which the directory shows
    LaunchLimit,       \* newest launches
    MaxAge,            \* AgeLimit of RpcCache
    LoadLimit,         \* the longest a render takes
    RefreshEvery,      \* intervalMs of AutoRefresh
    StaleAfter,        \* staleAfterMs of LivePulse
    Skews,             \* by how much the browser's clock may be off
    MaxEvents, LastTime \* bounds

ASSUME PageAssumption ==
    /\ Shown \in Agents /\ Known \subseteq Agents /\ Creator \in Payers
    /\ {CredTarget, LoadLimit, RefreshEvery, StaleAfter} \subseteq Nat
    /\ Skews \subseteq Int
    /\ {MaxEvents, LastTime} \subseteq Nat
    /\ {MaxAge, Limit, OrderLimit, LaunchLimit, RecentLimit} \subseteq Nat \ {0}

VARIABLES
    time,   \* of the chain and of the server
    skew,   \* what the browser's clock is ahead of it by
    log,    \* the events on chain, oldest first
    view,   \* "agent", "directory" or "network"
    load,   \* when the render in progress was begun
    page    \* what is on the screen

pageVars == <<time, skew, log, view, load, page>>

Kinds == {"launch", "trade", "service", "order"}
Ids == 1 .. Len(log)

\* No render is in progress.  A read answers as of an instant, or it fails, or
\* what it looks for is not on chain.
Idle == -1
Failed == -2
Absent == -3
Read(answer) == answer >= 0

Nothing == [kind |-> "none"]

PageInit ==
    /\ time = 0 /\ skew \in Skews
    /\ log = <<>>
    /\ view \in {"agent", "directory", "network"}
    /\ load = Idle
    /\ page = Nothing

-----------------------------------------------------------------------------
(* The chain, and what a query makes of it. *)

OfKind(kind, t) == {e \in Ids : log[e].kind = kind /\ log[e].at <= t}

LaunchedBy(a, t) == \E e \in OfKind("launch", t) : log[e].agent = a

\* Mutant: the page is asked for oldest first.
OldestOfKind(kind, n, t) ==
    {e \in OfKind(kind, t) : Cardinality({f \in OfKind(kind, t) : f < e}) < n}

\* queryEvents, newest first: of all agents together.
NewestOfKind(kind, n, t) ==
    {e \in OfKind(kind, t) : Cardinality({f \in OfKind(kind, t) : f > e}) < n}

Of(a, events) == {e \in events : log[e].agent = a}

Emit(kind, a, payer) ==
    /\ Len(log) < MaxEvents
    /\ kind = "launch" <=> ~LaunchedBy(a, time)
    /\ kind # "service" => payer = Creator   \* nobody asks
    /\ log' = Append(log, [kind |-> kind, agent |-> a, payer |-> payer, at |-> time])
    /\ UNCHANGED <<time, skew, view, load, page>>

\* Paid in SUI by somebody else than the creator: countedTowardCred.
Counted(e) == log[e].kind = "service" /\ log[e].payer # Creator

Payment(e) == [id |-> e, payer |-> log[e].payer, amount |-> 1, at |-> log[e].at]

\* The numbers of an account as of t.
Nav(a, t) == Cardinality(Of(a, OfKind("service", t)))
Revenue(a, t) == {e \in Of(a, OfKind("service", t)) : Counted(e)}
Pooled(a, t) == Cardinality(Of(a, OfKind("trade", t)))

StandingOf(a, t) ==
    ComputeStanding(Nav(a, t), Multiplier(Cardinality(Revenue(a, t)), CredTarget),
                    Pooled(a, t))

-----------------------------------------------------------------------------
(* The server.  A render reads the chain part by part; as the log tells when *)
(* everything happened, the instants of the reads are chosen when it is done. *)

\* A visit, AutoRefresh of the page on the screen, or "retry" on the page that
\* reports an error; the page that says "not found" has neither.
Begin ==
    /\ load = Idle
    /\ page.kind # "notFound"
    /\ page.kind \notin {"none", "error"} => time - page.since >= RefreshEvery
    /\ load' = time
    /\ UNCHANGED <<time, skew, log, view, page>>

\* An answer shows the chain at most MaxAge before it was asked for.
AsOf == {t \in load - MaxAge .. time : t >= 0}
Answers == AsOf \cup {Failed}

\* fetchLaunchpadAccount: the object must exist, and a node must answer.
AccountRead(a, t) == IF t \in AsOf /\ ~LaunchedBy(a, t) THEN Absent ELSE t

Show(content) ==
    /\ page' = content
    /\ load' = Idle
    /\ UNCHANGED <<time, skew, log, view>>

\* fetchAgentSnapshot: the account; then the treasury and the config, which must
\* answer, the display, which need not, and the events, whose two queries fail
\* together and leave the tape empty.  It is stamped when all of it is there.
\* Meanwhile the work orders of the chain were listed, and each that is the
\* agent's was read; one that cannot be is left out.
ShowAgent ==
    /\ view = "agent" /\ load # Idle
    /\ \E account, tape, orders \in Answers, stamp \in AsOf :
        \E lost \in SUBSET Of(Shown, NewestOfKind("order", OrderLimit, orders)) :
            /\ Read(AccountRead(Shown, account))
            /\ \A t \in {load, account, tape} : stamp >= t
            /\ Show([kind |-> "agent", since |-> load, stamp |-> stamp,
                     account |-> account, tape |-> tape, orders |-> orders, lost |-> lost])

\* notFound: the account is not read, or the treasury or the config is not.
ShowNotFound ==
    /\ view = "agent" /\ load # Idle
    /\ \E account \in Answers, incomplete \in BOOLEAN :
            /\ incomplete \/ ~Read(AccountRead(Shown, account))
            /\ Show([kind |-> "notFound", since |-> load, incomplete |-> incomplete,
                     account |-> AccountRead(Shown, account)])

\* The network page: a config, the snapshot of one agent and the launches.  Only
\* the launches need not answer; without the rest the page is that of an error.
ShowNetwork ==
    /\ view = "network" /\ load # Idle
    /\ \E account, launches \in Answers, stamp \in AsOf :
            /\ Read(AccountRead(Shown, account))
            /\ \A t \in {load, account, launches} : stamp >= t
            /\ Show([kind |-> "network", since |-> load, stamp |-> stamp,
                     account |-> account, launches |-> launches])

ShowError ==
    /\ view = "network" /\ load # Idle
    /\ Show([kind |-> "error", since |-> load])

\* loadRows: the launches, and then every agent known or found, each on its own.
Found(launches) ==
    Known \cup {a \in Agents : Of(a, NewestOfKind("launch", LaunchLimit, launches)) # {}}

\* Then the latest work orders of all agents.
ShowDirectory ==
    /\ view = "directory" /\ load # Idle
    /\ \E launches, recent \in Answers :
        \E answers \in [Found(launches) -> Answers] :
            Show([kind |-> "directory", since |-> load, launches |-> launches,
                  row |-> [a \in Found(launches) |-> AccountRead(a, answers[a])],
                  recent |-> recent])

\* The browser loses the refresh and keeps the page it has.
RefreshLost ==
    /\ load # Idle
    /\ load' = Idle
    /\ UNCHANGED <<time, skew, log, view, page>>

PageTick ==
    /\ time < LastTime
    /\ load # Idle => time - load < LoadLimit
    /\ time' = time + 1
    /\ UNCHANGED <<skew, log, view, load, page>>

PageNext ==
    \/ \E kind \in Kinds, a \in Agents, payer \in Payers : Emit(kind, a, payer)
    \/ Begin \/ RefreshLost \/ PageTick
    \/ ShowAgent \/ ShowNotFound \/ ShowDirectory \/ ShowNetwork \/ ShowError

-----------------------------------------------------------------------------
(* What is on the screen. *)

\* The activity tape.
Tape == IF Read(page.tape) THEN Of(Shown, NewestOfKind("trade", Limit, page.tape)
                                          \cup NewestOfKind("service", Limit, page.tape))
        ELSE {}

\* Mutant: every payment counts.
PaidOnTape == {Payment(e) : e \in {e \in Tape : log[e].kind = "service"}}

CountedOnTape == {Payment(e) : e \in {e \in Tape : Counted(e)}}

\* What a query of all agents finds: nothing, when it fails.
FoundAsOf(kind, n, answer) == IF Read(answer) THEN NewestOfKind(kind, n, answer) ELSE {}

\* The agent's work orders.
OrdersListed == Of(Shown, FoundAsOf("order", OrderLimit, page.orders)) \ page.lost

\* The directory's "recent hires".
RecentHires == FoundAsOf("order", RecentLimit, page.recent)

\* The rows of the directory, best standing first.
Rows == {a \in DOMAIN page.row : Read(page.row[a])}

Above(a, b) == StandingOf(a, page.row[a]) > StandingOf(b, page.row[b])

\* Mutant: the age is taken once, from the instants of the render.
LiveAtMount == page.since + skew - page.stamp <= StaleAfter

\* LivePulse counts the age every second: its own clock less the server's stamp.
Live == time + skew - page.stamp <= StaleAfter

-----------------------------------------------------------------------------
(* What was on chain so early that every read of the page must have seen it. *)
Early(e) == log[e].at <= page.since - MaxAge

PushedOut(e, n) ==
    Cardinality({f \in Ids : f > e /\ log[f].kind = log[e].kind}) >= n

\* a had a better standing than b for as long as the page may have looked.
Outranks(a, b) ==
    \A t, u \in page.since - MaxAge .. time :
        t >= 0 /\ u >= 0 => StandingOf(a, t) > StandingOf(b, u)

\* Nothing of an agent that is on chain is missing from the page without a reason:
\* a read failed, newer events of other agents or its own pushed it out of the
\* query, or it is younger than the cache.  No agent is declared missing, left out
\* of the directory, or ranked below one it outranked all the while, for another
\* reason either.
ListingsExplained ==
    /\ page.kind = "notFound" /\ page.account # Failed /\ ~page.incomplete =>
            \A e \in Of(Shown, OfKind("launch", time)) : ~Early(e)
    /\ page.kind = "agent" =>
            \A e \in Of(Shown, Ids) : Early(e) =>
                /\ log[e].kind \in {"trade", "service"} =>
                        e \in Tape \/ page.tape = Failed \/ PushedOut(e, Limit)
                /\ log[e].kind = "order" =>
                        \/ e \in OrdersListed \cup page.lost
                        \/ page.orders = Failed \/ PushedOut(e, OrderLimit)
    /\ page.kind = "directory" =>
        /\ \A e \in OfKind("launch", time) : Early(e) =>
                LET a == log[e].agent
                IN  \/ a \in Rows
                    \/ a \in DOMAIN page.row /\ page.row[a] = Failed
                    \/ /\ a \notin Known
                       /\ page.launches = Failed \/ PushedOut(e, LaunchLimit)
        /\ \A e \in OfKind("order", time) : Early(e) =>
                \/ e \in RecentHires
                \/ page.recent = Failed \/ PushedOut(e, RecentLimit)
        /\ \A a, b \in Rows : Outranks(a, b) => Above(a, b)
    /\ page.kind = "network" =>
            \A e \in OfKind("launch", time) : Early(e) =>
                \/ e \in FoundAsOf("launch", LaunchLimit, page.launches)
                \/ page.launches = Failed \/ PushedOut(e, LaunchLimit)

\* The caution "from a single payer" is on the page exactly when the counted
\* revenue has one payer, unless a payment is missing from the tape or was made
\* after the page was read.  Payments of the creator never raise or quell it.
CautionExplained ==
    page.kind = "agent" =>
        LET before == Revenue(Shown, page.since - MaxAge)
            ever   == Revenue(Shown, time)
            Sources(events) == Cardinality({log[e].payer : e \in events})
        IN  /\ SingleSource(CountedOnTape) /\ before \subseteq Tape =>
                    Sources(before) <= 1 /\ ever # {}
            /\ ~SingleSource(CountedOnTape) /\ before \subseteq Tape =>
                    Sources(before) # 1 \/ Sources(ever) > 1

\* A page that calls itself live shows nothing older than its stamp may be, one
\* render, and one lifetime of the cache: its numbers and its tape alike.  A
\* browser whose clock is behind calls it live for that much longer.
LiveMeansRecent ==
    page.kind \in {"agent", "network"} /\ Live =>
        \A answer \in {page.account} \cup
                       (IF page.kind = "agent" THEN {page.tape} ELSE {page.launches}) :
            Read(answer) => time - answer <= StaleAfter + LoadLimit + MaxAge - skew
=============================================================================
