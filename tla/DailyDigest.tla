---------------------------- MODULE DailyDigest ----------------------------
(***************************************************************************)
(* The daily digest of examples/cloudflare-agent (maybePostDailyDigest in  *)
(* index.ts, postDailyDigest in feed.ts).  Each cron tick reads the key    *)
(* last_digest_date, posts a digest if it does not name today, and then    *)
(* writes the day it read at its start.  The key's time to live, two days, *)
(* outlasts the day it names, so its expiry is left out.                   *)
(***************************************************************************)
EXTENDS Integers

CONSTANTS
    Rounds,     \* ticks that may run at one time (a bound)
    LastDay,    \* the last day of a behaviour (a bound)
    MaxDigestFaults \* faults ever injected (a bound)

ASSUME DigestAssumption == LastDay \in Nat \ {0} /\ MaxDigestFaults \in Nat

VARIABLES
    day,          \* the current UTC day, from 1
    lastDigest,   \* the key last_digest_date; 0 when there is none
    rounds,       \* the ticks running
    digests,      \* history: digests that carry each day's date
    ticked,       \* history: days on which a tick began
    faulty,       \* history: days on which a fault struck
    crossed,      \* history: days whose midnight a running tick passed
    overlapped,   \* history: days on which a tick began while another was running
    abandoned,    \* history: days whose last tick was cut short, by a fault or midnight
    digestFaults

digestVars == <<day, lastDigest, rounds, digests, ticked, faulty, crossed, overlapped,
                abandoned, digestFaults>>

Days == 1 .. LastDay

DigestInit ==
    /\ day = 1
    /\ lastDigest = 0
    /\ rounds = [t \in Rounds |-> [pc |-> "idle", today |-> 1]]
    /\ digests = [d \in Days |-> 0]
    /\ ticked = {} /\ faulty = {} /\ crossed = {} /\ overlapped = {} /\ abandoned = {}
    /\ digestFaults = 0

Running == {t \in Rounds : rounds[t].pc # "idle"}

Goto(t, from, pc) == rounds[t].pc = from /\ rounds' = [rounds EXCEPT ![t].pc = pc]

\* Mutant: the key is written before the post.
ReadAndMark(t) ==
    /\ rounds[t].pc = "idle"
    /\ rounds' = [rounds EXCEPT ![t] =
            [pc |-> IF lastDigest = day THEN "idle" ELSE "due", today |-> day]]
    /\ lastDigest' = day
    /\ ticked' = ticked \cup {day}
    /\ overlapped' = IF Running \ {t} # {} THEN overlapped \cup {day} ELSE overlapped
    /\ abandoned' = abandoned \ {day}
    /\ UNCHANGED <<day, digests, faulty, crossed, digestFaults>>

Read(t) ==
    /\ rounds[t].pc = "idle"
    /\ rounds' = [rounds EXCEPT ![t] =
            [pc |-> IF lastDigest = day THEN "idle" ELSE "due", today |-> day]]
    /\ ticked' = ticked \cup {day}
    /\ overlapped' = IF Running \ {t} # {} THEN overlapped \cup {day} ELSE overlapped
    /\ abandoned' = abandoned \ {day}
    /\ UNCHANGED <<day, lastDigest, digests, faulty, crossed, digestFaults>>

\* Headed with the date at the time it is built; what it counts is left out.
BuildDigest == [d \in Days |-> IF d = day THEN 1 ELSE 0]

Post(t) ==
    /\ Goto(t, "due", "posted")
    /\ digests' = [d \in Days |-> digests[d] + BuildDigest[d]]
    /\ UNCHANGED <<day, lastDigest, ticked, faulty, crossed, digestFaults, overlapped, abandoned>>

\* Mutant: the key is not written.
LeaveUnmarked(t) ==
    /\ Goto(t, "posted", "idle")
    /\ UNCHANGED <<day, lastDigest, digests, ticked, faulty, crossed, digestFaults,
                   overlapped, abandoned>>

Mark(t) ==
    /\ Goto(t, "posted", "idle")
    /\ lastDigest' = rounds[t].today
    /\ UNCHANGED <<day, digests, ticked, faulty, crossed, digestFaults, overlapped, abandoned>>

\* A query for the post or the put throws, which is caught, or the tick is cut
\* off: it ends where it is.
RoundFails(t) ==
    /\ rounds[t].pc # "idle"
    /\ digestFaults < MaxDigestFaults
    /\ digestFaults' = digestFaults + 1
    /\ faulty' = faulty \cup {day}
    /\ abandoned' = abandoned \cup {rounds[t].today}
    /\ Goto(t, rounds[t].pc, "idle")
    /\ UNCHANGED <<day, lastDigest, digests, ticked, crossed, overlapped>>

\* Some tick of the day has begun when it ends; one may still be running.
Midnight ==
    /\ day < LastDay
    /\ day \in ticked
    /\ day' = day + 1
    /\ crossed' = IF Running # {}
                  THEN crossed \cup {day, day + 1} ELSE crossed
    /\ abandoned' = abandoned \cup {rounds[t].today : t \in Running}
    /\ UNCHANGED <<lastDigest, rounds, digests, ticked, faulty, digestFaults, overlapped>>

DigestNext ==
    \/ \E t \in Rounds : Read(t) \/ Post(t) \/ Mark(t) \/ RoundFails(t)
    \/ Midnight

-----------------------------------------------------------------------------
\* One digest a day (README: "the once-per-UTC-day 24h digest"): two digests
\* carry one date only if a fault struck that day, a tick ran across one of its
\* midnights, or two ticks of the day overlapped.
DigestsExplained ==
    \A d \in Days : digests[d] > 1 => d \in faulty \cup crossed \cup overlapped

\* No day passes without its digest unless the last tick begun on it was cut off,
\* failed, or was still running when it ended: each tick tries again what those
\* before it left undone.
EveryDayCovered ==
    \A d \in Days : d < day => digests[d] > 0 \/ d \in abandoned
=============================================================================
