------------------------------ MODULE CronTick ------------------------------
(***************************************************************************)
(* scheduled() of examples/cloudflare-agent/src/index.ts: every firing of  *)
(* the cron starts two jobs that run on their own, the event feed and the  *)
(* check for the daily digest.  Both post to one channel and keep their    *)
(* state in FEED_STATE, but under different keys, so that neither can      *)
(* notice the other: a behaviour follows one of them, chosen at the start. *)
(***************************************************************************)
EXTENDS EcosystemFeed, DailyDigest

VARIABLE job   \* the job that is followed

cronVars == <<feedVars, digestVars, job>>

Init == FeedInit /\ DigestInit /\ job \in {"feed", "digest"}

FeedJob(step) == job = "feed" /\ step /\ UNCHANGED <<digestVars, job>>
DigestJob(step) == job = "digest" /\ step /\ UNCHANGED <<feedVars, job>>

Next == FeedJob(FeedNext) \/ DigestJob(DigestNext)

\* The cron keeps firing, and a tick that is not cut off runs to its end.
Fairness ==
    \A t \in Ticks : /\ WF_cronVars(FeedJob(Begin(t)))
                     /\ WF_cronVars(FeedJob(Advance(t)))

FairSpec == Init /\ [][Next]_cronVars /\ Fairness
=============================================================================
