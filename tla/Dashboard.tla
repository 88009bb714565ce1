----------------------------- MODULE Dashboard -----------------------------
(***************************************************************************)
(* The dashboard: the server's cache of reads, the pages rendered from     *)
(* them, and the trade form in the browser.  The three meet in what they   *)
(* promise - a page relies on the age of an answer (AgeLimit, MaxAge), a   *)
(* form on nothing but the chain's own checks - so each is run against its *)
(* own neighbours, one of them in a behaviour.                             *)
(***************************************************************************)
EXTENDS RpcCache, AgentPage, TradeForm

VARIABLE subject   \* the part that runs

dashboardVars == <<cacheVars, pageVars, tradeVars, subject>>

Init ==
    /\ subject \in {"cache", "page", "form"}
    /\ CacheInit /\ PageInit /\ FormInit
    /\ subject # "page" => view = "agent" /\ skew = CHOOSE k \in Skews : TRUE

CacheRuns == subject = "cache" /\ CacheNext /\ UNCHANGED <<pageVars, tradeVars, subject>>
PageRuns == subject = "page" /\ PageNext /\ UNCHANGED <<cacheVars, tradeVars, subject>>
FormRuns == subject = "form" /\ TradeNext /\ UNCHANGED <<cacheVars, pageVars, subject>>

Next == CacheRuns \/ PageRuns \/ FormRuns

Spec == Init /\ [][Next]_dashboardVars
=============================================================================
