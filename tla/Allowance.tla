----------------------------- MODULE Allowance -----------------------------
(***************************************************************************)
(* What the agent treasury promises its owner about the operators, without *)
(* counters, rollovers, balances or allowlists: whoever holds an allowance *)
(* takes out on each day no more of each kind of coin than he was granted  *)
(* for a day, what he was granted is never changed, yesterday cannot be    *)
(* made up for, and an allowance that is over is over for good.            *)
(***************************************************************************)
EXTENDS Integers

CONSTANTS Holders, Kinds, Days

VARIABLES
    standing,  \* of each holder: "none", "live" or "over"
    limit,     \* what a holder may take of a kind in a day
    taken,     \* what he took on each day
    day        \* today

allowanceVars == <<standing, limit, taken, day>>

Init ==
    /\ standing = [h \in Holders |-> "none"]
    /\ limit \in [Holders -> [Kinds -> Nat]]
    /\ taken = [h \in Holders |-> [d \in Days |-> [k \in Kinds |-> 0]]]
    /\ day \in Days

Grant(h) ==
    /\ standing[h] = "none"
    /\ standing' = [standing EXCEPT ![h] = "live"]
    /\ limit' = [limit EXCEPT ![h] = limit'[h]]
    /\ limit'[h] \in [Kinds -> Nat]
    /\ UNCHANGED <<taken, day>>

TakeOut(h, k) ==
    /\ standing[h] = "live"
    /\ taken' = [taken EXCEPT ![h][day][k] = taken'[h][day][k]]
    /\ taken'[h][day][k] \in taken[h][day][k] .. limit[h][k]
    /\ UNCHANGED <<standing, limit, day>>

Revoke(h) ==
    /\ standing[h] = "live"
    /\ standing' = [standing EXCEPT ![h] = "over"]
    /\ UNCHANGED <<limit, taken, day>>

\* Days go by, and some allowances run out.
TimePasses ==
    /\ day' \in Days /\ day' >= day
    /\ \A h \in Holders : standing'[h] = "over" => standing[h] \in {"live", "over"}
    /\ standing' = [h \in Holders |-> IF standing'[h] = "over" THEN "over" ELSE standing[h]]
    /\ UNCHANGED <<limit, taken>>

Next ==
    \/ \E h \in Holders : Grant(h) \/ Revoke(h)
    \/ \E h \in Holders, k \in Kinds : TakeOut(h, k)
    \/ TimePasses

Spec == Init /\ [][Next]_allowanceVars
=============================================================================
