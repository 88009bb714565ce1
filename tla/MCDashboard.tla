---------------------------- MODULE MCDashboard ----------------------------
(* A small instance of Dashboard for TLC. *)
EXTENDS Dashboard, TLC

CONSTANTS maker, trader

\* The fallback endpoint is behind the primary one.
MCLag == [n \in 1 .. NodeCount |-> (n - 1) * MaxLag]

MCShares == [nav |-> 2, creator |-> 1, rest |-> 1]
MCSui == [a \in Addr |-> IF a = trader THEN 4 ELSE 1]
MCSkews == {-1, 1}
NoChoices == {}

Symmetry == Permutations(Payers \ {Creator}) \cup Permutations(Readers)
=============================================================================
