-------------------------- MODULE MCPaidEndpoints --------------------------
(* Small instances of the paid endpoints and the form in front of them for TLC. *)
EXTENDS CommandForm, TLC

\* /promote has the higher floor.
MCFloor == [route \in Routes |-> IF route = "hire" THEN 4 ELSE 5]

RequestSymmetry == Permutations(Requests)
=============================================================================
