--------------------------- MODULE MCOrderClients ---------------------------
(* A small instance of OrderClients for TLC. *)
EXTENDS OrderClients

CONSTANTS maker, buyer

MCShares == [nav |-> 2, creator |-> 1, rest |-> 1]
MCSui == [a \in Addr |-> IF a = buyer THEN 2 ELSE 0]
MCSkews == -1 .. 1
NoChoices == {}
=============================================================================
