---------------------------- MODULE MCWorkOrder ----------------------------
(* Small instances of WorkOrder for TLC. *)
EXTENDS WorkOrder

CONSTANTS admin, maker, trader, dw

Shares(n, c, r) == [nav |-> n, creator |-> c, rest |-> r]

MCTradeShares == Shares(2, 1, 1)
MCServiceShares == Shares(1, 2, 1)
MCTokenShares == Shares(1, 1, 2)
NoChoices == {}
MCOrderSui == [a \in Addr |-> IF a = admin THEN 0 ELSE 4]
=============================================================================
