---------------------------- MODULE MCLaunchpad ----------------------------
(* Small instances of Launchpad for TLC. *)
EXTENDS Launchpad

CONSTANTS admin, maker, trader, dw

Shares(n, c, r) == [nav |-> n, creator |-> c, rest |-> r]

MCTradeShares == Shares(2, 1, 1)
MCServiceShares == Shares(1, 2, 1)
MCTokenShares == Shares(1, 1, 2)
NoChoices == {}
MCShareChoices == {Shares(2, 2, 0), Shares(0, 2, 2), Shares(2, 2, 1)}
MCTradingSui == [a \in Addr |-> IF a = trader THEN 6 ELSE 1]
MCAdminSui == [a \in Addr |-> IF a = maker THEN 1 ELSE 0]
=============================================================================
