--------------------------- MODULE MCAgentTreasury ---------------------------
(* A small instance of AgentTreasury for TLC.  Caps are interchangeable: no  *)
(* definition names one, so permuting them is a symmetry.                    *)
EXTENDS AgentTreasury, TLC

CapSymmetry == Permutations(CapIds)
=============================================================================
