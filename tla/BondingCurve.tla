---------------------------- MODULE BondingCurve ----------------------------
(***************************************************************************)
(* The pure curve arithmetic of move/sources/bonding_curve.move.  The      *)
(* pool pairs real balances with virtual reserves and keeps their product  *)
(* from falling.  Intermediate products are u128 in the code, so they do   *)
(* not overflow; the one assertion that can abort a trade is reported as   *)
(* the field ok.  Basis points are scaled: BpsDenominator stands for the   *)
(* code's 10_000.                                                          *)
(***************************************************************************)
EXTENDS Integers

CONSTANT BpsDenominator

ASSUME BpsAssumption == BpsDenominator \in Nat \ {0}

\* Mutant: the curve rounds down.
FloorDiv(a, b) == a \div b

\* Mutant: the curve always keeps one unit, whether or not there is a remainder.
AlwaysOneOver(a, b) == a \div b + 1

CeilDiv(a, b) == (a + b - 1) \div b

FeeOn(amount, feeBps) == (amount * feeBps) \div BpsDenominator

\* Tokens bought by suiIn, whose fee is taken off the top.
ComputeBuy(realSui, realToken, virtualSui, virtualToken, suiIn, feeBps) ==
    LET fee        == FeeOn(suiIn, feeBps)
        totalSui   == realSui + virtualSui
        totalToken == realToken + virtualToken
        out        == totalToken - CeilDiv(totalSui * totalToken,
                                           totalSui + (suiIn - fee))
    IN  IF suiIn = 0 THEN [out |-> 0, fee |-> 0, ok |-> TRUE]
                     ELSE [out |-> out, fee |-> fee, ok |-> out <= realToken]

\* SUI released by tokensIn, before the fee.
SellGross(realSui, realToken, virtualSui, virtualToken, tokensIn) ==
    LET totalSui   == realSui + virtualSui
        totalToken == realToken + virtualToken
    IN  totalSui - CeilDiv(totalSui * totalToken, totalToken + tokensIn)

\* SUI paid for tokensIn; the fee is taken off the gross amount.
ComputeSell(realSui, realToken, virtualSui, virtualToken, tokensIn, feeBps) ==
    LET gross == SellGross(realSui, realToken, virtualSui, virtualToken, tokensIn)
        fee   == FeeOn(gross, feeBps)
    IN  IF tokensIn = 0 THEN [out |-> 0, fee |-> 0, ok |-> TRUE]
                        ELSE [out |-> gross - fee, fee |-> fee,
                              ok |-> gross <= realSui]
=============================================================================
