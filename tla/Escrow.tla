------------------------------- MODULE Escrow -------------------------------
(***************************************************************************)
(* What the work-order escrow promises, without accounts, caps, clocks or  *)
(* versions: money is put into an order once, leaves it once and whole,    *)
(* goes to the payee only after delivery was claimed, and returns to the   *)
(* buyer only while nothing was delivered or after the buyer contested.    *)
(***************************************************************************)
EXTENDS Integers

CONSTANT Orders

VARIABLES
    phase,   \* of each order
    pot      \* the money each order holds

escrowVars == <<phase, pot>>

Phases == {"absent", "held", "delivered", "contested", "paid", "returned"}

Init ==
    /\ phase = [o \in Orders |-> "absent"]
    /\ pot = [o \in Orders |-> 0]

Move(o, from, to) ==
    /\ phase[o] \in from
    /\ phase' = [phase EXCEPT ![o] = to]

Fund(o) ==
    /\ Move(o, {"absent"}, "held")
    /\ pot' = [pot EXCEPT ![o] = pot'[o]]
    /\ pot'[o] \in Nat \ {0}

Deliver(o) == Move(o, {"held"}, "delivered") /\ UNCHANGED pot

Contest(o) == Move(o, {"delivered"}, "contested") /\ UNCHANGED pot

Pay(o) ==
    /\ Move(o, {"delivered", "contested"}, "paid")
    /\ pot' = [pot EXCEPT ![o] = 0]

Return(o) ==
    /\ Move(o, {"held", "contested"}, "returned")
    /\ pot' = [pot EXCEPT ![o] = 0]

Next == \E o \in Orders : Fund(o) \/ Deliver(o) \/ Contest(o) \/ Pay(o) \/ Return(o)

Spec == Init /\ [][Next]_escrowVars
=============================================================================
