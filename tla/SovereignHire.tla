--------------------------- MODULE SovereignHire ---------------------------
(***************************************************************************)
(* /hire of examples/sovereign-agent/src/index.ts.  It verifies first,     *)
(* then claims the digest, then answers, and never gives a claim up: a     *)
(* request that fails after its claim has used the payment.                *)
(***************************************************************************)
EXTENDS PaymentGate

Verify(r) ==
    /\ Valid(Digest(r), Floor[requests[r].route])
    /\ Goto(r, "looked", "verified")
    /\ UNCHANGED <<now, payments, claims, served, contended>>

\* The payment does not check out, or the RPC node does not answer.
VerifyFails(r) ==
    /\ Goto(r, "looked", "rejected")
    /\ UNCHANGED <<now, payments, claims, served, contended>>

Claim(r) ==
    /\ Goto(r, "verified", "claimed")
    /\ PutClaim(r)
    /\ UNCHANGED <<now, payments, served, contended>>

\* The put throws: status 500.
ClaimFails(r) ==
    /\ Goto(r, "verified", "lost")
    /\ UNCHANGED <<now, payments, claims, served, contended>>

\* Mutant: the answer does not wait for the claim.
AnswerUnclaimed(r) ==
    /\ Pc(r) \in {"verified", "claimed"}
    /\ Goto(r, Pc(r), "answered")
    /\ served' = served \cup {r}
    /\ UNCHANGED <<now, payments, claims, contended>>

Answer(r) ==
    /\ Goto(r, "claimed", "answered")
    /\ served' = served \cup {r}
    /\ UNCHANGED <<now, payments, claims, contended>>

\* The model gives no answer: status 500, and the claim stays.
AnswerFails(r) ==
    /\ Goto(r, "claimed", "lost")
    /\ UNCHANGED <<now, payments, claims, served, contended>>

Handle(r) ==
    \/ Verify(r) \/ VerifyFails(r)
    \/ Claim(r) \/ ClaimFails(r)
    \/ Answer(r) \/ AnswerFails(r)

Next == GateStep({"hire"}) \/ \E r \in Requests : Handle(r)

Spec == GateInit /\ [][Next]_gateVars
=============================================================================
