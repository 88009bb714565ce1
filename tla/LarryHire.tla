----------------------------- MODULE LarryHire -----------------------------
(***************************************************************************)
(* The paid endpoints of examples/cloudflare-agent/src/index.ts: /hire,    *)
(* which answers a command, and /promote, which posts to the channel.      *)
(* Both claim the digest before they verify it, and give the claim up      *)
(* again when they fail - /promote only while it has not tried to post.    *)
(***************************************************************************)
EXTENDS PaymentGate

Claim(r) ==
    /\ Goto(r, "looked", "claimed")
    /\ PutClaim(r)
    /\ UNCHANGED <<now, payments, served, contended>>

\* The put throws: status 500.
ClaimFails(r) ==
    /\ Goto(r, "looked", "lost")
    /\ UNCHANGED <<now, payments, claims, served, contended>>

\* Mutant: /promote is verified against the floor of /hire.
VerifyHireFloor(r) ==
    /\ Valid(Digest(r), Floor["hire"])
    /\ Goto(r, "claimed", "verified")
    /\ UNCHANGED <<now, payments, claims, served, contended>>

Verify(r) ==
    /\ Valid(Digest(r), Floor[requests[r].route])
    /\ Goto(r, "claimed", "verified")
    /\ UNCHANGED <<now, payments, claims, served, contended>>

\* The payment does not check out, or the RPC node does not answer.
VerifyFails(r) ==
    /\ Goto(r, "claimed", "failing")
    /\ UNCHANGED <<now, payments, claims, served, contended>>

Answer(r) ==
    /\ requests[r].route = "hire"
    /\ Goto(r, "verified", "answered")
    /\ served' = served \cup {r}
    /\ UNCHANGED <<now, payments, claims, contended>>

\* Mutant: the failed command is reported at once.
CommandFailsAtOnce(r) ==
    /\ requests[r].route = "hire"
    /\ Goto(r, "verified", "rejected")
    /\ UNCHANGED <<now, payments, claims, served, contended>>

\* dispatchCommand throws: an unknown command, or the model gave no answer.
CommandFails(r) ==
    /\ requests[r].route = "hire"
    /\ Goto(r, "verified", "failing")
    /\ UNCHANGED <<now, payments, claims, served, contended>>

Post(r) ==
    /\ requests[r].route = "promote"
    /\ Goto(r, "verified", "answered")
    /\ served' = served \cup {r}
    /\ UNCHANGED <<now, payments, claims, contended>>

\* sendPhoto throws.  The post may have reached the channel all the same; the
\* claim is kept.
PostFails(r) ==
    /\ requests[r].route = "promote"
    /\ Goto(r, "verified", "lost")
    /\ served' \in {served, served \cup {r}}
    /\ UNCHANGED <<now, payments, claims, contended>>

Unclaim(r) ==
    /\ Goto(r, "failing", "rejected")
    /\ claims' = [claims EXCEPT ![Digest(r)] = 0]
    /\ UNCHANGED <<now, payments, served, contended>>

\* The delete is best-effort.
UnclaimFails(r) ==
    /\ Goto(r, "failing", "lost")
    /\ UNCHANGED <<now, payments, claims, served, contended>>

Handle(r) ==
    \/ Claim(r) \/ ClaimFails(r)
    \/ Verify(r) \/ VerifyFails(r)
    \/ Answer(r) \/ CommandFails(r)
    \/ Post(r) \/ PostFails(r)
    \/ Unclaim(r) \/ UnclaimFails(r)

Next == GateStep(Routes) \/ \E r \in Requests : Handle(r)

Spec == GateInit /\ [][Next]_gateVars
=============================================================================
