--------------------------- MODULE PaidEndpoints ---------------------------
(***************************************************************************)
(* The paid endpoints of the two example agents.  Each worker sees only    *)
(* the payments to its own launchpad and has a KV namespace of its own, so *)
(* one of them is deployed in a behaviour, chosen at the start.            *)
(***************************************************************************)
EXTENDS PaymentGate

VARIABLE worker

endpointVars == <<gateVars, worker>>

Larry == INSTANCE LarryHire
Sovereign == INSTANCE SovereignHire

Init == GateInit /\ worker \in {"larry", "sovereign"}

Next ==
    \/ worker = "larry" /\ Larry!Next /\ UNCHANGED worker
    \/ worker = "sovereign" /\ Sovereign!Next /\ UNCHANGED worker

-----------------------------------------------------------------------------
\* A payment that funded work stays claimed for the whole claim period (README of
\* the Cloudflare agent: "store tx digest in KV for 7 days"), so whoever comes
\* later is refused.  Of the sovereign agent this holds however requests
\* interleave; Larry's failing requests may delete the claim of a contender.
ServedStaysClaimed ==
    \A r \in served :
        now < requests[r].startedAt + ClaimTtl =>
            Claimed(Digest(r)) \/ (worker = "larry" /\ Digest(r) \in contended)

\* The README of the Cloudflare agent: "Each payment receipt is single-use".
SingleUse ==
    worker = "larry" => \A r, s \in served : Digest(r) = Digest(s) => r = s
=============================================================================
