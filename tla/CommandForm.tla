---------------------------- MODULE CommandForm ----------------------------
(***************************************************************************)
(* "Pay & run" of the dashboard (app/src/components/CommandRunner.tsx) in  *)
(* front of the agents' paid endpoints: the form pings the agent, has the  *)
(* wallet pay, and posts the digest to /hire - once.  It knows nothing of  *)
(* the floor the agent asks for, nor whether the payer is its creator, and *)
(* nothing repeats the post.  The form is set up for Larry only.           *)
(***************************************************************************)
EXTENDS PaidEndpoints

CONSTANTS
    HirePrices,  \* prices of a command: hirePriceMist, or what the user types
    Grain,       \* the price field shows four decimals, of nine
    NoRequest

ASSUME HireAssumption ==
    /\ HirePrices \subseteq Nat /\ Grain \in Nat \ {0}
    /\ NoRequest \notin Requests

VARIABLES
    runner,   \* the form: how far it got, what it pays, and its request
    struck    \* history: requests that a fault kept from being served

hireVars == <<endpointVars, runner, struck>>

RunnerIdle == [pc |-> "idle", price |-> 0, digest |-> CHOOSE d \in Digests : TRUE,
               request |-> NoRequest]

HireInit == Init /\ runner = RunnerIdle /\ struck = {}

To(from, pc) == runner.pc = from /\ runner' = [runner EXCEPT !.pc = pc]

\* What is paid is read back from the field.
Prices == {n - (n % Grain) : n \in HirePrices}

\* The ping succeeds, and the wallet is asked to pay.  An agent that appears to be
\* offline leaves the form as it is, with "you were not charged".
AskWallet(price) ==
    /\ price > 0
    /\ runner.pc = "idle"
    /\ runner' = [runner EXCEPT !.pc = "signing", !.price = price]
    /\ UNCHANGED <<endpointVars, struck>>

\* record_service_payment_sui executes.
WalletPays(d, counted) ==
    /\ runner.pc = "signing"
    /\ Pay(d, runner.price, counted)
    /\ runner' = [runner EXCEPT !.pc = "paid", !.digest = d]
    /\ UNCHANGED <<worker, struck>>

\* The wallet reports an error.  The transaction may have executed all the same.
WalletFails ==
    /\ runner.pc = "signing"
    /\ runner' = RunnerIdle
    /\ UNCHANGED <<worker, struck>>
    /\ \/ UNCHANGED gateVars
       \/ \E d \in Digests, counted \in BOOLEAN : Pay(d, runner.price, counted)

Relay(r) ==
    /\ runner.pc = "paid"
    /\ Look(r, "hire", runner.digest)
    /\ runner' = [runner EXCEPT !.pc = "posted", !.request = r]
    /\ UNCHANGED <<worker, struck>>

\* The post does not arrive: "paid, but fulfillment failed".
RelayLost == To("paid", "failed") /\ UNCHANGED <<endpointVars, struck>>

\* The response: a result, or an error of status 4xx or 5xx.
ShowAnswer ==
    /\ To("posted", "answered")
    /\ Pc(runner.request) = "answered"
    /\ UNCHANGED <<endpointVars, struck>>

ShowFailure ==
    /\ To("posted", "failed")
    /\ Pc(runner.request) \in {"rejected", "conflict", "lost"}
    /\ UNCHANGED <<endpointVars, struck>>

\* The connection breaks while the agent works on, and maybe answers.
ReplyLost == To("posted", "failed") /\ UNCHANGED <<endpointVars, struck>>

RunSync ==
    \/ \E n \in Prices : AskWallet(n)
    \/ \E d \in Digests, b \in BOOLEAN : WalletPays(d, b)
    \/ WalletFails
    \/ \E r \in Requests : Relay(r)
    \/ RelayLost \/ ReplyLost \/ ShowAnswer \/ ShowFailure

\* Cut off, no answer of the KV, the model or the node.
Strikes(r) ==
    \/ Pc(r)' = "lost"
    \/ Pc(r) = "verified" /\ Pc(r)' = "failing"
    \/ Pc(r) = "claimed" /\ Pc(r)' = "failing" /\ Valid(Digest(r), Floor["hire"])

EndpointStep ==
    /\ Next
    /\ struck' = struck \cup {r \in Requests : Pc(r)' # Pc(r) /\ Strikes(r)}
    /\ UNCHANGED runner

HireNext == EndpointStep \/ (worker = "larry" /\ RunSync)

HireSpec == HireInit /\ [][HireNext]_hireVars

-----------------------------------------------------------------------------
\* Whoever paid through the form and is told that it failed was let down by a
\* fault, or paid what the agent does not take - less than its floor, or as its
\* creator - or too long ago, or named a payment that another request named too.
\* An answer, when there is one, is the answer to the payment.
PaidIsServed ==
    /\ runner.pc = "answered" => runner.request \in served
    /\ runner.pc = "failed" =>
          LET r == runner.request
              payment == payments[runner.digest]
          IN  \/ r \in struck \cup served \cup InFlight \cup {NoRequest}
              \/ runner.price < Floor["hire"] \/ ~payment.counted
              \/ payment.paidAt + Freshness < requests[r].startedAt + RequestLimit
              \/ \E s \in Requests \ {r} : Pc(s) # "idle" /\ Digest(s) = runner.digest
=============================================================================
