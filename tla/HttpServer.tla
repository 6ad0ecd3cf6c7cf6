------------------------------ MODULE HttpServer ------------------------------
(***************************************************************************)
(* The API server as its clients meet it: the rate limiter of the router   *)
(* in front of the submission handlers and of GET /kyc/status.             *)
(***************************************************************************)
EXTENDS Submission, RateLimiter

CONSTANT ClientOf       \* ClientOf[t]: who submits t

ASSUME HttpAssumption == ClientOf \in [Txns -> Clients]

httpVars == <<submitVars, limiterVars>>

HttpInit == SubmitInit /\ LimiterInit

\* rateLimit lets the request through to enroll or verify.
SubmitRequest(t, kind) == Admit(ClientOf[t]) /\ Receive(t, kind)

\* A status request only reads, but it counts.
StatusRequest(c) == Admit(c) /\ UNCHANGED submitVars

\* A refused request, answered 429, never reaches a handler; the client may
\* send it again.
TooManyRequests(c) == Refuse(c) /\ UNCHANGED submitVars

HttpNext ==
    \/ \E t \in Txns, kind \in InputKinds : SubmitRequest(t, kind)
    \/ \E c \in Clients : StatusRequest(c) \/ TooManyRequests(c)
    \/ ((\E t \in Txns : Handle(t)) \/ LateStatus) /\ UNCHANGED limiterVars
    \/ ApiCrash /\ Forget
    \/ PassTime /\ UNCHANGED submitVars

HttpSpec == HttpInit /\ [][HttpNext]_httpVars
=============================================================================
