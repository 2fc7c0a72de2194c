---------------------------- MODULE EdgeFilters ----------------------------
(***************************************************************************)
(* The filters every request to the gateway passes before a route handler: *)
(* corsFilter (app/gateway/internal/server/server.go) around               *)
(* RateLimitFilter (pkg/middleware/ratelimit.go), in a gateway that        *)
(* configures both.  The limiter is a token bucket of golang.org/x/time,   *)
(* one for all routes.  Time is cut into ticks; the bucket is counted in   *)
(* fractions of a token, TicksPerSecond of which make one.                 *)
(***************************************************************************)
EXTENDS Integers

CONSTANTS
    Origin, NoOrigin,       \* values of the Origin header; NoOrigin is none
    AllowOrigins, AnyOrigin,\* the configured origins; AnyOrigin is "*"
    SetQps, SetBurst,       \* as configured; 0 is unset
    DefaultQps,             \* defaultQPS
    TicksPerSecond,
    MaxTime                 \* bound on the clock

ASSUME EdgeAssumption ==
    /\ NoOrigin \notin Origin
    /\ SetQps \in Int /\ SetBurst \in Int
    /\ DefaultQps \in Nat \ {0}
    /\ TicksPerSecond \in Nat \ {0}
    /\ MaxTime \in Nat

VARIABLES
    now,       \* the clock
    bucket,    \* what the bucket holds
    admitted,  \* history: requests admitted so far
    before,    \* history: [tick -> requests admitted before it]
    reply      \* the last request of this tick and its answer; {} before it

vars == <<now, bucket, admitted, before, reply>>

\* NewTokenLimiter.
Qps == IF SetQps <= 0 THEN DefaultQps ELSE SetQps
Burst == IF SetBurst <= 0 THEN Qps ELSE SetBurst
Full == Burst * TicksPerSecond

Request == [origin : Origin \cup {NoOrigin}, preflight : BOOLEAN]
Reply == [request : Request, status : {"no content", "too many", "forwarded"}, readable : BOOLEAN]

Init ==
    /\ now = 0
    /\ bucket = Full
    /\ admitted = 0
    /\ before = [t \in 0 .. MaxTime |-> 0]
    /\ reply = {}

-----------------------------------------------------------------------------
\* A tick's worth of tokens, up to the burst.
Refill(b) == IF b + Qps > Full THEN Full ELSE b + Qps

Tick ==
    /\ now < MaxTime
    /\ now' = now + 1
    /\ bucket' = Refill(bucket)
    /\ before' = [before EXCEPT ![now + 1] = admitted]
    /\ reply' = {}
    /\ UNCHANGED admitted

\* Mutant: a part of a token is enough.
HasTokenFraction == bucket > 0

\* rate.Limiter.Allow takes a token when there is a whole one.
HasToken == bucket >= TicksPerSecond

\* corsFilter decorates the response: the browser lets the page read it.
OriginAllowed(o) == AnyOrigin \in AllowOrigins \/ o \in AllowOrigins
Decorated(q) == q.origin # NoOrigin /\ OriginAllowed(q.origin)

Answers(q, status, readable) ==
    reply' = {[request |-> q, status |-> status, readable |-> readable]}

\* A preflight of an allowed origin is answered by corsFilter itself.
Preflight(q) ==
    /\ Decorated(q) /\ q.preflight
    /\ Answers(q, "no content", TRUE)
    /\ UNCHANGED <<now, bucket, admitted, before>>

\* Everything else reaches the limiter.
Limited(q) == ~(Decorated(q) /\ q.preflight)

\* Mutant: the outcome of Allow is not looked at.
AdmitUnchecked(q) ==
    /\ Limited(q)
    /\ bucket' = bucket - TicksPerSecond
    /\ admitted' = admitted + 1
    /\ Answers(q, "forwarded", Decorated(q))
    /\ UNCHANGED <<now, before>>

Admit(q) ==
    /\ Limited(q) /\ HasToken
    /\ bucket' = bucket - TicksPerSecond
    /\ admitted' = admitted + 1
    /\ Answers(q, "forwarded", Decorated(q))
    /\ UNCHANGED <<now, before>>

\* Mutants: Reserve in place of Allow, which takes the token in any case; the
\* limiter as the outer filter, which corsFilter cannot decorate.
RejectReserves(q) ==
    /\ Limited(q) /\ ~HasToken
    /\ bucket' = bucket - TicksPerSecond
    /\ Answers(q, "too many", Decorated(q))
    /\ UNCHANGED <<now, admitted, before>>
RejectOutermost(q) ==
    /\ ~HasToken
    /\ Answers(q, "too many", FALSE)
    /\ UNCHANGED <<now, bucket, admitted, before>>

Reject(q) ==
    /\ Limited(q) /\ ~HasToken
    /\ Answers(q, "too many", Decorated(q))
    /\ UNCHANGED <<now, bucket, admitted, before>>

Next == Tick \/ \E q \in Request : Preflight(q) \/ Admit(q) \/ Reject(q)

Spec == Init /\ [][Next]_vars

-----------------------------------------------------------------------------
(* Properties.                                                             *)

\* Every variable has its type: the bucket is never overdrawn or overfull.
TypeOK ==
    /\ now \in 0 .. MaxTime
    /\ bucket \in 0 .. Full
    /\ admitted \in Nat
    /\ before \in [0 .. MaxTime -> Nat]
    /\ reply \in {{}} \cup {{r} : r \in Reply}

\* Requests admitted since the start of tick i, in fractions of a token, and
\* what the quota grants that window.
Used(i) == TicksPerSecond * (admitted - before[i])
Granted(i) == Full + Qps * (now - i)

\* "sustaining qps requests per second with a maximum burst capacity": in every
\* window of time, whatever came before it, the gateway admits no more than one
\* burst and qps for each second of the window.
Quota == \A i \in 0 .. now : Used(i) <= Granted(i)

\* And no fewer: a request is refused only when some window up to now has no
\* room for it.
RejectionJustified ==
    \A r \in reply : r.status = "too many" =>
        \E i \in 0 .. now : Used(i) + TicksPerSecond > Granted(i)

\* server.go:31-33: "a rate-limited 429 must still carry access-control headers
\* or the browser cannot read the rejection"; nor is a preflight ever refused,
\* without which the browser would not send the request at all.
RejectionReadable ==
    \A r \in reply : r.status = "too many" /\ Decorated(r.request) =>
        r.readable /\ ~r.request.preflight

-----------------------------------------------------------------------------
(* The inductive invariant behind the quota: what a window has used and    *)
(* what is left in the bucket stay within the grant of the window, and for *)
(* one window they make up all of it.                                      *)

BucketWithin == \A i \in 0 .. now : Used(i) + bucket <= Granted(i)
BucketExact == \E i \in 0 .. now : Used(i) + bucket = Granted(i)
IInv == TypeOK /\ BucketWithin /\ BucketExact

=============================================================================
