--------------------------- MODULE ProxyHandler ---------------------------
(***************************************************************************)
(* app/gateway/internal/proxy/handler.go: concurrent requests through the  *)
(* reverse-proxy handlers of the gateway, one handler with a circuit       *)
(* breaker of its own per route.  A request is cut where other requests    *)
(* can come between: it enters the breaker, selects a node, is forwarded,  *)
(* and leaves with the breaker told the outcome.  Backends answer through  *)
(* Envelope when they are services of this repository, and with plain HTTP *)
(* statuses when not.  Circuit breaking is enabled.                        *)
(***************************************************************************)
EXTENDS Breaker, Envelope, FiniteSets

CONSTANTS
    Routes, Service, ServiceOf,
    Request,      \* requests in flight at one time
    MaxCount,     \* bound on what a closed breaker counts in one generation
    MaxFaults     \* bound on changes of the environment for the worse

ASSUME HandlerAssumption ==
    /\ ServiceOf \in [Routes -> Service]
    /\ IsFiniteSet(Request)
    /\ MaxCount \in Nat \ {0} /\ MaxFaults \in Nat

VARIABLES
    breaker,    \* [Routes -> breaker state]
    at,         \* [Request -> "idle", "admitted" or "proxied"]
    route,      \* [Request -> the route it was made on]
    stale,      \* [Request -> was it admitted in an older generation?]
    enveloped,  \* the services built on pkg/middleware; it does not change
    available,  \* [Service -> BOOLEAN]: the selector has a node
    sick,       \* [Service -> BOOLEAN]: its instances fail
    faults,     \* history: how often the environment got worse
    seen        \* history: [Routes -> what the backend did in this generation]

vars == <<breaker, at, route, stale, enveloped, available, sick, faults, seen>>
environment == <<enveloped, available, sick, faults>>

InFlight(q) == at[q] # "idle"

\* Calls of the current generation that the backend failed, whatever status it
\* put on that, and calls that never got an answer from it.
Nothing == [failed |-> 0, broken |-> 0]

Init ==
    /\ breaker = [r \in Routes |-> Generation("closed")]
    /\ at = [q \in Request |-> "idle"]
    /\ route \in [Request -> Routes]
    /\ stale = [q \in Request |-> FALSE]
    /\ enveloped \in SUBSET Service
    /\ available \in [Service -> BOOLEAN]
    /\ sick \in [Service -> BOOLEAN]
    /\ faults = 0
    /\ seen = [r \in Routes |-> Nothing]

-----------------------------------------------------------------------------
(* The environment.                                                        *)

\* A backend starts to fail, or its last instance leaves the registry.
Worsen ==
    /\ faults < MaxFaults
    /\ faults' = faults + 1
    /\ \E s \in Service :
         \/ ~sick[s] /\ sick' = [sick EXCEPT ![s] = TRUE] /\ UNCHANGED available
         \/ available[s] /\ available' = [available EXCEPT ![s] = FALSE] /\ UNCHANGED sick
    /\ UNCHANGED <<breaker, at, route, stale, enveloped, seen>>

Improve ==
    /\ \E s \in Service :
         \/ sick[s] /\ sick' = [sick EXCEPT ![s] = FALSE] /\ UNCHANGED available
         \/ ~available[s] /\ available' = [available EXCEPT ![s] = TRUE] /\ UNCHANGED sick
    /\ UNCHANGED <<breaker, at, route, stale, enveloped, faults, seen>>

\* The interval or the timeout of a breaker passes.  Half-open has neither.
Expire(r) ==
    /\ breaker[r].state \in {"closed", "open"}
    /\ ~breaker[r].due
    /\ breaker' = [breaker EXCEPT ![r].due = TRUE]
    /\ UNCHANGED <<at, route, stale, environment, seen>>

-----------------------------------------------------------------------------
(* ServeHTTP and forward.                                                   *)

\* The breaker of r moves on to b.  A new generation makes the calls of r that
\* are in flight stale, and starts with nothing seen; otherwise it has seen f.
Becomes(r, b, f) ==
    LET rolls == breaker[r].due \/ b.state # breaker[r].state IN
    /\ breaker' = [breaker EXCEPT ![r] = b]
    /\ seen' = [seen EXCEPT ![r] = IF rolls THEN Nothing ELSE f]
    /\ stale' = [q \in Request |->
            IF at'[q] = "idle" \/ ~InFlight(q) THEN FALSE
            ELSE stale[q] \/ (rolls /\ route[q] = r)]

\* Execute lets the call through.
Enter(q, r) ==
    /\ at[q] = "idle"
    /\ Admits(breaker[r])
    /\ breaker[r].requests < MaxCount \/ breaker[r].due
    /\ at' = [at EXCEPT ![q] = "admitted"]
    /\ route' = [route EXCEPT ![q] = r]
    /\ Becomes(r, Admitted(breaker[r]), seen[r])
    /\ UNCHANGED environment

\* ErrOpenState or ErrTooManyRequests: a 503, and nothing is counted.
Shed(q, r) ==
    /\ at[q] = "idle"
    /\ ~Admits(breaker[r])
    /\ route' = [route EXCEPT ![q] = r]
    /\ UNCHANGED <<breaker, at, stale, environment, seen>>

SelectNode(q) ==
    /\ at[q] = "admitted"
    /\ available[ServiceOf[route[q]]]
    /\ at' = [at EXCEPT ![q] = "proxied"]
    /\ UNCHANGED <<breaker, route, stale, environment, seen>>

\* Mutants: a 4xx answer is the backend's fault; a discovery gap is a failure.
ForwardedBlames4xx(status) == IF status >= 400 THEN "errUpstream" ELSE "nil"
IsSuccessfulOnNil(err) == err = "nil"

\* forward returns errUpstream for a recorded status of 500 or above.
Forwarded(status) == IF status >= 500 THEN "errUpstream" ELSE "nil"

\* The settings' IsSuccessful.
IsSuccessful(err) == err # "errUpstream"

\* forward has returned err, and Execute tells the breaker.  The call is
\* remembered under what it was to the backend.
Leave(q, err, what) ==
    LET r == route[q]
        b == breaker[r]
        f == IF what = "fine" THEN seen[r] ELSE [seen[r] EXCEPT ![what] = @ + 1]
    IN
    /\ at' = [at EXCEPT ![q] = "idle"]
    /\ IF stale[q] \/ b.due THEN Becomes(r, Current(b), seen[r])
       ELSE Becomes(r, IF IsSuccessful(err) THEN Success(b) ELSE Failure(b), f)
    /\ UNCHANGED route

\* The selector is empty: 503, errNoNode.
NoNode(q) ==
    /\ at[q] = "admitted"
    /\ ~available[ServiceOf[route[q]]]
    /\ Leave(q, "errNoNode", "fine")
    /\ UNCHANGED environment

\* What a backend may come to, and how it puts that.
Outcomes(s) == IF sick[s] THEN {"server error", "plain error"} ELSE {"ok", "client error"}
ReplyOf(s, result) == IF s \in enveloped THEN Encode(result) ELSE Plain(result)
WasFor(reply) == IF reply.code >= 500 THEN "failed" ELSE "fine"

\* The backend answers.
Answer(q) ==
    LET s == ServiceOf[route[q]] IN
    /\ at[q] = "proxied"
    /\ \E result \in Outcomes(s) :
         Leave(q, Forwarded(ReplyOf(s, result).status), WasFor(ReplyOf(s, result)))
    /\ UNCHANGED environment

\* A sick backend refuses the connection: errorHandler answers, and records, 502.
Refused(q) ==
    /\ at[q] = "proxied"
    /\ sick[ServiceOf[route[q]]]
    /\ Leave(q, Forwarded(502), "broken")
    /\ UNCHANGED environment

\* The client goes away before the answer: the transport reports the canceled
\* context, and errorHandler sets 502.
Abandon(q) ==
    /\ at[q] = "proxied"
    /\ faults < MaxFaults
    /\ faults' = faults + 1
    /\ Leave(q, Forwarded(502), "broken")
    /\ UNCHANGED <<enveloped, available, sick>>

\* Mutant: a panic escapes with the breaker never told.
AbortUntold(q) ==
    /\ at[q] = "proxied"
    /\ faults < MaxFaults
    /\ faults' = faults + 1
    /\ at' = [at EXCEPT ![q] = "idle"]
    /\ UNCHANGED <<breaker, route, stale, enveloped, available, sick, seen>>

\* The copy of the body fails after the header: ReverseProxy panics with
\* http.ErrAbortHandler, which Execute counts as an error on the way out.
Abort(q) ==
    /\ at[q] = "proxied"
    /\ faults < MaxFaults
    /\ faults' = faults + 1
    /\ Leave(q, "errUpstream", "broken")
    /\ UNCHANGED <<enveloped, available, sick>>

-----------------------------------------------------------------------------
Forward(q) == SelectNode(q) \/ NoNode(q) \/ Answer(q) \/ Refused(q)

Next ==
    \/ Worsen \/ Improve
    \/ \E r \in Routes : Expire(r)
    \/ \E q \in Request, r \in Routes : Enter(q, r) \/ Shed(q, r)
    \/ \E q \in Request : Forward(q) \/ Abandon(q) \/ Abort(q)

Spec == Init /\ [][Next]_vars

\* Requests keep coming on every route, every call ends (the server's timeout
\* cancels it at the latest), and clocks run.
Fairness ==
    /\ \A r \in Routes : WF_vars(Expire(r)) /\ WF_vars(\E q \in Request : Enter(q, r))
    /\ \A q \in Request : WF_vars(Forward(q))

FairSpec == Spec /\ Fairness

-----------------------------------------------------------------------------
(* Properties.                                                             *)

\* Every variable has its type, and only a call in flight can be stale.
TypeOK ==
    /\ breaker \in [Routes -> [state : {"closed", "open", "half-open"},
            requests : 0 .. MaxCount, successes : 0 .. MaxCount,
            failures : 0 .. MaxCount, due : BOOLEAN]]
    /\ at \in [Request -> {"idle", "admitted", "proxied"}]
    /\ route \in [Request -> Routes]
    /\ stale \in [Request -> BOOLEAN] /\ \A q \in Request : stale[q] => InFlight(q)
    /\ enveloped \subseteq Service
    /\ available \in [Service -> BOOLEAN] /\ sick \in [Service -> BOOLEAN]
    /\ faults \in 0 .. MaxFaults
    /\ seen \in [Routes -> [failed : 0 .. MaxCount, broken : 0 .. MaxCount]]

\* Calls of the current generation of r that are still to be told.
Pending(r) == {q \in Request : InFlight(q) /\ route[q] = r /\ ~stale[q]}

\* Every call the breaker has admitted is told to it exactly once, whichever
\* way it ends: what is counted and not in flight has a result.
CountsMatch == \A r \in Routes :
    breaker[r].requests =
        breaker[r].successes + breaker[r].failures + Cardinality(Pending(r))

\* A half-open breaker never locks itself: it has a probe in flight, or room for
\* one; and it never has more than MaxRequests.
ProbesProceed == \A r \in Routes :
    breaker[r].state = "half-open" =>
        /\ breaker[r].requests <= MaxRequests
        /\ Pending(r) # {} \/ breaker[r].requests < MaxRequests

\* What the backend of r has let the gateway see of its failures: a service of
\* this repository puts what it answers under status 200 (codec.go:150).
Visible(r) ==
    IF ServiceOf[r] \in enveloped THEN seen[r].broken ELSE seen[r].failed + seen[r].broken

\* "[A discovery gap] is excluded from failures so a registry blip cannot trip
\* the breaker": only what a forwarded call shows of a failure is counted as one.
GapsDoNotTrip == \A r \in Routes : breaker[r].failures <= Visible(r)

\* With its backend healthy and registered for good and no client or connection
\* failing any more, a breaker closes for good, even if clients keep getting 4xx.
Recovers == \A r \in Routes :
    <>[](~sick[ServiceOf[r]] /\ available[ServiceOf[r]])
        => <>[](breaker[r].state = "closed")

\* gateway.proto:140-142: "CircuitBreaker trips per-upstream [...] when that
\* backend keeps failing": a backend that has failed every one of a sample of
\* MinRequests calls, for all to see, has its circuit open.
FailureTrips == \A r \in Routes :
    LET b == breaker[r] IN
    b.state = "closed" /\ ~b.due /\ b.requests >= MinRequests => Visible(r) < b.requests

=============================================================================
