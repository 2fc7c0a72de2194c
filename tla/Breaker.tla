------------------------------ MODULE Breaker ------------------------------
(***************************************************************************)
(* One circuit breaker of the gateway: the settings newBreaker in          *)
(* app/gateway/internal/proxy/handler.go gives to gobreaker, and what      *)
(* gobreaker does with them, as functions on the breaker's state.          *)
(*                                                                         *)
(* Time enters as "due": the interval of a closed breaker, or the timeout  *)
(* of an open one, has passed.  gobreaker looks at it only when a call     *)
(* enters or leaves, and then starts a new generation of counts; results   *)
(* of calls from an older generation are ignored.                          *)
(***************************************************************************)
EXTENDS Integers

CONSTANTS
    SetMaxRequests, SetMinRequests,   \* as configured; 0 is unset
    SetRatioNum, RatioDen,            \* the configured failure ratio; 0 is unset
    DefaultMaxRequests, DefaultMinRequests, DefaultRatioNum

ASSUME BreakerAssumption ==
    /\ SetMaxRequests \in Nat /\ SetMinRequests \in Nat /\ SetRatioNum \in Int
    /\ RatioDen \in Nat \ {0}
    /\ DefaultMaxRequests \in Nat \ {0}
    /\ DefaultMinRequests \in Nat \ {0}
    /\ DefaultRatioNum \in 1 .. RatioDen

\* orDefault, and the same for the failure ratio.
OrDefault(v, def) == IF v <= 0 THEN def ELSE v

MaxRequests == OrDefault(SetMaxRequests, DefaultMaxRequests)
MinRequests == OrDefault(SetMinRequests, DefaultMinRequests)
RatioNum == OrDefault(SetRatioNum, DefaultRatioNum)

\* Mutant: the sample must be larger than MinRequests.
ReadyToTripLate(b) ==
    /\ b.requests > MinRequests
    /\ b.failures * RatioDen >= RatioNum * b.requests

\* The settings' ReadyToTrip.
ReadyToTrip(b) ==
    /\ b.requests >= MinRequests
    /\ b.failures * RatioDen >= RatioNum * b.requests

-----------------------------------------------------------------------------
\* A new generation in state s.
Generation(s) ==
    [state |-> s, requests |-> 0, successes |-> 0, failures |-> 0, due |-> FALSE]

\* currentState: an expired generation gives way to the next.
Current(b) ==
    CASE b.due /\ b.state = "closed" -> Generation("closed")
      [] b.due /\ b.state = "open" -> Generation("half-open")
      [] OTHER -> b

\* beforeRequest lets a call through, and counts it.
Admits(b) ==
    \/ Current(b).state = "closed"
    \/ Current(b).state = "half-open" /\ Current(b).requests < MaxRequests

Admitted(b) == [Current(b) EXCEPT !.requests = @ + 1]

\* afterRequest with the result of a call of the current generation.  In a
\* half-open breaker the successes are all consecutive.
Success(b) ==
    LET c == [b EXCEPT !.successes = @ + 1] IN
    IF b.state = "half-open" /\ c.successes >= MaxRequests
    THEN Generation("closed") ELSE c

Failure(b) ==
    LET c == [b EXCEPT !.failures = @ + 1] IN
    IF b.state = "half-open" \/ ReadyToTrip(c) THEN Generation("open") ELSE c

=============================================================================
