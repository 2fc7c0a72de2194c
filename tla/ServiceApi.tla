----------------------------- MODULE ServiceApi -----------------------------
(***************************************************************************)
(* What pkg/middleware promises of a service, in the words of its comments *)
(* and of the README: a request gets one answer, decided by the first      *)
(* thing that is wrong with it, and one line in the log that tells the     *)
(* same outcome.  A request and its answer are one step here.  Where a     *)
(* service is known not to keep the promise, it names the cause and what   *)
(* it does instead.                                                        *)
(***************************************************************************)
EXTENDS Integers

CONSTANTS
    Transport,      \* "http" and "grpc"
    Limits,         \* whether a rate limit is configured
    Protected,      \* the operations that need a verified token
    Deviations,     \* [cause, answer]: answers other than the one promised
    LogDeviations,  \* [cause, log]: what the log has other than the one line
    Nothing         \* no answer yet

VARIABLES
    request,    \* the request, sent over every transport
    answer,     \* [Transport -> the code and reason of the answer, or Nothing]
    lines       \* [Transport -> the lines logged]

\* Only the query of an HTTP request is never refused.
Undecodable(t, r) == r.body = "malformed" /\ ~(t = "http" /\ r.op = "GetProfile")

Unauthenticated(r) == r.op \in Protected /\ r.token # "good"

\* Every wrong with the request, where the rate limit turns a request away at will.
\* What the service's own handler makes of it comes last.
Cause(t, r) ==
    IF Undecodable(t, r) THEN {"malformed"}
    ELSE (IF Limits THEN {"limited"} ELSE {})
         \cup IF Unauthenticated(r) THEN {r.token}
              ELSE IF r.self \in {"refuses", "fails"} THEN {r.self}
              ELSE IF r.rules = "broken" THEN {"broken"}
              ELSE IF r.invalid THEN {"invalid"}
              ELSE {r.outcome}

\* The answer promised.  auth.go:48-49: a "verification error" is answered like a
\* missing token; validate.go:31-32: rules that do not compile are "a server-side
\* bug" that "surfaces as a 500"; validate.go:97-99: an error of a request's own
\* Validate is a 400, unless it is a kratos error.
Outcome(t, cause) ==
    CASE cause = "malformed" ->
           IF t = "http" THEN [code |-> 400, reason |-> "CODEC"] ELSE [code |-> 500, reason |-> ""]
      [] cause = "limited" -> [code |-> 429, reason |-> "RATELIMIT"]
      [] cause \in {"none", "expired", "unverifiable"} ->
           [code |-> 401, reason |-> "AUTH_UNAUTHORIZED"]
      [] cause = "refuses" -> [code |-> 400, reason |-> "USER_INVALID_ARGUMENT"]
      [] cause \in {"fails", "invalid"} -> [code |-> 400, reason |-> "VALIDATION_FAILED"]
      [] cause = "reply" -> [code |-> 0, reason |-> ""]
      [] cause = "not found" -> [code |-> 404, reason |-> "USER_NOT_FOUND"]
      [] cause = "exists" -> [code |-> 409, reason |-> "USER_ALREADY_EXISTS"]
      [] cause = "unimplemented" -> [code |-> 501, reason |-> ""]
      [] cause = "panic" -> [code |-> 500, reason |-> "UNKNOWN"]
      [] cause \in {"broken", "error", "unencodable"} -> [code |-> 500, reason |-> ""]

\* The envelope has no room for the reason; gRPC carries it.
Visible(t, o) == IF t = "http" THEN [o EXCEPT !.reason = ""] ELSE o

Level(code) ==
    CASE code = 0 -> "info"
      [] code \in 400 .. 499 -> "warn"
      [] code \in 500 .. 599 -> "error"

\* logging.go:13-16: "one line per RPC", whose severity "tracks the outcome".
Line(o) == <<[code |-> o.code, reason |-> o.reason, level |-> Level(o.code)]>>

Answers(t, cause) ==
    {Outcome(t, cause)} \cup {d.answer : d \in {e \in Deviations : e.cause = cause}}

Logs(cause, o) == {Line(o)} \cup {d.log : d \in {e \in LogDeviations : e.cause = cause}}

Init ==
    /\ answer = [t \in Transport |-> Nothing]
    /\ lines = [t \in Transport |-> <<>>]

Answer(t) ==
    /\ answer[t] = Nothing
    /\ \E cause \in Cause(t, request) : \E o \in Answers(t, cause) : \E log \in Logs(cause, o) :
         /\ answer' = [answer EXCEPT ![t] = Visible(t, o)]
         /\ lines' = [lines EXCEPT ![t] = log]
    /\ UNCHANGED request

Spec == Init /\ [][\E t \in Transport : Answer(t)]_<<request, answer, lines>>

=============================================================================
