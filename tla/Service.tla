------------------------------- MODULE Service -------------------------------
(***************************************************************************)
(* A service built from api/user/v1, pkg/middleware and pkg/docs, as the   *)
(* README wires one: one request of a client, sent over HTTP and over gRPC *)
(* by the generated clients, bound by the generated handlers, taken        *)
(* through the middleware chain and back out, and answered.  The chain is  *)
(* the same on both transports.  A browser may read the documentation,     *)
(* which is served beside the chain.                                       *)
(***************************************************************************)
EXTENDS UserApi, ApiDocs, Envelope

CONSTANTS
    Chain,      \* the middleware, from the outermost in
    Protected,  \* the operations the auth middleware is selected for
    Scenario,   \* what is considered: a request, the document embedded for
                \* the service, and the requests that readers of it make
    NoSpec,     \* in place of a document, if there is none
    Nothing

Layer == {"recovery", "logging", "ratelimit", "auth", "validate"}
Transport == {"http", "grpc"}

\* A request: what its body holds (nothing, something that does not decode, or
\* the message), its bearer token, what Validate of its type says, whether the
\* rules of its type compile, and what the service's handler makes of it.
IsRequest(r) ==
    /\ r.op \in Operation /\ r.message \in Message(r.op)
    /\ r.body \in {"empty", "malformed", "message"}
    /\ r.token \in {"none", "good", "expired", "unverifiable"}
    /\ r.self \in {"absent", "passes", "refuses", "fails"}
    /\ r.rules \in {"compiled", "broken"}
    /\ r.outcome \in {"reply", "unencodable", "not found", "exists",
                      "unimplemented", "error", "panic"}

\* What a handler returns; nil is Nothing.
Kind == {"reply", "unencodable", "error", "plain", "panic"}
ErrorReason == {"", "CODEC", "RATELIMIT", "AUTH_UNAUTHORIZED", "AUTH_TOKEN_EXPIRED",
                "USER_INVALID_ARGUMENT", "VALIDATION_FAILED", "UNKNOWN",
                "USER_NOT_FOUND", "USER_ALREADY_EXISTS"}
Returned == [kind : Kind, code : Nat, reason : ErrorReason]

ASSUME ServiceAssumption ==
    /\ Chain \in Seq(Layer) /\ Protected \subseteq Operation
    /\ \A s \in Scenario :
         IsRequest(s.request) /\ (s.spec = NoSpec \/ Document(s.spec))
    /\ Nothing \notin Returned

VARIABLES
    request,  \* the request
    calls,    \* [Transport -> where its call is, and what it has]
    lines,    \* [Transport -> Seq(line)]: the log
    spec,     \* the embedded document
    readers,  \* the requests for it
    docs,     \* the server's state, and the document as registered
    page      \* the last answer to a reader, or Nothing

vars == <<request, calls, lines, spec, readers, docs, page>>

-----------------------------------------------------------------------------
(* What a handler returns, and the errors there are.                       *)

Reply == [kind |-> "reply", code |-> 0, reason |-> ""]
Unencodable == [Reply EXCEPT !.kind = "unencodable"]
KratosError(code, reason) == [kind |-> "error", code |-> code, reason |-> reason]

\* A plain error: errors.FromError gives it 500 and no reason.
PlainError == [kind |-> "plain", code |-> 500, reason |-> ""]
Panic == [kind |-> "panic", code |-> 0, reason |-> ""]

IsError(result) == result.kind \in {"error", "plain"}

\* UnimplementedAuthServiceServer and UnimplementedUserServiceServer return a
\* gRPC status, which FromError turns into 501.
Unimplemented == KratosError(501, "")

\* The service's own handler.
Outcome(r) ==
    CASE r.outcome = "reply" -> Reply
      [] r.outcome = "unencodable" -> Unencodable
      [] r.outcome = "not found" -> KratosError(404, "USER_NOT_FOUND")
      [] r.outcome = "exists" -> KratosError(409, "USER_ALREADY_EXISTS")
      [] r.outcome = "unimplemented" -> Unimplemented
      [] r.outcome = "error" -> PlainError
      [] r.outcome = "panic" -> Panic

NoCall == [at |-> "start", depth |-> 0, op |-> Nothing, message |-> Nothing,
           claims |-> FALSE, result |-> Nothing, answer |-> Nothing, failed |-> FALSE]

Init ==
    /\ \E s \in Scenario : request = s.request /\ spec = s.spec /\ readers = s.readers
    /\ calls = [t \in Transport |-> NoCall]
    /\ lines = [t \in Transport |-> <<>>]
    /\ docs = [at |-> "starting", doc |-> <<>>]
    /\ page = Nothing

-----------------------------------------------------------------------------
(* From the client to the chain.                                           *)

\* The generated client's Invoke, and the server's choice of a handler.  The
\* server is up once the documentation is mounted.
Send(t) ==
    /\ docs.at = "serving"
    /\ calls[t].at = "start"
    /\ \E op \in ServedAt(t, Address(t, request.op)) :
         calls' = [calls EXCEPT ![t].at = "bind", ![t].op = op]
    /\ UNCHANGED <<request, lines, spec, readers, docs, page>>

\* Mutant: the handler runs on a request that was not decoded into.
BoundNothing(t, message) == calls' = [calls EXCEPT ![t].at = "in", ![t].depth = 1]

Bound(t, message) ==
    calls' = [calls EXCEPT ![t].at = "in", ![t].depth = 1, ![t].message = message]

\* An error while binding is the answer: the chain does not see it.
Unbound(t, error) == calls' = [calls EXCEPT ![t].at = "reply", ![t].result = error]

\* ctx.BindQuery: it ignores what it cannot use.
BindQuery ==
    /\ calls["http"].at = "bind" /\ Binds[calls["http"].op] = "query"
    /\ Bound("http", Zero(calls["http"].op))
    /\ UNCHANGED <<request, lines, spec, readers, docs, page>>

\* Mutant: an empty body goes to the decoder, which refuses it.
BindBodyStrictly ==
    /\ calls["http"].at = "bind" /\ Binds[calls["http"].op] = "body"
    /\ IF request.body = "message" THEN Bound("http", request.message)
       ELSE Unbound("http", KratosError(400, "CODEC"))
    /\ UNCHANGED <<request, lines, spec, readers, docs, page>>

\* ctx.Bind with RequestDecoder: an empty body is a message of zeros.
BindBody ==
    /\ calls["http"].at = "bind" /\ Binds[calls["http"].op] = "body"
    /\ CASE request.body = "empty" -> Bound("http", Zero(calls["http"].op))
         [] request.body = "message" -> Bound("http", request.message)
         [] request.body = "malformed" -> Unbound("http", KratosError(400, "CODEC"))
    /\ UNCHANGED <<request, lines, spec, readers, docs, page>>

\* dec(in): grpc-go answers a payload it cannot unmarshal with Internal.
Decode ==
    /\ calls["grpc"].at = "bind"
    /\ CASE request.body = "empty" -> Bound("grpc", Zero(calls["grpc"].op))
         [] request.body = "message" -> Bound("grpc", request.message)
         [] request.body = "malformed" -> Unbound("grpc", KratosError(500, ""))
    /\ UNCHANGED <<request, lines, spec, readers, docs, page>>

-----------------------------------------------------------------------------
(* Through the chain, and back.                                            *)

At(t, direction, layer) ==
    /\ calls[t].at = direction
    /\ calls[t].depth \in DOMAIN Chain /\ Chain[calls[t].depth] = layer

Inwards(t) == calls' = [calls EXCEPT ![t].depth = @ + 1]

\* The layer returns without calling the next one.
Return(t, result) ==
    calls' = [calls EXCEPT ![t].at = "out", ![t].depth = @ - 1, ![t].result = result]

Enter(t) ==
    /\ At(t, "in", "recovery") \/ At(t, "in", "logging")
    /\ Inwards(t)
    /\ UNCHANGED <<request, lines, spec, readers, docs, page>>

\* RateLimitServer: whether the limiter has room depends on other traffic.
Limit(t) ==
    /\ At(t, "in", "ratelimit")
    /\ Inwards(t) \/ Return(t, KratosError(429, "RATELIMIT"))
    /\ UNCHANGED <<request, lines, spec, readers, docs, page>>

\* Mutant: a token that cannot be verified is as good as none on a public route.
TokenAuthLenient(t) ==
    /\ At(t, "in", "auth")
    /\ IF request.token = "none" /\ calls[t].op \in Protected
       THEN Return(t, KratosError(401, "AUTH_UNAUTHORIZED"))
       ELSE calls' = [calls EXCEPT ![t].depth = @ + 1, ![t].claims = request.token = "good"]
    /\ UNCHANGED <<request, lines, spec, readers, docs, page>>

\* TokenAuth within a selector: the verifier's own error is returned, and the
\* claims of a token it accepts go into the context.
TokenAuth(t) ==
    /\ At(t, "in", "auth")
    /\ IF calls[t].op \notin Protected THEN Inwards(t)
       ELSE CASE request.token = "none" -> Return(t, KratosError(401, "AUTH_UNAUTHORIZED"))
              [] request.token = "expired" -> Return(t, KratosError(401, "AUTH_TOKEN_EXPIRED"))
              [] request.token = "unverifiable" -> Return(t, PlainError)
              [] request.token = "good" ->
                   calls' = [calls EXCEPT ![t].depth = @ + 1, ![t].claims = TRUE]
    /\ UNCHANGED <<request, lines, spec, readers, docs, page>>

\* A request type's own Validate; none of the generated ones has it.
SelfValidate(r) ==
    CASE r.self \in {"absent", "passes"} -> Nothing
      [] r.self = "refuses" -> KratosError(400, "USER_INVALID_ARGUMENT")
      [] r.self = "fails" -> PlainError

ProtoValidator(r, op, message) ==
    IF r.rules = "broken" THEN PlainError
    ELSE IF Violations(op, message) = {} THEN Nothing
    ELSE KratosError(400, "VALIDATION_FAILED")

\* Mutant: the code of a kratos error is lost.
toBadRequestAlways(error) == KratosError(400, "VALIDATION_FAILED")

toBadRequest(error) ==
    IF error.kind = "error" THEN error ELSE KratosError(400, "VALIDATION_FAILED")

Validator(t) ==
    /\ At(t, "in", "validate")
    /\ LET self == SelfValidate(request)
           proto == ProtoValidator(request, calls[t].op, calls[t].message)
       IN  CASE self # Nothing -> Return(t, toBadRequest(self))
             [] self = Nothing /\ proto # Nothing -> Return(t, toBadRequest(proto))
             [] self = Nothing /\ proto = Nothing -> Inwards(t)
    /\ UNCHANGED <<request, lines, spec, readers, docs, page>>

\* The operation of the service.
Serve(t) ==
    /\ calls[t].at = "in" /\ calls[t].depth > Len(Chain)
    /\ Return(t, Outcome(request))
    /\ UNCHANGED <<request, lines, spec, readers, docs, page>>

Outwards(t) == calls' = [calls EXCEPT ![t].depth = @ - 1]

\* RequestLogger's severity.
Severity(result) ==
    IF ~IsError(result) THEN "info"
    ELSE IF result.code >= 500 \/ result.code = 0 THEN "error"
    ELSE "warn"

\* RequestLogger, once the inner handler is back.  A panic goes past it.
RequestLogger(t) ==
    /\ At(t, "out", "logging")
    /\ lines' = IF calls[t].result = Panic THEN lines
                ELSE [lines EXCEPT ![t] =
                        Append(@, [code |-> calls[t].result.code,
                                   reason |-> calls[t].result.reason,
                                   level |-> Severity(calls[t].result)])]
    /\ Outwards(t)
    /\ UNCHANGED <<request, spec, readers, docs, page>>

Recover(t) ==
    /\ At(t, "out", "recovery")
    /\ calls' = [calls EXCEPT ![t].depth = @ - 1,
                   ![t].result = IF @ = Panic THEN KratosError(500, "UNKNOWN") ELSE @]
    /\ UNCHANGED <<request, lines, spec, readers, docs, page>>

Leave(t) ==
    /\ \E layer \in {"ratelimit", "auth", "validate"} : At(t, "out", layer)
    /\ Outwards(t)
    /\ UNCHANGED <<request, lines, spec, readers, docs, page>>

LeaveChain(t) ==
    /\ calls[t].at = "out" /\ calls[t].depth = 0
    /\ calls' = [calls EXCEPT ![t].at = "reply"]
    /\ UNCHANGED <<request, lines, spec, readers, docs, page>>

-----------------------------------------------------------------------------
(* The answer.                                                             *)

\* marshalData: protojson refuses text that is not UTF-8.
marshalData(result) == IF result = Unencodable THEN PlainError ELSE result

\* ErrorEncoder: the reason stays behind.
ErrorEncoder(error) == WriteEnvelope(error.code)

\* ctx.Result with ResponseEncoder; an error it returns goes to ErrorEncoder,
\* like one of the chain.
ResponseEncoder(result) ==
    IF IsError(marshalData(result)) THEN ErrorEncoder(marshalData(result))
    ELSE WriteEnvelope(0)

\* kratos' mapping of codes to gRPC's and back, and what a plain error becomes.
ToGRPC(result) ==
    CASE result.kind = "plain" -> "Unknown"
      [] result.kind = "unencodable" -> "Internal"
      [] result.kind = "reply" -> "OK"
      [] result.kind = "error" ->
           CASE result.code = 400 -> "InvalidArgument"
             [] result.code = 401 -> "Unauthenticated"
             [] result.code = 404 -> "NotFound"
             [] result.code = 409 -> "Aborted"
             [] result.code = 429 -> "ResourceExhausted"
             [] result.code = 500 -> "Internal"
             [] result.code = 501 -> "Unimplemented"

FromGRPC(status) ==
    CASE status = "OK" -> 0
      [] status = "InvalidArgument" -> 400
      [] status = "Unauthenticated" -> 401
      [] status = "NotFound" -> 404
      [] status = "Aborted" -> 409
      [] status = "ResourceExhausted" -> 429
      [] status \in {"Internal", "Unknown"} -> 500
      [] status = "Unimplemented" -> 501

\* What the server puts on the wire.
Answer(t) ==
    /\ calls[t].at = "reply"
    /\ LET result == calls[t].result IN
       calls' = [calls EXCEPT ![t].at = "answered", ![t].answer =
           IF t = "http"
           THEN IF IsError(result) THEN ErrorEncoder(result) ELSE ResponseEncoder(result)
           ELSE [status |-> ToGRPC(result), reason |-> result.reason]]
    /\ UNCHANGED <<request, lines, spec, readers, docs, page>>

\* The generated client returns the error that Invoke makes of the status; the
\* code and the reason are there for who reads the envelope or the status.
Receive(t) ==
    /\ calls[t].at = "answered"
    /\ LET wire == calls[t].answer IN
       calls' = [calls EXCEPT ![t].at = "done",
           ![t].failed = IF t = "http" THEN wire.status # 200 ELSE wire.status # "OK",
           ![t].answer = IF t = "http" THEN [code |-> wire.code, reason |-> ""]
                         ELSE [code |-> FromGRPC(wire.status), reason |-> wire.reason]]
    /\ UNCHANGED <<request, lines, spec, readers, docs, page>>

-----------------------------------------------------------------------------
(* The documentation.                                                      *)

\* Register, when the server is put together: it panics without a document, and
\* the service does not come up.
Mount ==
    /\ docs.at = "starting"
    /\ docs' = IF spec = NoSpec THEN [docs EXCEPT !.at = "panicked"]
               ELSE [at |-> "serving", doc |-> withSecurityScheme(spec)]
    /\ UNCHANGED <<request, calls, lines, spec, readers, page>>

\* A raw handler: no envelope, no authentication, no line in the log.
HandleSpec ==
    /\ docs.at = "serving"
    /\ \E r \in readers : page' = [reader |-> r, doc |-> handleSpec(docs.doc, r)]
    /\ UNCHANGED <<request, calls, lines, spec, readers, docs>>

CallNext(t) ==
    \/ Send(t) \/ Enter(t) \/ Limit(t) \/ TokenAuth(t) \/ Validator(t) \/ Serve(t)
    \/ RequestLogger(t) \/ Recover(t) \/ Leave(t) \/ LeaveChain(t) \/ Answer(t) \/ Receive(t)

Next ==
    \/ \E t \in Transport : CallNext(t)
    \/ BindQuery \/ BindBody \/ Decode
    \/ Mount \/ HandleSpec

Spec == Init /\ [][Next]_vars

-----------------------------------------------------------------------------
(* Chains.                                                                 *)

\* Whatever is validated has been authenticated.
AuthFirst ==
    \A i \in DOMAIN Chain : Chain[i] = "validate" => \E j \in 1 .. i - 1 : Chain[j] = "auth"

\* README.md:241: recovery, logging, ratelimit, auth, validate, from the outermost
\* in.  A limit is optional, and the layer that makes a span is left out.
Ordered ==
    /\ Len(Chain) > 2 /\ Chain[1] = "recovery" /\ Chain[2] = "logging"
    /\ \A i \in 3 .. Len(Chain) : Chain[i] \in {"ratelimit", "auth", "validate"}
    /\ \E i \in DOMAIN Chain : Chain[i] = "validate"
    /\ AuthFirst

-----------------------------------------------------------------------------
(* Properties.                                                             *)

\* Every variable has its type; a call in the chain has a message of its
\* operation's type, and one that is past the chain has a result.
TypeOK ==
    /\ docs.at \in {"starting", "serving", "panicked"}
    /\ page = Nothing \/ page.reader \in readers
    /\ \A t \in Transport :
         /\ calls[t].at \in {"start", "bind", "in", "out", "reply", "answered", "done"}
         /\ calls[t].depth \in 0 .. Len(Chain) + 1
         /\ calls[t].claims \in BOOLEAN /\ calls[t].failed \in BOOLEAN
         /\ calls[t].at # "start" => calls[t].op \in Operation
         /\ calls[t].at = "in" => calls[t].message \in Message(calls[t].op)
         /\ calls[t].at \in {"out", "reply", "answered", "done"} =>
              calls[t].result.kind \in Kind

\* The message that reaches the chain, if one does.
Decoded(r) == IF r.body = "message" /\ r.op # "GetProfile" THEN r.message ELSE Zero(r.op)

\* What ServiceApi knows of a request.
Asked(r) == [op |-> r.op, body |-> r.body, token |-> r.token, self |-> r.self,
             rules |-> r.rules, outcome |-> r.outcome,
             invalid |-> Violations(r.op, Decoded(r)) # {}]

\* What the code does where its comments promise something else.  TokenAuth returns
\* the verifier's own error (auth.go:60-63; 48-49 has unauthorizedErr instead), and
\* toBadRequest wraps what ProtoValidator passes through (validate.go:89-104; 31-32
\* has "surfaces as a 500").
Deviations ==
    {[cause |-> "expired", answer |-> [code |-> 401, reason |-> "AUTH_TOKEN_EXPIRED"]],
     [cause |-> "unverifiable", answer |-> [code |-> 500, reason |-> ""]],
     [cause |-> "broken", answer |-> [code |-> 400, reason |-> "VALIDATION_FAILED"]]}

\* And where logging.go:13-16 promises one line that tells the outcome: the decoder
\* runs before the chain and a panic goes past RequestLogger, so neither leaves a
\* line; a reply is encoded after its line was written.
LogDeviations ==
    {[cause |-> "malformed", log |-> <<>>], [cause |-> "panic", log |-> <<>>],
     [cause |-> "unencodable", log |-> <<[code |-> 0, reason |-> "", level |-> "info"]>>]}

Api == INSTANCE ServiceApi WITH
    Limits <- \E i \in DOMAIN Chain : Chain[i] = "ratelimit",
    request <- Asked(request),
    answer <- [t \in Transport |-> IF calls[t].at = "done" THEN calls[t].answer ELSE Nothing],
    lines <- [t \in Transport |-> IF calls[t].at = "done" THEN lines[t] ELSE <<>>]

\* The answer is the one the first thing wrong calls for, in the order that the
\* chain is built in, and the log has one line that tells it (logging.go:13-24,
\* auth.go:47-49, validate.go:31-32 and 97-99, codec.go:15-27), but for the causes
\* under Deviations and LogDeviations, where the code does not keep its comments:
\* there, it may do what is named there instead, and nothing else.
Implements == Api!Spec

Done(t) == calls[t].at = "done"

\* "runs identically on HTTP and gRPC so the two transports cannot drift"
\* (validate.go:23-24), for all of the chain: the same well-formed request gets
\* the same code over both, unless a limiter refused one of them.  A generated
\* client returns it as an error over gRPC only.
Agree ==
    /\ /\ \A t \in Transport : Done(t) /\ calls[t].answer.code # 429
       /\ request.body # "malformed"
       => calls["http"].answer.code = calls["grpc"].answer.code
    /\ ~calls["http"].failed
    /\ Done("grpc") => calls["grpc"].failed = (calls["grpc"].answer.code # 0)

\* README.md:241 puts auth outside of validate: without a verified token, a call of
\* a protected operation gets no further than the auth layer, whichever transport
\* and route it takes, and no claims.
IdentityFirst ==
    request.op \in Protected /\ request.token # "good" =>
        \A t \in Transport :
            /\ ~calls[t].claims
            /\ calls[t].at = "in" =>
                 \A i \in 1 .. calls[t].depth - 1 : Chain[i] \notin {"auth", "validate"}

\* docs.go:66-70 and 155-158: what a reader gets has one security requirement at
\* the top and one scheme for it under the one components key, every server in it
\* is the origin that was asked, and all else is as it was generated.
SpecSound == page # Nothing => Sound(page.doc, spec, page.reader)

=============================================================================
