---------------------------- MODULE ServiceProofs ----------------------------
(***************************************************************************)
(* Proofs about Service: for any chain that is put together in the order   *)
(* README.md:241 gives, any operations it protects and any request, the    *)
(* answer and the line in the log are the ones that ServiceApi calls for,  *)
(* and the two transports agree; and for any generated document and any    *)
(* reader, what is read is sound.                                          *)
(***************************************************************************)
EXTENDS Service, SequenceFacts

-----------------------------------------------------------------------------
(* The inductive invariant.                                                *)

\* Why a request is answered as it is, by the names that ServiceApi gives.
Wrong == {"none", "expired", "unverifiable", "refuses", "fails", "broken", "invalid"}
OwnOutcome == {"reply", "unencodable", "not found", "exists", "unimplemented", "error", "panic"}
Reason == {"malformed", "limited"} \cup Wrong \cup OwnOutcome

\* What the layers inside of recovery return.
Made(t, cause) ==
    CASE cause = "malformed" -> IF t = "http" THEN KratosError(400, "CODEC") ELSE KratosError(500, "")
      [] cause = "limited" -> KratosError(429, "RATELIMIT")
      [] cause = "none" -> KratosError(401, "AUTH_UNAUTHORIZED")
      [] cause = "expired" -> KratosError(401, "AUTH_TOKEN_EXPIRED")
      [] cause = "refuses" -> KratosError(400, "USER_INVALID_ARGUMENT")
      [] cause \in {"fails", "broken", "invalid"} -> KratosError(400, "VALIDATION_FAILED")
      [] cause = "reply" -> Reply
      [] cause = "unencodable" -> Unencodable
      [] cause = "not found" -> KratosError(404, "USER_NOT_FOUND")
      [] cause = "exists" -> KratosError(409, "USER_ALREADY_EXISTS")
      [] cause = "unimplemented" -> Unimplemented
      [] cause \in {"unverifiable", "error"} -> PlainError
      [] cause = "panic" -> Panic

\* The answer that ServiceApi sees, and the log: as promised, or as deviated from.
AnswerOf(t, cause) ==
    CASE cause = "expired" -> [code |-> 401, reason |-> "AUTH_TOKEN_EXPIRED"]
      [] cause = "unverifiable" -> [code |-> 500, reason |-> ""]
      [] cause = "broken" -> [code |-> 400, reason |-> "VALIDATION_FAILED"]
      [] OTHER -> Api!Outcome(t, cause)

Noted(t, cause) ==
    CASE cause \in {"malformed", "panic"} -> <<>>
      [] cause = "unencodable" -> <<[code |-> 0, reason |-> "", level |-> "info"]>>
      [] OTHER -> Api!Line(AnswerOf(t, cause))

\* What is left of it outside of recovery, and what goes on the wire.
Recovered(result) == IF result = Panic THEN KratosError(500, "UNKNOWN") ELSE result

Wire(t, result) ==
    IF t = "http"
    THEN IF IsError(result) THEN ErrorEncoder(result) ELSE ResponseEncoder(result)
    ELSE [status |-> ToGRPC(result), reason |-> result.reason]

Unverified(r) == r.op \in Protected /\ r.token # "good"
Passes(r) ==
    /\ r.self \in {"absent", "passes"} /\ r.rules = "compiled"
    /\ Violations(r.op, Decoded(r)) = {}

Causes(t, r) == Api!Cause(t, Asked(r))

\* Where a call is, with what: whatever the chain.
Traveling(r, t, c) ==
    /\ c.at \in {"start", "bind", "in", "out", "reply", "answered", "done"}
    /\ c.depth \in 0 .. Len(Chain) + 1
    /\ c.claims \in BOOLEAN /\ c.failed \in BOOLEAN
    /\ c.at # "start" => c.op = r.op
    /\ c.at = "in" =>
         /\ c.depth > 0 /\ c.message = Decoded(r)
         /\ ~Api!Undecodable(t, Asked(r))
         /\ \A i \in 1 .. c.depth - 1 : Chain[i] = "auth" => ~Unverified(r)
    /\ c.claims => r.token = "good"
    /\ c.at \in {"out", "reply", "answered", "done"} => c.result.kind \in Kind

\* What the answer and the log are going to be: in an ordered chain.
Told(r, t, c, ls) ==
    /\ c.at \in {"start", "bind", "in"} => ls = <<>>
    /\ c.at = "in" => \A i \in 1 .. c.depth - 1 : Chain[i] = "validate" => Passes(r)
    /\ c.at = "out" => \E cause \in Causes(t, r) \ {"malformed"} :
         /\ c.result = IF c.depth = 0 THEN Recovered(Made(t, cause)) ELSE Made(t, cause)
         /\ ls = IF c.depth > 1 THEN <<>> ELSE Noted(t, cause)
    /\ c.at = "reply" => \E cause \in Causes(t, r) :
         c.result = Recovered(Made(t, cause)) /\ ls = Noted(t, cause)
    /\ c.at = "answered" => \E cause \in Causes(t, r) :
         c.answer = Wire(t, Recovered(Made(t, cause))) /\ ls = Noted(t, cause)
    /\ c.at = "done" => \E cause \in Causes(t, r) :
         c.answer = Api!Visible(t, AnswerOf(t, cause)) /\ ls = Noted(t, cause)
    /\ c.failed <=> c.at = "done" /\ t = "grpc" /\ c.answer.code # 0

CallFields == {"at", "depth", "op", "message", "claims", "result", "answer", "failed"}
Shape ==
    /\ IsRequest(request)
    /\ docs.at \in {"starting", "serving", "panicked"}
    /\ page = Nothing \/ page.reader \in readers
    /\ DOMAIN calls = Transport /\ DOMAIN lines = Transport
    /\ \A t \in Transport : DOMAIN calls[t] = CallFields

TravelInv == Shape /\ \A t \in Transport : Traveling(request, t, calls[t])
TellInv == TravelInv /\ \A t \in Transport : Told(request, t, calls[t], lines[t])

-----------------------------------------------------------------------------
(* The generated API.                                                      *)

\* A call of an operation is served by that operation alone.
LEMMA Addressed ==
    ASSUME NEW t \in Transport, NEW op \in Operation, NEW o \in ServedAt(t, Address(t, op))
    PROVE  o = op
<1> DEFINE Routes == AuthHTTPRoutes \cup UserHTTPRoutes
<1>1. CASE t = "http"
  <2>1. PICK r \in Routes :
          o = r.op /\ [method |-> r.method, path |-> r.path] = Address("http", op)
    BY <1>1, Zenon DEF ServedAt
  <2>2. r.method = Address("http", op).method /\ r.path = Address("http", op).path
    <3> DEFINE address == [method |-> r.method, path |-> r.path]
    <3>1. address.method = r.method /\ address.path = r.path
      OBVIOUS
    <3> QED
      BY <3>1, <2>1, Zenon
  <2>3. CASE op \in AuthOperation
    <3>1. Address("http", op) = AuthHTTPClient[op]
      BY <2>3, Zenon DEF Address
    <3>2. \A x \in AuthHTTPRoutes : x.path = AuthHTTPClient[op].path => x.op = op
      BY <2>3 DEF AuthHTTPRoutes, AuthHTTPClient, AuthOperation
    <3>3. \A x \in UserHTTPRoutes : x.path # AuthHTTPClient[op].path
      BY <2>3 DEF UserHTTPRoutes, AuthHTTPClient, AuthOperation
    <3> QED
      BY <2>1, <2>2, <3>1, <3>2, <3>3
  <2>4. CASE op \in UserOperation
    <3>1. Address("http", op) = UserHTTPClient[op]
      BY <2>4 DEF Address, AuthOperation, UserOperation
    <3>2. \A x \in UserHTTPRoutes : x.method = UserHTTPClient[op].method => x.op = op
      BY <2>4 DEF UserHTTPRoutes, UserHTTPClient, UserOperation
    <3>3. \A x \in AuthHTTPRoutes : x.path # UserHTTPClient[op].path
      BY <2>4 DEF AuthHTTPRoutes, UserHTTPClient, UserOperation
    <3> QED
      BY <2>1, <2>2, <3>1, <3>2, <3>3
  <2> QED
    BY <2>3, <2>4 DEF Operation
<1>3. CASE t = "grpc" /\ op \in AuthOperation
  BY <1>3 DEF Address, ServedAt, AuthMethod, AuthServiceDesc, UserServiceDesc
<1>4. CASE t = "grpc" /\ op \in UserOperation
  BY <1>4 DEF Address, ServedAt, AuthOperation, UserOperation, UserMethod, AuthServiceDesc,
     UserServiceDesc
<1> QED
  BY <1>1, <1>3, <1>4 DEF Transport, Operation

LEMMA QueryBound ==
    ASSUME NEW op \in Operation
    PROVE  Binds[op] = IF op = "GetProfile" THEN "query" ELSE "body"
  BY DEF Binds, AuthBinds, UserBinds, Operation, AuthOperation, UserOperation

\* The message of a request without fields is the one of zeros.
LEMMA OnlyZero == ASSUME NEW m \in Message("GetProfile") PROVE m = Zero("GetProfile")
<1>1. Message("GetProfile") = [{} -> Text] /\ Field("GetProfile") = {}
  BY Zenon DEF Message, GetProfileRequest, Field
<1> QED
  BY <1>1 DEF Zero

\* A message of zeros is a message.
LEMMA ZeroTyped == ASSUME NEW op \in Operation PROVE Zero(op) \in Message(op)
<1> DEFINE z == ZeroText
           n == NoMask
<1>1. z \in Text /\ n \in FieldMask
  BY DEF ZeroText, Text, NoMask, FieldMask
<1>2. Zero(op) = [f \in Field(op) |-> IF f = "update_mask" THEN n ELSE z]
  BY DEF Zero, z, n
<1> HIDE DEF z, n
<1>3. CASE op = "Register"
  <2>1. Field(op) = {"username", "email", "password", "nickname", "phone"} /\ Message(op) = RegisterRequest
    BY <1>3, Zenon DEF Field, Message
  <2>2. Zero(op) = [username |-> z, email |-> z, password |-> z, nickname |-> z, phone |-> z]
    BY <1>2, <2>1
  <2> QED
    BY <2>1, <2>2, <1>1 DEF RegisterRequest
<1>4. CASE op = "Login"
  <2>1. Field(op) = {"username", "password"} /\ Message(op) = LoginRequest
    BY <1>4, Zenon DEF Field, Message
  <2>2. Zero(op) = [username |-> z, password |-> z]
    BY <1>2, <2>1
  <2> QED
    BY <2>1, <2>2, <1>1 DEF LoginRequest
<1>5. CASE op = "Logout"
  <2>1. Field(op) = {"access_token"} /\ Message(op) = LogoutRequest
    BY <1>5, Zenon DEF Field, Message
  <2>2. Zero(op) = [access_token |-> z]
    BY <1>2, <2>1
  <2> QED
    BY <2>1, <2>2, <1>1 DEF LogoutRequest
<1>6. CASE op = "RefreshToken"
  <2>1. Field(op) = {"refresh_token"} /\ Message(op) = RefreshTokenRequest
    BY <1>6, Zenon DEF Field, Message
  <2>2. Zero(op) = [refresh_token |-> z]
    BY <1>2, <2>1
  <2> QED
    BY <2>1, <2>2, <1>1 DEF RefreshTokenRequest
<1>7. CASE op = "ChangePassword"
  <2>1. Field(op) = {"old_password", "new_password"} /\ Message(op) = ChangePasswordRequest
    BY <1>7, Zenon DEF Field, Message
  <2>2. Zero(op) = [old_password |-> z, new_password |-> z]
    BY <1>2, <2>1
  <2> QED
    BY <2>1, <2>2, <1>1 DEF ChangePasswordRequest
<1>8. CASE op = "UpdateProfile"
  <2>1. Field(op) = {"phone", "nickname", "avatar", "update_mask"} /\ Message(op) = UpdateProfileRequest
    BY <1>8, Zenon DEF Field, Message
  <2>2. Zero(op) = [phone |-> z, nickname |-> z, avatar |-> z, update_mask |-> n]
    BY <1>2, <2>1
  <2> QED
    BY <2>1, <2>2, <1>1 DEF UpdateProfileRequest
<1>9. CASE op = "GetProfile"
  <2>1. Field(op) = {} /\ Message(op) = [{} -> Text]
    BY <1>9, Zenon DEF Field, Message, GetProfileRequest
  <2> QED
    BY <1>2, <2>1
<1> QED
  BY <1>3, <1>4, <1>5, <1>6, <1>7, <1>8, <1>9 DEF Operation, AuthOperation, UserOperation

\* What reaches the chain is a message of its operation.
LEMMA DecodedTyped == ASSUME NEW r, IsRequest(r) PROVE Decoded(r) \in Message(r.op)
  BY ZeroTyped DEF Decoded, IsRequest

-----------------------------------------------------------------------------
(* Outcomes.                                                               *)

Code == {400, 401, 404, 409, 429, 500, 501}
NoReason == ""

\* The parts of each result, and that the kinds are distinct.
LEMMA ErrorParts ==
    ASSUME NEW code, NEW reason
    PROVE  /\ KratosError(code, reason).kind = "error"
           /\ KratosError(code, reason).code = code
           /\ KratosError(code, reason).reason = reason
  BY DEF KratosError

LEMMA ReplyParts == Reply.kind = "reply" /\ Reply.code = 0 /\ Reply.reason = NoReason
  BY DEF Reply, NoReason

LEMMA UnencodableParts ==
    Unencodable.kind = "unencodable" /\ Unencodable.code = 0 /\ Unencodable.reason = NoReason
  BY DEF Unencodable, Reply, NoReason

LEMMA PlainParts == PlainError.kind = "plain" /\ PlainError.code = 500 /\ PlainError.reason = NoReason
  BY DEF PlainError, NoReason

LEMMA PanicKind == Panic.kind = "panic"
  BY DEF Panic

\* What a layer returns for a cause, against what ServiceApi makes of it.
Matches(result, o) ==
    /\ o = [code |-> result.code, reason |-> result.reason]
    /\ \/ result.kind = "error" /\ result.code \in Code
       \/ result = PlainError
       \/ result = Reply

LEMMA MatchesParts ==
    ASSUME NEW result, NEW o, Matches(result, o)
    PROVE  /\ result # Panic /\ result # Unencodable
           /\ o.code = result.code /\ o.reason = result.reason
<1>1. \/ result.kind = "error"
      \/ result = PlainError
      \/ result = Reply
  BY DEF Matches
<1>2. result # Panic /\ result # Unencodable
  BY <1>1, PlainParts, ReplyParts, PanicKind, UnencodableParts
<1>3. o = [code |-> result.code, reason |-> result.reason]
  BY DEF Matches
<1>4. o.code = result.code /\ o.reason = result.reason
  BY <1>3
<1> QED
  BY <1>2, <1>4

\* An answer, with its fields out of sight.
Says(code, reason) == [code |-> code, reason |-> reason]

LEMMA AnswerPromised ==
    ASSUME NEW t, NEW cause, cause \notin {"expired", "unverifiable", "broken"}
    PROVE  AnswerOf(t, cause) = Api!Outcome(t, cause)
  BY Zenon DEF AnswerOf

LEMMA AnswerIs ==
    ASSUME NEW t
    PROVE  /\ AnswerOf(t, "expired") = Says(401, "AUTH_TOKEN_EXPIRED")
           /\ AnswerOf(t, "unverifiable") = Says(500, NoReason)
           /\ AnswerOf(t, "broken") = Says(400, "VALIDATION_FAILED")
           /\ AnswerOf(t, "limited") = Says(429, "RATELIMIT")
           /\ AnswerOf(t, "none") = Says(401, "AUTH_UNAUTHORIZED")
           /\ AnswerOf(t, "refuses") = Says(400, "USER_INVALID_ARGUMENT")
           /\ AnswerOf(t, "fails") = Says(400, "VALIDATION_FAILED")
           /\ AnswerOf(t, "invalid") = Says(400, "VALIDATION_FAILED")
           /\ AnswerOf(t, "reply") = Says(0, NoReason)
           /\ AnswerOf(t, "exists") = Says(409, "USER_ALREADY_EXISTS")
           /\ AnswerOf(t, "unimplemented") = Says(501, NoReason)
           /\ AnswerOf(t, "panic") = Says(500, "UNKNOWN")
           /\ AnswerOf(t, "error") = Says(500, NoReason)
           /\ AnswerOf(t, "unencodable") = Says(500, NoReason)
<1>1. AnswerOf(t, "expired") = Says(401, "AUTH_TOKEN_EXPIRED")
  BY Zenon DEF AnswerOf, Says, NoReason
<1>2. AnswerOf(t, "unverifiable") = Says(500, NoReason)
  BY Zenon DEF AnswerOf, Says, NoReason
<1>3. AnswerOf(t, "broken") = Says(400, "VALIDATION_FAILED")
  BY Zenon DEF AnswerOf, Says, NoReason
<1>4. AnswerOf(t, "limited") = Says(429, "RATELIMIT")
  BY Zenon DEF AnswerOf, Says, Api!Outcome, NoReason
<1>5. AnswerOf(t, "none") = Says(401, "AUTH_UNAUTHORIZED")
  BY Zenon DEF AnswerOf, Says, Api!Outcome, NoReason
<1>6. AnswerOf(t, "refuses") = Says(400, "USER_INVALID_ARGUMENT")
  BY Zenon DEF AnswerOf, Says, Api!Outcome, NoReason
<1>7. AnswerOf(t, "fails") = Says(400, "VALIDATION_FAILED")
  BY Zenon DEF AnswerOf, Says, Api!Outcome, NoReason
<1>8. AnswerOf(t, "invalid") = Says(400, "VALIDATION_FAILED")
  BY Zenon DEF AnswerOf, Says, Api!Outcome, NoReason
<1>9. AnswerOf(t, "reply") = Says(0, NoReason)
  BY Zenon DEF AnswerOf, Says, Api!Outcome, NoReason
<1>10. AnswerOf(t, "exists") = Says(409, "USER_ALREADY_EXISTS")
  BY Zenon DEF AnswerOf, Says, Api!Outcome, NoReason
<1>11. AnswerOf(t, "unimplemented") = Says(501, NoReason)
  BY Zenon DEF AnswerOf, Says, Api!Outcome, NoReason
<1>12. AnswerOf(t, "panic") = Says(500, "UNKNOWN")
  BY Zenon DEF AnswerOf, Says, Api!Outcome, NoReason
<1>13. AnswerOf(t, "error") = Says(500, NoReason)
  BY Zenon DEF AnswerOf, Says, Api!Outcome, NoReason
<1>14. AnswerOf(t, "unencodable") = Says(500, NoReason)
  BY Zenon DEF AnswerOf, Says, Api!Outcome, NoReason
<1> QED
  BY <1>1, <1>2, <1>3, <1>4, <1>5, <1>6, <1>7, <1>8, <1>9, <1>10, <1>11, <1>12, <1>13, <1>14

LEMMA NotFoundIs == ASSUME NEW t PROVE AnswerOf(t, "not found") = Says(404, "USER_NOT_FOUND")
  BY ZenonT(30) DEF AnswerOf, Says, Api!Outcome, NoReason

LEMMA UndecodedIs ==
    /\ AnswerOf("http", "malformed") = Says(400, "CODEC")
    /\ AnswerOf("grpc", "malformed") = Says(500, NoReason)
<1>1. AnswerOf("http", "malformed") = Says(400, "CODEC")
  BY ZenonT(20) DEF AnswerOf, Says, Api!Outcome, NoReason
<1>2. AnswerOf("grpc", "malformed") = Says(500, NoReason)
  BY ZenonT(20) DEF AnswerOf, Says, Api!Outcome, NoReason
<1> QED
  BY <1>1, <1>2

\* Cause by cause.
LEMMA MadeMatches ==
    ASSUME NEW t \in Transport, NEW cause \in Reason \ {"panic", "unencodable"}
    PROVE  Matches(Made(t, cause), AnswerOf(t, cause))
<1>1. CASE cause = "malformed" /\ t = "http"
  <2>1. Made(t, cause) = [kind |-> "error", code |-> 400, reason |-> "CODEC"]
    BY <1>1 DEF Made, KratosError
  <2>2. AnswerOf(t, cause) = Says(400, "CODEC")
    BY <1>1, UndecodedIs
  <2>3. 400 \in Code
    BY DEF Code
  <2> QED
    BY <2>1, <2>2, <2>3 DEF Matches, Says
<1>2. CASE cause = "malformed" /\ t = "grpc"
  <2>1. Made(t, cause) = KratosError(500, NoReason)
    BY <1>2 DEF Made, NoReason
  <2>2. AnswerOf(t, cause) = Says(500, NoReason)
    BY <1>2, UndecodedIs
  <2>3. 500 \in Code
    BY DEF Code
  <2> QED
    BY <2>1, <2>2, <2>3, ErrorParts DEF Matches, Says
<1>3. CASE cause = "limited"
  <2>1. Made(t, cause) = [kind |-> "error", code |-> 429, reason |-> "RATELIMIT"]
    BY <1>3 DEF Made, KratosError
  <2>2. AnswerOf(t, cause) = Says(429, "RATELIMIT")
    BY <1>3, AnswerIs
  <2>3. 429 \in Code
    BY DEF Code
  <2> QED
    BY <2>1, <2>2, <2>3 DEF Matches, Says
<1>4. CASE cause = "none"
  <2>1. Made(t, cause) = [kind |-> "error", code |-> 401, reason |-> "AUTH_UNAUTHORIZED"]
    BY <1>4 DEF Made, KratosError
  <2>2. AnswerOf(t, cause) = Says(401, "AUTH_UNAUTHORIZED")
    BY <1>4, AnswerIs
  <2>3. 401 \in Code
    BY DEF Code
  <2> QED
    BY <2>1, <2>2, <2>3 DEF Matches, Says
<1>5. CASE cause = "expired"
  <2>1. Made(t, cause) = [kind |-> "error", code |-> 401, reason |-> "AUTH_TOKEN_EXPIRED"]
    BY <1>5 DEF Made, KratosError
  <2>2. AnswerOf(t, cause) = Says(401, "AUTH_TOKEN_EXPIRED")
    BY <1>5, AnswerIs
  <2>3. 401 \in Code
    BY DEF Code
  <2> QED
    BY <2>1, <2>2, <2>3 DEF Matches, Says
<1>6. CASE cause = "refuses"
  <2>1. Made(t, cause) = [kind |-> "error", code |-> 400, reason |-> "USER_INVALID_ARGUMENT"]
    BY <1>6 DEF Made, KratosError
  <2>2. AnswerOf(t, cause) = Says(400, "USER_INVALID_ARGUMENT")
    BY <1>6, AnswerIs
  <2>3. 400 \in Code
    BY DEF Code
  <2> QED
    BY <2>1, <2>2, <2>3 DEF Matches, Says
<1>7. CASE cause = "fails"
  <2>1. Made(t, cause) = [kind |-> "error", code |-> 400, reason |-> "VALIDATION_FAILED"]
    BY <1>7 DEF Made, KratosError
  <2>2. AnswerOf(t, cause) = Says(400, "VALIDATION_FAILED")
    BY <1>7, AnswerIs
  <2>3. 400 \in Code
    BY DEF Code
  <2> QED
    BY <2>1, <2>2, <2>3 DEF Matches, Says
<1>8. CASE cause = "broken"
  <2>1. Made(t, cause) = [kind |-> "error", code |-> 400, reason |-> "VALIDATION_FAILED"]
    BY <1>8 DEF Made, KratosError
  <2>2. AnswerOf(t, cause) = Says(400, "VALIDATION_FAILED")
    BY <1>8, AnswerIs
  <2>3. 400 \in Code
    BY DEF Code
  <2> QED
    BY <2>1, <2>2, <2>3 DEF Matches, Says
<1>9. CASE cause = "invalid"
  <2>1. Made(t, cause) = [kind |-> "error", code |-> 400, reason |-> "VALIDATION_FAILED"]
    BY <1>9 DEF Made, KratosError
  <2>2. AnswerOf(t, cause) = Says(400, "VALIDATION_FAILED")
    BY <1>9, AnswerIs
  <2>3. 400 \in Code
    BY DEF Code
  <2> QED
    BY <2>1, <2>2, <2>3 DEF Matches, Says
<1>10. CASE cause = "not found"
  <2>1. Made(t, cause) = [kind |-> "error", code |-> 404, reason |-> "USER_NOT_FOUND"]
    BY <1>10 DEF Made, KratosError
  <2>2. AnswerOf(t, cause) = Says(404, "USER_NOT_FOUND")
    BY <1>10, NotFoundIs
  <2>3. 404 \in Code
    BY DEF Code
  <2> QED
    BY <2>1, <2>2, <2>3 DEF Matches, Says
<1>11. CASE cause = "exists"
  <2>1. Made(t, cause) = [kind |-> "error", code |-> 409, reason |-> "USER_ALREADY_EXISTS"]
    BY <1>11 DEF Made, KratosError
  <2>2. AnswerOf(t, cause) = Says(409, "USER_ALREADY_EXISTS")
    BY <1>11, AnswerIs
  <2>3. 409 \in Code
    BY DEF Code
  <2> QED
    BY <2>1, <2>2, <2>3 DEF Matches, Says
<1>12. CASE cause = "unimplemented"
  <2>1. Made(t, cause) = KratosError(501, NoReason)
    BY <1>12 DEF Made, Unimplemented, NoReason
  <2>2. AnswerOf(t, cause) = Says(501, NoReason)
    BY <1>12, AnswerIs
  <2>3. 501 \in Code
    BY DEF Code
  <2> QED
    BY <2>1, <2>2, <2>3, ErrorParts DEF Matches, Says
<1>13. CASE cause \in {"unverifiable", "error"}
  <2>1. Made(t, cause) = PlainError
    BY <1>13 DEF Made
  <2>2. AnswerOf(t, cause) = Says(500, NoReason)
    BY <1>13, AnswerIs
  <2> QED
    BY <2>1, <2>2, PlainParts, ReplyParts DEF Matches, Says
<1>14. CASE cause = "reply"
  <2>1. Made(t, cause) = Reply
    BY <1>14 DEF Made
  <2>2. AnswerOf(t, cause) = Says(0, NoReason)
    BY <1>14, AnswerIs
  <2> QED
    BY <2>1, <2>2, PlainParts, ReplyParts DEF Matches, Says
<1> QED
  BY <1>1, <1>2, <1>3, <1>4, <1>5, <1>6, <1>7, <1>8, <1>9, <1>10, <1>11, <1>12, <1>13, <1>14
  DEF Reason, Wrong, OwnOutcome, Transport

LEMMA MadePanic ==
    ASSUME NEW t
    PROVE  Made(t, "panic") = Panic /\ Made(t, "unencodable") = Unencodable
  BY DEF Made

\* A panic that has been recovered is an error like another.
LEMMA RecoveredMatches ==
    ASSUME NEW t \in Transport, NEW cause \in Reason \ {"unencodable"}
    PROVE  Matches(Recovered(Made(t, cause)), AnswerOf(t, cause))
<1>1. CASE cause = "panic"
  <2>1. Recovered(Made(t, cause)) = [kind |-> "error", code |-> 500, reason |-> "UNKNOWN"]
    BY <1>1, MadePanic DEF Recovered, KratosError
  <2>2. AnswerOf(t, cause) = Says(500, "UNKNOWN")
    BY <1>1, AnswerIs
  <2>3. 500 \in Code
    BY DEF Code
  <2> QED
    BY <2>1, <2>2, <2>3 DEF Matches, Says
<1>2. CASE cause # "panic"
  <2>1. Matches(Made(t, cause), AnswerOf(t, cause))
    BY <1>2, MadeMatches
  <2>2. Made(t, cause) # Panic
    BY <2>1, MatchesParts
  <2> QED
    BY <2>1, <2>2 DEF Recovered
<1> QED
  BY <1>1, <1>2

\* The severity of a line is the level ServiceApi gives its code.
LEMMA SeverityIs ==
    ASSUME NEW result, NEW o, Matches(result, o)
    PROVE  Severity(result) = Api!Level(o.code)
<1>1. CASE result.kind = "error" /\ result.code \in Code
  <2>1. o.code = result.code
    BY DEF Matches
  <2>2. Severity(result) = IF result.code >= 500 \/ result.code = 0 THEN "error" ELSE "warn"
    BY <1>1 DEF Severity, IsError
  <2>3. \A code \in Code :
          Api!Level(code) = IF code >= 500 \/ code = 0 THEN "error" ELSE "warn"
    BY DEF Api!Level, Code
  <2> QED
    BY <1>1, <2>1, <2>2, <2>3
<1>2. CASE result = PlainError
  <2>1. result.kind = "plain" /\ result.code = 500
    BY <1>2, PlainParts
  <2>2. IsError(result)
    BY <2>1 DEF IsError
  <2>3. Severity(result) = "error"
    BY <2>1, <2>2 DEF Severity
  <2>4. Api!Level(500) = "error"
    BY DEF Api!Level
  <2>5. o.code = result.code
    BY MatchesParts
  <2> QED
    BY <2>1, <2>3, <2>4, <2>5
<1>3. CASE result = Reply
  <2>1. ~IsError(result) /\ o.code = 0
    BY <1>3, ReplyParts, MatchesParts DEF IsError
  <2>2. Severity(result) = "info"
    BY <2>1 DEF Severity
  <2>3. Api!Level(0) = "info"
    BY DEF Api!Level
  <2> QED
    BY <2>1, <2>2, <2>3
<1> QED
  BY <1>1, <1>2, <1>3 DEF Matches

\* The line that RequestLogger writes is the one that ServiceApi has.
LEMMA LoggedIs ==
    ASSUME NEW t \in Transport, NEW cause \in Reason \ {"malformed"}
    PROVE  Noted(t, cause) =
             IF Made(t, cause) = Panic THEN <<>>
             ELSE <<[code |-> Made(t, cause).code, reason |-> Made(t, cause).reason,
                     level |-> Severity(Made(t, cause))]>>
<1>1. CASE cause = "panic"
  BY <1>1, MadePanic DEF Noted
<1>2. CASE cause = "unencodable"
  <2>1. Severity(Unencodable) = "info" /\ Unencodable # Panic
    BY UnencodableParts, PanicKind DEF Severity, IsError
  <2>2. Noted(t, cause) = <<[code |-> 0, reason |-> NoReason, level |-> "info"]>>
    BY <1>2 DEF Noted, NoReason
  <2>3. Made(t, cause) = Unencodable
    BY <1>2, MadePanic
  <2> QED
    BY <2>1, <2>2, <2>3, UnencodableParts
<1>3. CASE cause \notin {"panic", "unencodable"}
  <2> DEFINE m == Made(t, cause)
             o == AnswerOf(t, cause)
  <2>1. Matches(m, o)
    BY <1>3, MadeMatches
  <2>2. m # Panic /\ o.code = m.code /\ o.reason = m.reason
    BY <2>1, MatchesParts
  <2>3. Api!Level(o.code) = Severity(m)
    BY <2>1, SeverityIs
  <2>4. Noted(t, cause) =
          <<[code |-> o.code, reason |-> o.reason, level |-> Api!Level(o.code)]>>
    BY <1>3 DEF Noted, Api!Line
  <2> QED
    BY <2>2, <2>3, <2>4
<1> QED
  BY <1>1, <1>2, <1>3

\* The codes of kratos survive the way to gRPC's and back.
LEMMA GRPCCode ==
    ASSUME NEW result, result.kind = "error", result.code \in Code
    PROVE  FromGRPC(ToGRPC(result)) = result.code /\ ToGRPC(result) # "OK"
<1>1. CASE result.code = 400
  <2>1. ToGRPC(result) = "InvalidArgument"
    BY <1>1 DEF ToGRPC
  <2> QED
    BY <1>1, <2>1 DEF FromGRPC
<1>2. CASE result.code = 401
  <2>1. ToGRPC(result) = "Unauthenticated"
    BY <1>2 DEF ToGRPC
  <2> QED
    BY <1>2, <2>1 DEF FromGRPC
<1>3. CASE result.code = 404
  <2>1. ToGRPC(result) = "NotFound"
    BY <1>3 DEF ToGRPC
  <2> QED
    BY <1>3, <2>1 DEF FromGRPC
<1>4. CASE result.code = 409
  <2>1. ToGRPC(result) = "Aborted"
    BY <1>4 DEF ToGRPC
  <2> QED
    BY <1>4, <2>1 DEF FromGRPC
<1>5. CASE result.code = 429
  <2>1. ToGRPC(result) = "ResourceExhausted"
    BY <1>5 DEF ToGRPC
  <2> QED
    BY <1>5, <2>1 DEF FromGRPC
<1>6. CASE result.code = 500
  <2>1. ToGRPC(result) = "Internal"
    BY <1>6 DEF ToGRPC
  <2> QED
    BY <1>6, <2>1 DEF FromGRPC
<1>7. CASE result.code = 501
  <2>1. ToGRPC(result) = "Unimplemented"
    BY <1>7 DEF ToGRPC
  <2> QED
    BY <1>7, <2>1 DEF FromGRPC
<1> QED
  BY <1>1, <1>2, <1>3, <1>4, <1>5, <1>6, <1>7 DEF Code

\* So do a success and what has no code of kratos.
LEMMA GRPCOther ==
    /\ ToGRPC(Reply) = "OK" /\ FromGRPC("OK") = 0
    /\ ToGRPC(PlainError) = "Unknown" /\ FromGRPC("Unknown") = 500
    /\ ToGRPC(Unencodable) = "Internal" /\ FromGRPC("Internal") = 500
<1>1. ToGRPC(Reply) = "OK"
  BY ReplyParts DEF ToGRPC
<1>2. ToGRPC(PlainError) = "Unknown"
  BY PlainParts DEF ToGRPC
<1>3. ToGRPC(Unencodable) = "Internal"
  BY UnencodableParts DEF ToGRPC
<1>4. FromGRPC("OK") = 0 /\ FromGRPC("Unknown") = 500 /\ FromGRPC("Internal") = 500
  BY DEF FromGRPC
<1> QED
  BY <1>1, <1>2, <1>3, <1>4

\* The result that is on its way out of the server for a cause, in the four ways
\* it can look.
LEMMA Outgoing ==
    ASSUME NEW t \in Transport, NEW cause \in Reason,
           NEW m, m = Recovered(Made(t, cause)), NEW o, o = AnswerOf(t, cause)
    PROVE  \/ m.kind = "error" /\ m.code \in Code /\ o.code = m.code /\ o.reason = m.reason
           \/ m = PlainError /\ o.code = 500 /\ o.reason = NoReason
           \/ m = Unencodable /\ o.code = 500 /\ o.reason = NoReason
           \/ m = Reply /\ o.code = 0 /\ o.reason = NoReason
<1>1. CASE cause = "unencodable"
  <2>1. Made(t, cause) = Unencodable
    BY <1>1, MadePanic
  <2>2. Unencodable # Panic
    BY UnencodableParts, PanicKind
  <2>3. AnswerOf(t, cause) = Says(500, NoReason)
    BY <1>1, AnswerIs
  <2> QED
    BY <2>1, <2>2, <2>3 DEF Recovered, Says
<1>2. CASE cause # "unencodable"
  <2>1. Matches(m, o)
    BY <1>2, RecoveredMatches
  <2>2. o.code = m.code /\ o.reason = m.reason
    BY <2>1, MatchesParts
  <2> QED
    BY <2>1, <2>2, PlainParts, ReplyParts DEF Matches
<1> QED
  BY <1>1, <1>2

\* Over HTTP the code arrives in the envelope, under status 200 whatever it is.
LEMMA EnvelopeArrives ==
    ASSUME NEW cause \in Reason
    PROVE  Wire("http", Recovered(Made("http", cause))) =
             [status |-> 200, code |-> AnswerOf("http", cause).code]
<1> DEFINE m == Recovered(Made("http", cause))
           o == AnswerOf("http", cause)
<1>1. "http" \in Transport
  BY DEF Transport
<1>2. \/ m.kind = "error" /\ o.code = m.code
      \/ m = PlainError /\ o.code = 500
      \/ m = Unencodable /\ o.code = 500
      \/ m = Reply /\ o.code = 0
  BY <1>1, Outgoing
<1> HIDE DEF m, o
<1>3. CASE IsError(m)
  <2>1. o.code = m.code
    BY <1>2, <1>3, PlainParts, UnencodableParts, ReplyParts DEF IsError
  <2> QED
    BY <1>3, <2>1 DEF Wire, ErrorEncoder, WriteEnvelope, m, o
<1>4. CASE ~IsError(m)
  <2>1. \/ m = Unencodable /\ o.code = 500
        \/ m = Reply /\ o.code = 0
    BY <1>2, <1>4, PlainParts DEF IsError
  <2>2. Wire("http", m) = ResponseEncoder(m)
    BY <1>4 DEF Wire
  <2>3. CASE m = Unencodable /\ o.code = 500
    <3>1. marshalData(m) = PlainError /\ IsError(PlainError) /\ PlainError.code = 500
      BY <2>3, PlainParts DEF marshalData, IsError
    <3>2. ResponseEncoder(m) = WriteEnvelope(500)
      BY <3>1 DEF ResponseEncoder, ErrorEncoder
    <3> QED
      BY <2>2, <2>3, <3>2 DEF WriteEnvelope, m, o
  <2>4. CASE m = Reply /\ o.code = 0
    <3>1. marshalData(m) = Reply /\ ~IsError(Reply)
      BY <2>4, ReplyParts, UnencodableParts DEF marshalData, IsError
    <3>2. ResponseEncoder(m) = WriteEnvelope(0)
      BY <3>1 DEF ResponseEncoder
    <3> QED
      BY <2>2, <2>4, <3>2 DEF WriteEnvelope, m, o
  <2> QED
    BY <2>1, <2>3, <2>4
<1> QED
  BY <1>3, <1>4

\* Over gRPC the code comes back from the status, and the reason is there.
LEMMA StatusArrives ==
    ASSUME NEW cause \in Reason, NEW o, o = AnswerOf("grpc", cause),
           NEW w, w = Wire("grpc", Recovered(Made("grpc", cause)))
    PROVE  /\ FromGRPC(w.status) = o.code /\ w.reason = o.reason
           /\ w.status # "OK" <=> o.code # 0
<1> DEFINE m == Recovered(Made("grpc", cause))
<1>1. "grpc" \in Transport
  BY DEF Transport
<1>2. \/ m.kind = "error" /\ m.code \in Code /\ o.code = m.code /\ o.reason = m.reason
      \/ m = PlainError /\ o.code = 500 /\ o.reason = NoReason
      \/ m = Unencodable /\ o.code = 500 /\ o.reason = NoReason
      \/ m = Reply /\ o.code = 0 /\ o.reason = NoReason
  BY <1>1, Outgoing
<1> HIDE DEF m
<1>3. w.status = ToGRPC(m) /\ w.reason = m.reason
  BY DEF Wire, m
<1>4. CASE m.kind = "error" /\ m.code \in Code /\ o.code = m.code /\ o.reason = m.reason
  <2>1. FromGRPC(ToGRPC(m)) = m.code /\ ToGRPC(m) # "OK" /\ m.code # 0
    BY <1>4, GRPCCode DEF Code
  <2> QED
    BY <1>3, <1>4, <2>1
<1> QED
  BY <1>2, <1>3, <1>4, GRPCOther, PlainParts, UnencodableParts, ReplyParts

-----------------------------------------------------------------------------
(* The steps of a call.                                                    *)

LEMMA BoundMoves ==
    ASSUME Shape, NEW t \in Transport, NEW message, Bound(t, message)
    PROVE  calls' = [calls EXCEPT ![t] = [calls[t] EXCEPT !.at = "in", !.depth = 1, !.message = message]]
  BY DEF Bound, Shape, CallFields

LEMMA ReturnMoves ==
    ASSUME Shape, NEW t \in Transport, NEW result, Return(t, result)
    PROVE  calls' = [calls EXCEPT ![t] = [calls[t] EXCEPT !.at = "out", !.depth = calls[t].depth - 1, !.result = result]]
  BY DEF Return, Shape, CallFields

LEMMA SendMoves ==
    ASSUME Shape, NEW t \in Transport, Send(t)
    PROVE  calls' = [calls EXCEPT ![t] = [calls[t] EXCEPT !.at = "bind", !.op = request.op]]
<1>1. PICK op \in ServedAt(t, Address(t, request.op)) : calls' = [calls EXCEPT ![t].at = "bind", ![t].op = op]
  BY DEF Send
<1>2. op = request.op
  BY Addressed DEF Shape, IsRequest
<1> QED
  BY <1>1, <1>2

LEMMA CausesNamed ==
    ASSUME NEW r, IsRequest(r), NEW t
    PROVE  Causes(t, r) \subseteq Reason
  BY DEF Causes, Api!Cause, Asked, IsRequest, Reason, Wrong, OwnOutcome, Api!Unauthenticated

LEMMA Malformed ==
    ASSUME NEW r, NEW t, Api!Undecodable(t, Asked(r))
    PROVE  "malformed" \in Causes(t, r)
  BY DEF Causes, Api!Cause

LEMMA Limited ==
    ASSUME NEW r, NEW t, ~Api!Undecodable(t, Asked(r)),
           NEW i \in DOMAIN Chain, Chain[i] = "ratelimit"
    PROVE  "limited" \in Causes(t, r)
  BY DEF Causes, Api!Cause

LEMMA NotVerified ==
    ASSUME NEW r, NEW t, ~Api!Undecodable(t, Asked(r)), Unverified(r)
    PROVE  r.token \in Causes(t, r)
  BY DEF Causes, Api!Cause, Asked, Unverified, Api!Unauthenticated

LEMMA NotValid ==
    ASSUME NEW r, NEW t, IsRequest(r), ~Api!Undecodable(t, Asked(r)), ~Unverified(r)
    PROVE  /\ r.self \in {"refuses", "fails"} => r.self \in Causes(t, r)
           /\ r.self \in {"absent", "passes"} /\ r.rules = "broken" => "broken" \in Causes(t, r)
           /\ r.self \in {"absent", "passes"} /\ r.rules = "compiled"
              /\ Violations(r.op, Decoded(r)) # {} => "invalid" \in Causes(t, r)
           /\ Passes(r) => r.outcome \in Causes(t, r)
  BY DEF Causes, Api!Cause, Asked, Unverified, Api!Unauthenticated, Passes, IsRequest

\* A result is one of the kinds there are.
LEMMA MadeKinds == ASSUME NEW t \in Transport, NEW cause \in Reason PROVE Made(t, cause).kind \in Kind
<1>1. CASE cause = "panic"
  BY <1>1, MadePanic, PanicKind DEF Kind
<1>2. CASE cause = "unencodable"
  BY <1>2, MadePanic, UnencodableParts DEF Kind
<1>3. CASE cause \notin {"panic", "unencodable"}
  <2>1. Matches(Made(t, cause), AnswerOf(t, cause))
    BY <1>3, MadeMatches
  <2> QED
    BY <2>1, PlainParts, ReplyParts DEF Matches, Kind
<1> QED
  BY <1>1, <1>2, <1>3

LEMMA ChainDomain == DOMAIN Chain = 1 .. Len(Chain) /\ Len(Chain) \in Nat
  BY ServiceAssumption

\* The moves of one call, as far as they do not depend on the order of the chain.
LEMMA SentTravels ==
    ASSUME NEW r, NEW t, NEW c, DOMAIN c = CallFields, Traveling(r, t, c), c.at = "start",
           NEW d, d = [c EXCEPT !.at = "bind", !.op = r.op]
    PROVE  Traveling(r, t, d) /\ DOMAIN d = CallFields
<1>1. d.at = "bind" /\ d.op = r.op /\ d.depth = c.depth /\ d.claims = c.claims /\ d.failed = c.failed
  BY DEF CallFields
<1> QED
  BY <1>1 DEF Traveling

LEMMA BoundTravels ==
    ASSUME NEW r, NEW t, NEW c, DOMAIN c = CallFields, Traveling(r, t, c), c.at = "bind",
           ~Api!Undecodable(t, Asked(r)),
           NEW d, d = [c EXCEPT !.at = "in", !.depth = 1, !.message = Decoded(r)]
    PROVE  Traveling(r, t, d) /\ DOMAIN d = CallFields
<1>1. /\ d.at = "in" /\ d.depth = 1 /\ d.message = Decoded(r)
      /\ d.op = c.op /\ d.claims = c.claims /\ d.failed = c.failed
  BY DEF CallFields
<1> QED
  BY <1>1, ChainDomain DEF Traveling

LEMMA UnboundTravels ==
    ASSUME NEW r, NEW t, NEW c, DOMAIN c = CallFields, Traveling(r, t, c), c.at = "bind",
           NEW e, e.kind \in Kind, NEW d, d = [c EXCEPT !.at = "reply", !.result = e]
    PROVE  Traveling(r, t, d) /\ DOMAIN d = CallFields
<1>1. /\ d.at = "reply" /\ d.result = e
      /\ d.op = c.op /\ d.depth = c.depth /\ d.claims = c.claims /\ d.failed = c.failed
  BY DEF CallFields
<1> QED
  BY <1>1 DEF Traveling

LEMMA InwardsTravels ==
    ASSUME NEW r, NEW t, NEW c, DOMAIN c = CallFields, Traveling(r, t, c), c.at = "in",
           c.depth \in DOMAIN Chain, Chain[c.depth] = "auth" => ~Unverified(r),
           NEW claims \in BOOLEAN, claims => c.claims \/ r.token = "good",
           NEW d, d = [c EXCEPT !.depth = c.depth + 1, !.claims = claims]
    PROVE  Traveling(r, t, d) /\ DOMAIN d = CallFields
<1>1. /\ d.at = "in" /\ d.depth = c.depth + 1 /\ d.claims = claims
      /\ d.op = c.op /\ d.message = c.message /\ d.failed = c.failed
  BY DEF CallFields
<1>2. \A i \in 1 .. d.depth - 1 : i \in 1 .. c.depth - 1 \/ i = c.depth
  BY <1>1, ChainDomain
<1>3. \A i \in 1 .. d.depth - 1 : Chain[i] = "auth" => ~Unverified(r)
  BY <1>2 DEF Traveling
<1> QED
  BY <1>1, <1>3, ChainDomain DEF Traveling

LEMMA ReturnTravels ==
    ASSUME NEW r, NEW t, NEW c, DOMAIN c = CallFields, Traveling(r, t, c), c.at = "in",
           NEW e, e.kind \in Kind,
           NEW d, d = [c EXCEPT !.at = "out", !.depth = c.depth - 1, !.result = e]
    PROVE  Traveling(r, t, d) /\ DOMAIN d = CallFields
<1>1. /\ d.at = "out" /\ d.depth = c.depth - 1 /\ d.result = e
      /\ d.op = c.op /\ d.claims = c.claims /\ d.failed = c.failed
  BY DEF CallFields
<1> QED
  BY <1>1, ChainDomain DEF Traveling

LEMMA OutwardsTravels ==
    ASSUME NEW r, NEW t, NEW c, DOMAIN c = CallFields, Traveling(r, t, c), c.at = "out",
           c.depth \in DOMAIN Chain, NEW e, e.kind \in Kind,
           NEW d, d = [c EXCEPT !.depth = c.depth - 1, !.result = e]
    PROVE  Traveling(r, t, d) /\ DOMAIN d = CallFields
<1>1. /\ d.at = "out" /\ d.depth = c.depth - 1 /\ d.result = e
      /\ d.op = c.op /\ d.claims = c.claims /\ d.failed = c.failed
  BY DEF CallFields
<1> QED
  BY <1>1, ChainDomain DEF Traveling

LEMMA LaterTravels ==
    ASSUME NEW r, NEW t, NEW c, DOMAIN c = CallFields, Traveling(r, t, c),
           c.at \in {"out", "reply", "answered"},
           NEW at \in {"reply", "answered", "done"}, NEW answer, NEW failed \in BOOLEAN,
           NEW d, d = [c EXCEPT !.at = at, !.failed = failed, !.answer = answer]
    PROVE  Traveling(r, t, d) /\ DOMAIN d = CallFields
<1>1. /\ d.at = at /\ d.failed = failed /\ d.depth = c.depth /\ d.result = c.result
      /\ d.op = c.op /\ d.claims = c.claims
  BY DEF CallFields
<1> QED
  BY <1>1 DEF Traveling

-----------------------------------------------------------------------------
(* Where a call may be: whatever the chain.                                *)

\* A step of one call that leaves the documentation alone.
LEMMA TravelOne ==
    ASSUME TravelInv, NEW t \in Transport,
           NEW d, Traveling(request, t, d) /\ DOMAIN d = CallFields,
           calls' = [calls EXCEPT ![t] = d],
           UNCHANGED <<request, readers, docs, page>>, DOMAIN lines' = Transport
    PROVE  TravelInv'
<1>1. Shape'
  BY DEF TravelInv, Shape
<1>2. ASSUME NEW s \in Transport
      PROVE  Traveling(request, s, calls[s])'
  <2>1. Traveling(request, s, calls[s])' = Traveling(request, s, calls'[s])
    BY DEF Traveling
  <2>2. calls'[s] = IF s = t THEN d ELSE calls[s]
    BY DEF TravelInv, Shape
  <2> QED
    BY <2>1, <2>2 DEF TravelInv
<1> QED
  BY <1>1, <1>2 DEF TravelInv

LEMMA InitTravels == ASSUME Init PROVE TravelInv
<1>1. Shape
  BY ServiceAssumption DEF Init, Shape, NoCall, CallFields
<1>2. \A t \in Transport : Traveling(request, t, calls[t])
  <2> SUFFICES ASSUME NEW t \in Transport
               PROVE  Traveling(request, t, calls[t])
    OBVIOUS
  <2>1. calls[t].at = "start" /\ calls[t].depth = 0 /\ ~calls[t].claims /\ ~calls[t].failed
    BY DEF Init, NoCall
  <2>2. calls[t].claims \in BOOLEAN /\ calls[t].failed \in BOOLEAN
    BY DEF Init, NoCall
  <2> QED
    BY <2>1, <2>2, ChainDomain DEF Traveling
<1> QED
  BY <1>1, <1>2 DEF TravelInv

LEMMA SendTravels == ASSUME TravelInv, NEW t \in Transport, Send(t) PROVE TravelInv'
<1> DEFINE d == [calls[t] EXCEPT !.at = "bind", !.op = request.op]
<1>1. calls' = [calls EXCEPT ![t] = d]
  BY SendMoves DEF TravelInv
<1>2. calls[t].at = "start" /\ Traveling(request, t, calls[t]) /\ DOMAIN calls[t] = CallFields
  BY DEF Send, TravelInv, Shape
<1>3. UNCHANGED <<request, readers, docs, page>> /\ DOMAIN lines' = Transport
  BY DEF Send, TravelInv, Shape
<1>4. Traveling(request, t, d) /\ DOMAIN d = CallFields
  BY <1>2, SentTravels
<1> HIDE DEF d
<1> QED
  BY <1>1, <1>3, <1>4, TravelOne

\* What comes of binding: the message that is to be decided on, or the error of
\* a request that cannot be decoded.
Binding(t) == \/ t = "http" /\ (BindQuery \/ BindBody)
              \/ t = "grpc" /\ Decode

LEMMA Decoding ==
    ASSUME TravelInv, NEW t \in Transport, Binding(t)
    PROVE  /\ calls[t].at = "bind" /\ UNCHANGED <<request, lines, spec, readers, docs, page>>
           /\ \/ Bound(t, Decoded(request)) /\ ~Api!Undecodable(t, Asked(request))
              \/ Unbound(t, Made(t, "malformed")) /\ Api!Undecodable(t, Asked(request))
<1>1. calls[t].at = "bind" /\ UNCHANGED <<request, lines, spec, readers, docs, page>>
  BY DEF Binding, BindQuery, BindBody, Decode
<1>2. calls[t].op = request.op /\ IsRequest(request)
  BY <1>1 DEF TravelInv, Shape, Traveling
<1>3. Api!Undecodable(t, Asked(request)) <=>
        request.body = "malformed" /\ ~(t = "http" /\ request.op = "GetProfile")
  BY DEF Api!Undecodable, Asked
<1>4. request.op \in Operation
  BY <1>2 DEF IsRequest
<1>5. CASE t = "http" /\ BindQuery
  <2>1. request.op = "GetProfile" /\ Bound(t, Zero(request.op))
    BY <1>2, <1>4, <1>5, QueryBound DEF BindQuery
  <2>2. Decoded(request) = Zero(request.op)
    BY <2>1 DEF Decoded
  <2> QED
    BY <1>1, <1>3, <1>5, <2>1, <2>2
<1>6. CASE t = "http" /\ BindBody
  <2>1. request.op # "GetProfile"
    BY <1>2, <1>4, <1>6, QueryBound DEF BindBody
  <2>2. request.body = "malformed" => Unbound(t, Made(t, "malformed"))
    BY <1>6, Zenon DEF BindBody, Made
  <2>3. request.body # "malformed" => Bound(t, Decoded(request))
    <3>1. request.body = "empty" => Bound(t, Zero(request.op))
      BY <1>2, <1>6 DEF BindBody
    <3>2. request.body = "message" => Bound(t, request.message)
      BY <1>6 DEF BindBody
    <3> QED
      BY <1>2, <2>1, <3>1, <3>2 DEF Decoded, IsRequest
  <2> QED
    BY <1>1, <1>3, <1>6, <2>1, <2>2, <2>3
<1>7. CASE t = "grpc" /\ Decode
  <2>1. request.body = "malformed" => Unbound(t, Made(t, "malformed"))
    BY <1>7, Zenon DEF Decode, Made
  <2>2. request.body # "malformed" => Bound(t, Decoded(request))
    <3>1. request.body = "empty" => Bound(t, Zero(request.op))
      BY <1>2, <1>7 DEF Decode
    <3>2. request.body = "message" => Bound(t, request.message)
      BY <1>7 DEF Decode
    <3>3. request.op = "GetProfile" => request.message = Zero(request.op)
      BY <1>2, OnlyZero DEF IsRequest
    <3> QED
      BY <1>2, <3>1, <3>2, <3>3 DEF Decoded, IsRequest
  <2> QED
    BY <1>1, <1>3, <1>7, <2>1, <2>2
<1> QED
  BY <1>5, <1>6, <1>7 DEF Binding

LEMMA BindTravels == ASSUME TravelInv, NEW t \in Transport, Binding(t) PROVE TravelInv'
<1>1. Traveling(request, t, calls[t]) /\ DOMAIN calls[t] = CallFields
  BY DEF TravelInv, Shape
<1>2. calls[t].at = "bind" /\ UNCHANGED <<request, readers, docs, page>> /\ DOMAIN lines' = Transport
  BY Decoding DEF TravelInv, Shape
<1>3. CASE Bound(t, Decoded(request)) /\ ~Api!Undecodable(t, Asked(request))
  <2> DEFINE d == [calls[t] EXCEPT !.at = "in", !.depth = 1, !.message = Decoded(request)]
  <2>1. calls' = [calls EXCEPT ![t] = d]
    BY <1>3, BoundMoves DEF TravelInv
  <2>2. Traveling(request, t, d) /\ DOMAIN d = CallFields
    BY <1>1, <1>2, <1>3, BoundTravels
  <2> HIDE DEF d
  <2> QED
    BY <1>2, <2>1, <2>2, TravelOne
<1>4. CASE Unbound(t, Made(t, "malformed"))
  <2> DEFINE e == Made(t, "malformed")
             d == [calls[t] EXCEPT !.at = "reply", !.result = e]
  <2>1. calls' = [calls EXCEPT ![t] = d]
    BY <1>4 DEF Unbound, TravelInv, Shape, CallFields
  <2>2. e.kind \in Kind
    BY MadeKinds DEF Reason
  <2> HIDE DEF e
  <2>3. Traveling(request, t, d) /\ DOMAIN d = CallFields
    BY <1>1, <1>2, <2>2, UnboundTravels
  <2> HIDE DEF d
  <2> QED
    BY <1>2, <2>1, <2>3, TravelOne
<1> QED
  BY <1>3, <1>4, Decoding

-----------------------------------------------------------------------------
(* Through the layers.                                                     *)

\* An error is not nil.
LEMMA NotNil ==
    /\ \A code \in Nat, reason \in ErrorReason : KratosError(code, reason) # Nothing
    /\ PlainError # Nothing
<1>1. \A code \in Nat, reason \in ErrorReason : KratosError(code, reason) \in Returned
  BY DEF KratosError, Returned, Kind
<1>2. PlainError \in Returned
  <2>1. NoReason \in ErrorReason
    BY Zenon DEF NoReason, ErrorReason
  <2>2. PlainError = [kind |-> "plain", code |-> 500, reason |-> NoReason]
    BY Zenon DEF PlainError, NoReason
  <2> QED
    BY <2>1, <2>2 DEF Returned, Kind
<1> QED
  BY <1>1, <1>2, ServiceAssumption

\* What a layer found, to return there and then for a cause.
Found(r, depth, cause) ==
    \/ depth > Len(Chain) /\ cause = r.outcome
    \/ /\ depth \in DOMAIN Chain
       /\ \/ Chain[depth] = "ratelimit" /\ cause = "limited"
          \/ Chain[depth] = "auth" /\ Unverified(r) /\ cause = r.token
          \/ /\ Chain[depth] = "validate"
             /\ \/ r.self \in {"refuses", "fails"} /\ cause = r.self
                \/ /\ r.self \in {"absent", "passes"}
                   /\ \/ r.rules = "broken" /\ cause = "broken"
                      \/ /\ r.rules = "compiled" /\ Violations(r.op, Decoded(r)) # {}
                         /\ cause = "invalid"

\* What a layer that lets the request by has made sure of.
Clear(r, depth) ==
    /\ depth \in DOMAIN Chain
    /\ Chain[depth] = "auth" => ~Unverified(r)
    /\ Chain[depth] = "validate" => Passes(r)

Deeper(t) ==
    \E claims \in BOOLEAN :
        /\ claims => calls[t].claims \/ request.token = "good"
        /\ calls' = [calls EXCEPT ![t] =
                       [calls[t] EXCEPT !.depth = calls[t].depth + 1, !.claims = claims]]

Layers(t) == Enter(t) \/ Limit(t) \/ TokenAuth(t) \/ Validator(t) \/ Serve(t)

LEMMA InwardsDeeper ==
    ASSUME Shape, NEW t \in Transport, calls[t].claims \in BOOLEAN, Inwards(t)
    PROVE  Deeper(t)
<1>1. calls' = [calls EXCEPT ![t] = [calls[t] EXCEPT !.depth = calls[t].depth + 1, !.claims = calls[t].claims]]
  BY DEF Inwards, Shape, CallFields
<1> QED
  BY <1>1 DEF Deeper

LEMMA EnterFinds ==
    ASSUME TravelInv, NEW t \in Transport, Enter(t)
    PROVE  Clear(request, calls[t].depth) /\ Deeper(t)
<1>1. calls[t].claims \in BOOLEAN /\ Shape
  BY DEF TravelInv, Traveling
<1> QED
  BY <1>1, InwardsDeeper DEF Enter, At, Clear

LEMMA LimitFinds ==
    ASSUME TravelInv, NEW t \in Transport, Limit(t)
    PROVE  \/ Clear(request, calls[t].depth) /\ Deeper(t)
           \/ \E cause \in Reason : Found(request, calls[t].depth, cause) /\ Return(t, Made(t, cause))
<1>1. calls[t].claims \in BOOLEAN /\ Shape
  BY DEF TravelInv, Traveling
<1>2. CASE Inwards(t)
  BY <1>1, <1>2, InwardsDeeper DEF Limit, At, Clear
<1>3. CASE Return(t, KratosError(429, "RATELIMIT"))
  <2>1. Made(t, "limited") = KratosError(429, "RATELIMIT")
    BY DEF Made
  <2>2. Found(request, calls[t].depth, "limited")
    BY DEF Limit, At, Found
  <2> QED
    BY <1>3, <2>1, <2>2 DEF Reason
<1> QED
  BY <1>2, <1>3 DEF Limit

LEMMA TokenAuthFinds ==
    ASSUME TravelInv, NEW t \in Transport, TokenAuth(t)
    PROVE  \/ Clear(request, calls[t].depth) /\ Deeper(t)
           \/ \E cause \in Reason : Found(request, calls[t].depth, cause) /\ Return(t, Made(t, cause))
<1>1. calls[t].claims \in BOOLEAN /\ Shape /\ IsRequest(request)
  BY DEF TravelInv, Traveling, Shape
<1>2. /\ calls[t].at = "in" /\ calls[t].depth \in DOMAIN Chain /\ Chain[calls[t].depth] = "auth"
      /\ calls[t].op = request.op
  BY DEF TokenAuth, At, TravelInv, Traveling
<1>3. CASE calls[t].op \notin Protected
  <2>1. Inwards(t)
    BY <1>3 DEF TokenAuth
  <2> QED
    BY <1>1, <1>2, <1>3, <2>1, InwardsDeeper DEF Clear, Unverified
<1>4. CASE calls[t].op \in Protected /\ request.token = "good"
  <2>1. calls' = [calls EXCEPT ![t].depth = @ + 1, ![t].claims = TRUE]
    BY <1>4 DEF TokenAuth
  <2>2. calls' = [calls EXCEPT ![t] = [calls[t] EXCEPT !.depth = calls[t].depth + 1, !.claims = TRUE]]
    BY <2>1, <1>1 DEF Shape, CallFields
  <2>3. Deeper(t)
    BY <1>4, <2>2 DEF Deeper
  <2> QED
    BY <1>2, <1>4, <2>3 DEF Clear, Unverified
<1>5. CASE calls[t].op \in Protected /\ request.token # "good"
  <2>1. request.token \in {"none", "expired", "unverifiable"}
    BY <1>1, <1>5 DEF IsRequest
  <2>2. Return(t, Made(t, request.token))
    <3>1. CASE request.token = "none"
      BY <1>5, <3>1 DEF TokenAuth, Made
    <3>2. CASE request.token = "expired"
      BY <1>5, <3>2 DEF TokenAuth, Made
    <3>3. CASE request.token = "unverifiable"
      BY <1>5, <3>3 DEF TokenAuth, Made
    <3> QED
      BY <2>1, <3>1, <3>2, <3>3
  <2>3. Found(request, calls[t].depth, request.token)
    BY <1>2, <1>5 DEF Found, Unverified
  <2> QED
    BY <2>1, <2>2, <2>3 DEF Reason, Wrong
<1> QED
  BY <1>3, <1>4, <1>5

LEMMA ValidatorFinds ==
    ASSUME TravelInv, NEW t \in Transport, Validator(t)
    PROVE  \/ Clear(request, calls[t].depth) /\ Deeper(t)
           \/ \E cause \in Reason : Found(request, calls[t].depth, cause) /\ Return(t, Made(t, cause))
<1> DEFINE refused == KratosError(400, "USER_INVALID_ARGUMENT")
           failed == KratosError(400, "VALIDATION_FAILED")
           self == SelfValidate(request)
           proto == ProtoValidator(request, calls[t].op, calls[t].message)
           violated == Violations(request.op, Decoded(request)) # {}
<1>1. calls[t].claims \in BOOLEAN /\ Shape /\ IsRequest(request)
  BY DEF TravelInv, Traveling, Shape
<1>2. /\ calls[t].at = "in" /\ calls[t].depth \in DOMAIN Chain /\ Chain[calls[t].depth] = "validate"
      /\ calls[t].op = request.op /\ calls[t].message = Decoded(request)
  BY DEF Validator, At, TravelInv, Traveling
<1>3. /\ self # Nothing => Return(t, toBadRequest(self))
      /\ self = Nothing /\ proto # Nothing => Return(t, toBadRequest(proto))
      /\ self = Nothing /\ proto = Nothing => Inwards(t)
  BY DEF Validator
<1>4. refused # Nothing /\ failed # Nothing /\ PlainError # Nothing
  <2>1. 400 \in Nat
    OBVIOUS
  <2>2. "USER_INVALID_ARGUMENT" \in ErrorReason /\ "VALIDATION_FAILED" \in ErrorReason
    BY Zenon DEF ErrorReason
  <2> QED
    BY <2>1, <2>2, NotNil, Zenon
<1>5. toBadRequest(refused) = refused /\ toBadRequest(failed) = failed /\ toBadRequest(PlainError) = failed
  BY ErrorParts, PlainParts DEF toBadRequest
<1>6. /\ request.self \in {"absent", "passes"} => self = Nothing
      /\ request.self = "refuses" => self = refused
      /\ request.self = "fails" => self = PlainError
  BY DEF SelfValidate
<1>7. /\ request.rules = "broken" => proto = PlainError
      /\ request.rules # "broken" /\ violated => proto = failed
      /\ request.rules # "broken" /\ ~violated => proto = Nothing
  BY <1>2 DEF ProtoValidator
<1>8. /\ Made(t, "refuses") = refused /\ Made(t, "fails") = failed
      /\ Made(t, "broken") = failed /\ Made(t, "invalid") = failed
  BY DEF Made
<1>9. /\ request.self \in {"absent", "passes", "refuses", "fails"}
      /\ request.rules \in {"compiled", "broken"}
  BY <1>1 DEF IsRequest
<1>10. {"refuses", "fails", "broken", "invalid"} \subseteq Reason
  BY DEF Reason, Wrong
<1> HIDE DEF refused, failed, self, proto, violated
<1>11. CASE request.self \in {"refuses", "fails"}
  <2>1. Return(t, Made(t, request.self))
    BY <1>3, <1>4, <1>5, <1>6, <1>8, <1>11
  <2>2. Found(request, calls[t].depth, request.self)
    BY <1>2, <1>11 DEF Found
  <2> QED
    BY <2>1, <2>2, <1>10, <1>11
<1>12. CASE request.self \in {"absent", "passes"} /\ request.rules = "broken"
  <2>1. Return(t, Made(t, "broken"))
    BY <1>3, <1>4, <1>5, <1>6, <1>7, <1>8, <1>12
  <2>2. Found(request, calls[t].depth, "broken")
    BY <1>2, <1>12 DEF Found
  <2> QED
    BY <2>1, <2>2, <1>10
<1>13. CASE request.self \in {"absent", "passes"} /\ request.rules = "compiled" /\ violated
  <2>1. Return(t, Made(t, "invalid"))
    BY <1>3, <1>4, <1>5, <1>6, <1>7, <1>8, <1>13
  <2>2. Found(request, calls[t].depth, "invalid")
    BY <1>2, <1>13 DEF Found, violated
  <2> QED
    BY <2>1, <2>2, <1>10
<1>14. CASE request.self \in {"absent", "passes"} /\ request.rules = "compiled" /\ ~violated
  <2>1. Inwards(t)
    BY <1>3, <1>6, <1>7, <1>14
  <2>2. Clear(request, calls[t].depth)
    BY <1>2, <1>14 DEF Clear, Passes, violated
  <2> QED
    BY <1>1, <2>1, <2>2, InwardsDeeper
<1> QED
  BY <1>9, <1>11, <1>12, <1>13, <1>14

LEMMA ServeFinds ==
    ASSUME TravelInv, NEW t \in Transport, Serve(t)
    PROVE  \E cause \in Reason : Found(request, calls[t].depth, cause) /\ Return(t, Made(t, cause))
<1>1. request.outcome \in OwnOutcome
  BY DEF TravelInv, Shape, IsRequest, OwnOutcome
<1>2. Found(request, calls[t].depth, request.outcome)
  BY DEF Serve, Found
<1>3. Return(t, Outcome(request))
  BY DEF Serve
<1>4. Outcome(request) = Made(t, request.outcome)
  <2>1. CASE request.outcome = "reply"
    BY <2>1 DEF Outcome, Made
  <2>2. CASE request.outcome = "unencodable"
    BY <2>2 DEF Outcome, Made
  <2>3. CASE request.outcome = "not found"
    BY <2>3, ZenonT(20) DEF Outcome, Made
  <2>4. CASE request.outcome = "exists"
    BY <2>4 DEF Outcome, Made
  <2>5. CASE request.outcome = "unimplemented"
    BY <2>5 DEF Outcome, Made
  <2>6. CASE request.outcome = "error"
    BY <2>6 DEF Outcome, Made
  <2>7. CASE request.outcome = "panic"
    BY <2>7 DEF Outcome, Made
  <2> QED
    BY <1>1, <2>1, <2>2, <2>3, <2>4, <2>5, <2>6, <2>7 DEF OwnOutcome
<1> QED
  BY <1>1, <1>2, <1>3, <1>4 DEF Reason

\* Whatever layer it is: it lets the request by, or returns for what it found.
LEMMA LayersFind ==
    ASSUME TravelInv, NEW t \in Transport, Layers(t)
    PROVE  /\ calls[t].at = "in"
           /\ UNCHANGED <<request, lines, spec, readers, docs, page>>
           /\ \/ Clear(request, calls[t].depth) /\ Deeper(t)
              \/ \E cause \in Reason :
                   Found(request, calls[t].depth, cause) /\ Return(t, Made(t, cause))
<1>1. calls[t].at = "in" /\ UNCHANGED <<request, lines, spec, readers, docs, page>>
  BY DEF Layers, Enter, Limit, TokenAuth, Validator, Serve, At
<1> QED
  BY <1>1, EnterFinds, LimitFinds, TokenAuthFinds, ValidatorFinds, ServeFinds, Zenon DEF Layers

LEMMA LayersTravel == ASSUME TravelInv, NEW t \in Transport, Layers(t) PROVE TravelInv'
<1>1. Traveling(request, t, calls[t]) /\ DOMAIN calls[t] = CallFields
  BY DEF TravelInv, Shape
<1>2. /\ calls[t].at = "in" /\ UNCHANGED <<request, readers, docs, page>>
      /\ DOMAIN lines' = Transport
  BY LayersFind DEF TravelInv, Shape
<1>3. CASE Clear(request, calls[t].depth) /\ Deeper(t)
  <2>1. PICK claims \in BOOLEAN :
          /\ claims => calls[t].claims \/ request.token = "good"
          /\ calls' = [calls EXCEPT ![t] =
                         [calls[t] EXCEPT !.depth = calls[t].depth + 1, !.claims = claims]]
    BY <1>3 DEF Deeper
  <2> DEFINE d == [calls[t] EXCEPT !.depth = calls[t].depth + 1, !.claims = claims]
  <2>2. Traveling(request, t, d) /\ DOMAIN d = CallFields
    BY <1>1, <1>2, <1>3, <2>1, InwardsTravels DEF Clear
  <2>3. calls' = [calls EXCEPT ![t] = d]
    BY <2>1
  <2> HIDE DEF d
  <2> QED
    BY <1>2, <2>2, <2>3, TravelOne
<1>4. ASSUME NEW cause \in Reason, Return(t, Made(t, cause))
      PROVE  TravelInv'
  <2> DEFINE e == Made(t, cause)
             d == [calls[t] EXCEPT !.at = "out", !.depth = calls[t].depth - 1, !.result = e]
  <2>1. calls' = [calls EXCEPT ![t] = d]
    BY <1>4, ReturnMoves DEF TravelInv
  <2>2. e.kind \in Kind
    BY MadeKinds
  <2> HIDE DEF e
  <2>3. Traveling(request, t, d) /\ DOMAIN d = CallFields
    BY <1>1, <1>2, <2>2, ReturnTravels
  <2> HIDE DEF d
  <2> QED
    BY <1>2, <2>1, <2>3, TravelOne
<1> QED
  BY <1>3, <1>4, LayersFind

\* On the way back a layer may put another result in the place of its own.
Outer(t) == RequestLogger(t) \/ Recover(t) \/ Leave(t)

LEMMA OuterMoves ==
    ASSUME TravelInv, NEW t \in Transport, Outer(t)
    PROVE  /\ calls[t].at = "out" /\ calls[t].depth \in DOMAIN Chain
           /\ UNCHANGED <<request, spec, readers, docs, page>>
           /\ LET e == IF Chain[calls[t].depth] = "recovery" THEN Recovered(calls[t].result)
                       ELSE calls[t].result
              IN  calls' = [calls EXCEPT ![t] =
                              [calls[t] EXCEPT !.depth = calls[t].depth - 1, !.result = e]]
<1>1. /\ calls[t].at = "out" /\ calls[t].depth \in DOMAIN Chain
      /\ UNCHANGED <<request, spec, readers, docs, page>>
  BY DEF Outer, RequestLogger, Recover, Leave, At
<1> DEFINE e == IF Chain[calls[t].depth] = "recovery" THEN Recovered(calls[t].result)
                ELSE calls[t].result
           d == [calls[t] EXCEPT !.depth = calls[t].depth - 1, !.result = e]
<1>2. CASE Recover(t)
  <2>1. e = Recovered(calls[t].result)
    BY <1>2 DEF Recover, At
  <2>2. calls' = [calls EXCEPT ![t].depth = @ - 1, ![t].result = Recovered(@)]
    BY <1>2 DEF Recover, Recovered
  <2>3. calls' = [calls EXCEPT ![t] = d]
    BY <2>1, <2>2 DEF TravelInv, Shape, CallFields
  <2> QED
    BY <1>1, <2>3
<1>3. CASE RequestLogger(t) \/ Leave(t)
  <2>1. e = calls[t].result
    BY <1>3 DEF RequestLogger, Leave, At
  <2>2. calls' = [calls EXCEPT ![t].depth = @ - 1]
    BY <1>3 DEF RequestLogger, Leave, Outwards
  <2>3. calls' = [calls EXCEPT ![t] = d]
    BY <2>1, <2>2 DEF TravelInv, Shape, CallFields
  <2> QED
    BY <1>1, <2>3
<1> QED
  BY <1>2, <1>3 DEF Outer

LEMMA OuterTravels == ASSUME TravelInv, NEW t \in Transport, Outer(t) PROVE TravelInv'
<1> DEFINE e == IF Chain[calls[t].depth] = "recovery" THEN Recovered(calls[t].result)
                ELSE calls[t].result
           d == [calls[t] EXCEPT !.depth = calls[t].depth - 1, !.result = e]
<1>1. Traveling(request, t, calls[t]) /\ DOMAIN calls[t] = CallFields
  BY DEF TravelInv, Shape
<1>2. /\ calls[t].at = "out" /\ calls[t].depth \in DOMAIN Chain
      /\ UNCHANGED <<request, readers, docs, page>>
      /\ calls' = [calls EXCEPT ![t] = d]
  BY OuterMoves
<1>3. DOMAIN lines' = Transport
  BY DEF Outer, RequestLogger, Recover, Leave, TravelInv, Shape
<1>4. e.kind \in Kind
  BY <1>1, <1>2, ErrorParts DEF Traveling, Recovered, Kind
<1> HIDE DEF e
<1>5. Traveling(request, t, d) /\ DOMAIN d = CallFields
  BY <1>1, <1>2, <1>4, OutwardsTravels
<1> HIDE DEF d
<1> QED
  BY <1>2, <1>3, <1>5, TravelOne

\* Past the chain.
Later(t) == LeaveChain(t) \/ Answer(t) \/ Receive(t)

LEMMA LaterMoves ==
    ASSUME TravelInv, NEW t \in Transport, Later(t)
    PROVE  /\ calls[t].at \in {"out", "reply", "answered"}
           /\ UNCHANGED <<request, lines, spec, readers, docs, page>>
           /\ \E at \in {"reply", "answered", "done"}, failed \in BOOLEAN : \E answer :
                calls' = [calls EXCEPT ![t] =
                            [calls[t] EXCEPT !.at = at, !.failed = failed, !.answer = answer]]
<1>1. /\ calls[t].at \in {"out", "reply", "answered"}
      /\ UNCHANGED <<request, lines, spec, readers, docs, page>>
  BY DEF Later, LeaveChain, Answer, Receive
<1>2. calls[t].failed \in BOOLEAN /\ DOMAIN calls[t] = CallFields /\ DOMAIN calls = Transport
  BY DEF TravelInv, Shape, Traveling
<1>3. CASE LeaveChain(t)
  <2>1. calls' = [calls EXCEPT ![t] =
                    [calls[t] EXCEPT !.at = "reply", !.failed = calls[t].failed, !.answer = calls[t].answer]]
    BY <1>2, <1>3 DEF LeaveChain, CallFields
  <2> QED
    BY <1>1, <1>2, <2>1
<1>4. CASE Answer(t)
  <2>1. PICK answer : calls' = [calls EXCEPT ![t].at = "answered", ![t].answer = answer]
    BY <1>4, Zenon DEF Answer
  <2>2. calls' = [calls EXCEPT ![t] =
                    [calls[t] EXCEPT !.at = "answered", !.failed = calls[t].failed, !.answer = answer]]
    BY <1>2, <2>1 DEF CallFields
  <2> QED
    BY <1>1, <1>2, <2>2
<1>5. CASE Receive(t)
  <2>1. PICK failed \in BOOLEAN : \E answer :
          calls' = [calls EXCEPT ![t].at = "done", ![t].failed = failed, ![t].answer = answer]
    <3> DEFINE wire == calls[t].answer
               failed == IF t = "http" THEN wire.status # 200 ELSE wire.status # "OK"
    <3>1. failed \in BOOLEAN
      OBVIOUS
    <3> QED
      BY <1>5, <3>1, Zenon DEF Receive
  <2>2. PICK answer :
          calls' = [calls EXCEPT ![t].at = "done", ![t].failed = failed, ![t].answer = answer]
    BY <2>1
  <2>3. calls' = [calls EXCEPT ![t] =
                    [calls[t] EXCEPT !.at = "done", !.failed = failed, !.answer = answer]]
    BY <1>2, <2>2 DEF CallFields
  <2> QED
    BY <1>1, <2>1, <2>3
<1> QED
  BY <1>3, <1>4, <1>5 DEF Later

LEMMA LaterTravel == ASSUME TravelInv, NEW t \in Transport, Later(t) PROVE TravelInv'
<1> DEFINE c == calls[t]
<1>1. Traveling(request, t, c) /\ DOMAIN c = CallFields
  BY DEF TravelInv, Shape
<1>2. /\ c.at \in {"out", "reply", "answered"}
      /\ UNCHANGED <<request, readers, docs, page>> /\ DOMAIN lines' = Transport
  BY LaterMoves DEF TravelInv, Shape
<1>3. PICK at \in {"reply", "answered", "done"}, failed \in BOOLEAN : \E answer :
        calls' = [calls EXCEPT ![t] =
                    [c EXCEPT !.at = at, !.failed = failed, !.answer = answer]]
  BY LaterMoves
<1>4. PICK answer :
        calls' = [calls EXCEPT ![t] =
                    [c EXCEPT !.at = at, !.failed = failed, !.answer = answer]]
  BY <1>3
<1> DEFINE d == [c EXCEPT !.at = at, !.failed = failed, !.answer = answer]
<1>5. calls' = [calls EXCEPT ![t] = d]
  BY <1>4
<1> HIDE DEF c
<1>6. Traveling(request, t, d) /\ DOMAIN d = CallFields
  BY <1>1, <1>2, <1>3, LaterTravels, Zenon
<1> HIDE DEF d
<1> QED
  BY <1>2, <1>5, <1>6, TravelOne

\* The documentation beside it, and a step that changes nothing.
LEMMA ReadersTravel ==
    ASSUME TravelInv, Mount \/ HandleSpec \/ UNCHANGED vars
    PROVE  TravelInv' /\ UNCHANGED <<request, calls, lines>>
<1>1. UNCHANGED <<request, calls, lines>>
  BY DEF Mount, HandleSpec, vars
<1>2. Shape'
  <2>1. CASE Mount
    BY <2>1 DEF Mount, TravelInv, Shape
  <2>2. CASE HandleSpec
    BY <2>2 DEF HandleSpec, TravelInv, Shape
  <2>3. CASE UNCHANGED vars
    BY <2>3 DEF vars, TravelInv, Shape
  <2> QED
    BY <2>1, <2>2, <2>3
<1>3. \A t \in Transport : Traveling(request, t, calls[t])'
  <2> SUFFICES ASSUME NEW t \in Transport
               PROVE  Traveling(request, t, calls[t])'
    OBVIOUS
  <2>1. Traveling(request, t, calls[t])' = Traveling(request, t, calls[t])
    BY <1>1 DEF Traveling
  <2> QED
    BY <2>1 DEF TravelInv
<1> QED
  BY <1>1, <1>2, <1>3 DEF TravelInv

\* The steps there are, by what they do to a call.
LEMMA Steps ==
    ASSUME [Next]_vars
    PROVE  \/ \E t \in Transport :
                Send(t) \/ Binding(t) \/ Layers(t) \/ Outer(t) \/ Later(t)
           \/ Mount \/ HandleSpec \/ UNCHANGED vars
  BY Zenon DEF Next, CallNext, Binding, Layers, Outer, Later, Transport

\* Whatever the chain, a call is where its request and the layers passed have let it
\* come, with the message that was decoded.
THEOREM Travels == Spec => []TravelInv
<1>1. Init => TravelInv
  BY InitTravels
<1>2. TravelInv /\ [Next]_vars => TravelInv'
  BY Steps, SendTravels, BindTravels, LayersTravel, OuterTravels, LaterTravel, ReadersTravel, Zenon
<1> QED
  BY <1>1, <1>2, PTL DEF Spec

\* The handlers and layers only ever see a message of their operation's type
\* (auth_http.pb.go:48-141), and what is past the chain has a result.
THEOREM TypeCorrect == Spec => []TypeOK
<1>1. TravelInv => TypeOK
  <2> SUFFICES ASSUME TravelInv, NEW t \in Transport
               PROVE  /\ Traveling(request, t, calls[t])
                      /\ calls[t].at # "start" => calls[t].op \in Operation
                      /\ calls[t].at = "in" => calls[t].message \in Message(calls[t].op)
    BY DEF TravelInv, Shape, Traveling, TypeOK
  <2> QED
    BY DecodedTyped DEF TravelInv, Shape, Traveling, IsRequest
<1> QED
  BY <1>1, Travels, PTL

\* With auth outside of validate, no layer past auth sees a call of a protected
\* operation without a verified token, nor are there claims (auth.go:53-82): for
\* every such chain, whatever else is in it.
THEOREM IdentityFirstHolds == AuthFirst => (Spec => []IdentityFirst)
<1> SUFFICES ASSUME AuthFirst
             PROVE  Spec => []IdentityFirst
  OBVIOUS
<1>1. TravelInv => IdentityFirst
  <2> SUFFICES ASSUME TravelInv, request.op \in Protected, request.token # "good",
                      NEW t \in Transport
               PROVE  /\ ~calls[t].claims
                      /\ calls[t].at = "in" =>
                           \A i \in 1 .. calls[t].depth - 1 : Chain[i] \notin {"auth", "validate"}
    BY DEF IdentityFirst
  <2>1. Traveling(request, t, calls[t]) /\ Unverified(request)
    BY DEF TravelInv, Unverified
  <2>2. ASSUME calls[t].at = "in", NEW i \in 1 .. calls[t].depth - 1
        PROVE  Chain[i] \notin {"auth", "validate"}
    <3>1. calls[t].depth \in 0 .. Len(Chain) + 1 /\ i \in DOMAIN Chain
      BY <2>1, ChainDomain DEF Traveling
    <3>2. \A j \in 1 .. i - 1 : j \in 1 .. calls[t].depth - 1
      BY <3>1, ChainDomain
    <3>3. Chain[i] # "auth" /\ \A j \in 1 .. i - 1 : Chain[j] # "auth"
      BY <2>1, <2>2, <3>2 DEF Traveling
    <3> QED
      BY <3>1, <3>3 DEF AuthFirst
  <2> QED
    BY <2>1, <2>2 DEF Traveling
<1> QED
  BY <1>1, Travels, PTL

-----------------------------------------------------------------------------
(* What the answer and the log tell: in an ordered chain.                  *)

\* A step of one call: what is to be shown of it, and that the other one stays.
LEMMA TellOne ==
    ASSUME TellInv, TravelInv', NEW t \in Transport, NEW d, calls' = [calls EXCEPT ![t] = d],
           Told(request, t, d, lines'[t]), request' = request,
           \A s \in Transport \ {t} : lines'[s] = lines[s]
    PROVE  TellInv'
<1>1. ASSUME NEW s \in Transport
      PROVE  Told(request, s, calls[s], lines[s])'
  <2>1. Told(request, s, calls[s], lines[s])' = Told(request, s, calls'[s], lines'[s])
    BY DEF Told, Causes
  <2>2. calls'[s] = IF s = t THEN d ELSE calls[s]
    BY DEF TellInv, TravelInv, Shape
  <2> QED
    BY <2>1, <2>2 DEF TellInv
<1> QED
  BY <1>1 DEF TellInv

LEMMA InitTells == ASSUME Init PROVE TellInv
<1> SUFFICES ASSUME NEW t \in Transport
             PROVE  Told(request, t, calls[t], lines[t])
  BY InitTravels DEF TellInv
<1>1. calls[t].at = "start" /\ calls[t].failed = FALSE /\ lines[t] = <<>>
  BY DEF Init, NoCall
<1> QED
  BY <1>1 DEF Told

LEMMA SendTells == ASSUME TellInv, NEW t \in Transport, Send(t) PROVE TellInv'
<1> DEFINE c == calls[t]
           d == [c EXCEPT !.at = "bind", !.op = request.op]
<1>1. /\ c.at = "start" /\ Told(request, t, c, lines[t]) /\ DOMAIN c = CallFields
      /\ request' = request /\ lines' = lines /\ TravelInv'
  BY SendTravels DEF Send, TellInv, TravelInv, Shape
<1>2. calls' = [calls EXCEPT ![t] = d]
  BY SendMoves DEF TellInv, TravelInv
<1> HIDE DEF c
<1>3. d.at = "bind" /\ d.failed = c.failed
  BY <1>1 DEF CallFields
<1> HIDE DEF d
<1>4. Told(request, t, d, lines'[t])
  BY <1>1, <1>3 DEF Told
<1> QED
  BY <1>1, <1>2, <1>4, TellOne

\* A request that does not decode has neither met recovery nor the logger.
LEMMA MalformedUnlogged ==
    ASSUME NEW t \in Transport
    PROVE  Recovered(Made(t, "malformed")) = Made(t, "malformed") /\ Noted(t, "malformed") = <<>>
<1>1. Matches(Made(t, "malformed"), AnswerOf(t, "malformed"))
  BY MadeMatches DEF Reason
<1>2. Made(t, "malformed") # Panic
  BY <1>1, MatchesParts
<1> QED
  BY <1>2 DEF Recovered, Noted

LEMMA BindTells == ASSUME TellInv, NEW t \in Transport, Binding(t) PROVE TellInv'
<1> DEFINE c == calls[t]
<1>1. /\ c.at = "bind" /\ Told(request, t, c, lines[t]) /\ DOMAIN c = CallFields
      /\ request' = request /\ lines' = lines /\ TravelInv' /\ TravelInv
  BY Decoding, BindTravels DEF TellInv, TravelInv, Shape
<1>2. c.failed = FALSE /\ lines'[t] = <<>>
  BY <1>1 DEF Told, TravelInv, Traveling
<1>3. CASE Bound(t, Decoded(request))
  <2> DEFINE d == [c EXCEPT !.at = "in", !.depth = 1, !.message = Decoded(request)]
  <2>1. calls' = [calls EXCEPT ![t] = d]
    BY <1>1, <1>3, BoundMoves DEF TravelInv
  <2> HIDE DEF c
  <2>2. d.at = "in" /\ d.depth = 1 /\ d.failed = FALSE
    BY <1>1, <1>2 DEF CallFields
  <2> HIDE DEF d
  <2>3. Told(request, t, d, lines'[t])
    BY <1>2, <2>2 DEF Told
  <2> QED
    BY <1>1, <2>1, <2>3, TellOne
<1>4. CASE Unbound(t, Made(t, "malformed")) /\ Api!Undecodable(t, Asked(request))
  <2> DEFINE e == Made(t, "malformed")
             d == [c EXCEPT !.at = "reply", !.result = e]
  <2>1. calls' = [calls EXCEPT ![t] = d]
    BY <1>1, <1>4 DEF Unbound, TravelInv, Shape, CallFields
  <2> HIDE DEF c, e
  <2>2. d.at = "reply" /\ d.result = e /\ d.failed = FALSE
    BY <1>1, <1>2 DEF CallFields
  <2> HIDE DEF d
  <2>3. "malformed" \in Causes(t, request)
    BY <1>4, Malformed
  <2>4. d.result = Recovered(Made(t, "malformed")) /\ lines'[t] = Noted(t, "malformed")
    BY <1>2, <2>2, MalformedUnlogged DEF e
  <2>5. Told(request, t, d, lines'[t])
    BY <2>2, <2>3, <2>4 DEF Told
  <2> QED
    BY <1>1, <2>1, <2>5, TellOne
<1> QED
  BY <1>1, <1>3, <1>4, Decoding

\* What a layer of an ordered chain found is the first thing wrong with the request,
\* and the layer is inside of the logging one.
LEMMA FoundIsCause ==
    ASSUME Ordered, NEW t \in Transport, NEW r, IsRequest(r), NEW c, NEW ls,
           Traveling(r, t, c), Told(r, t, c, ls), c.at = "in",
           NEW cause, Found(r, c.depth, cause)
    PROVE  cause \in Causes(t, r) \ {"malformed"} /\ c.depth > 2
<1>1. /\ c.depth \in 1 .. Len(Chain) + 1 /\ ~Api!Undecodable(t, Asked(r))
      /\ \A i \in 1 .. c.depth - 1 : Chain[i] = "auth" => ~Unverified(r)
      /\ \A i \in 1 .. c.depth - 1 : Chain[i] = "validate" => Passes(r)
  BY ChainDomain DEF Traveling, Told
<1>2. cause # "malformed"
  BY DEF Found, IsRequest, Unverified
<1>3. CASE c.depth > Len(Chain) /\ cause = r.outcome
  <2>1. PICK i \in DOMAIN Chain : Chain[i] = "validate"
    BY DEF Ordered
  <2>2. PICK j \in 1 .. i - 1 : Chain[j] = "auth"
    BY <2>1 DEF Ordered, AuthFirst
  <2>3. i \in 1 .. c.depth - 1 /\ j \in 1 .. c.depth - 1 /\ c.depth > 2
    BY <1>1, <1>3, <2>1, <2>2, ChainDomain DEF Ordered
  <2>4. Passes(r) /\ ~Unverified(r)
    BY <1>1, <2>1, <2>2, <2>3
  <2> QED
    BY <1>1, <1>2, <1>3, <2>3, <2>4, NotValid
<1>4. CASE c.depth \in DOMAIN Chain
  <2>1. Chain[c.depth] \in {"ratelimit", "auth", "validate"}
    BY <1>1, <1>4, ChainDomain DEF Found
  <2>2. c.depth > 2
    BY <1>1, <1>4, <2>1, ChainDomain DEF Ordered
  <2>3. CASE Chain[c.depth] = "ratelimit"
    <3>1. cause = "limited"
      BY <1>1, <1>4, <2>3, ChainDomain DEF Found
    <3> QED
      BY <1>1, <1>2, <1>4, <2>2, <2>3, <3>1, Limited
  <2>4. CASE Chain[c.depth] = "auth"
    <3>1. cause = r.token /\ Unverified(r)
      BY <1>1, <1>4, <2>4, ChainDomain DEF Found
    <3> QED
      BY <1>1, <1>2, <2>2, <3>1, NotVerified
  <2>5. CASE Chain[c.depth] = "validate"
    <3>1. PICK j \in 1 .. c.depth - 1 : Chain[j] = "auth"
      BY <1>4, <2>5 DEF Ordered, AuthFirst
    <3>2. ~Unverified(r)
      BY <1>1, <3>1
    <3>3. \/ r.self \in {"refuses", "fails"} /\ cause = r.self
          \/ r.self \in {"absent", "passes"} /\ r.rules = "broken" /\ cause = "broken"
          \/ /\ r.self \in {"absent", "passes"} /\ r.rules = "compiled"
             /\ Violations(r.op, Decoded(r)) # {} /\ cause = "invalid"
      BY <1>1, <1>4, <2>5, ChainDomain DEF Found
    <3>4. cause \in Causes(t, r)
      BY <1>1, <3>2, <3>3, NotValid
    <3> QED
      BY <1>2, <2>2, <3>4
  <2> QED
    BY <2>1, <2>3, <2>4, <2>5
<1> QED
  BY <1>3, <1>4 DEF Found

LEMMA LayersTell == ASSUME Ordered, TellInv, NEW t \in Transport, Layers(t) PROVE TellInv'
<1> DEFINE c == calls[t]
<1>1. /\ c.at = "in" /\ Told(request, t, c, lines[t]) /\ DOMAIN c = CallFields
      /\ request' = request /\ lines' = lines /\ TravelInv' /\ TravelInv
      /\ Traveling(request, t, c) /\ IsRequest(request)
  BY LayersFind, LayersTravel DEF TellInv, TravelInv, Shape
<1>2. c.failed = FALSE /\ lines'[t] = <<>>
  BY <1>1 DEF Told, Traveling
<1>3. CASE Clear(request, c.depth) /\ Deeper(t)
  <2>1. PICK claims \in BOOLEAN :
          calls' = [calls EXCEPT ![t] = [c EXCEPT !.depth = c.depth + 1, !.claims = claims]]
    BY <1>3 DEF Deeper
  <2>2. c.depth \in DOMAIN Chain /\ (Chain[c.depth] = "validate" => Passes(request))
    BY <1>3 DEF Clear
  <2> DEFINE d == [c EXCEPT !.depth = c.depth + 1, !.claims = claims]
  <2>3. calls' = [calls EXCEPT ![t] = d]
    BY <2>1
  <2> HIDE DEF c
  <2>4. d.at = "in" /\ d.depth = c.depth + 1 /\ d.failed = FALSE
    BY <1>1, <1>2 DEF CallFields
  <2> HIDE DEF d
  <2>5. \A i \in 1 .. d.depth - 1 : i \in 1 .. c.depth - 1 \/ i = c.depth
    BY <2>2, <2>4, ChainDomain
  <2>6. \A i \in 1 .. d.depth - 1 : Chain[i] = "validate" => Passes(request)
    BY <1>1, <2>2, <2>5 DEF Told
  <2>7. Told(request, t, d, lines'[t])
    BY <1>2, <2>4, <2>6 DEF Told
  <2> QED
    BY <1>1, <2>3, <2>7, TellOne
<1>4. ASSUME NEW cause \in Reason, Found(request, c.depth, cause), Return(t, Made(t, cause))
      PROVE  TellInv'
  <2> DEFINE e == Made(t, cause)
             d == [c EXCEPT !.at = "out", !.depth = c.depth - 1, !.result = e]
  <2>1. calls' = [calls EXCEPT ![t] = d]
    BY <1>1, <1>4, ReturnMoves DEF TravelInv
  <2> HIDE DEF c, e
  <2>2. cause \in Causes(t, request) \ {"malformed"} /\ c.depth > 2
    BY <1>1, <1>4, FoundIsCause
  <2>3. d.at = "out" /\ d.depth = c.depth - 1 /\ d.result = e /\ d.failed = FALSE
    BY <1>1, <1>2 DEF CallFields
  <2> HIDE DEF d
  <2>4. d.depth > 1 /\ d.depth # 0
    <3>1. c.depth \in Nat
      BY <1>1, ChainDomain DEF Traveling
    <3> QED
      BY <2>2, <2>3, <3>1
  <2>5. Told(request, t, d, lines'[t])
    BY <1>2, <2>2, <2>3, <2>4 DEF Told, e
  <2> QED
    BY <1>1, <2>1, <2>5, TellOne
<1>5. \/ Clear(request, c.depth) /\ Deeper(t)
      \/ \E cause \in Reason : Found(request, c.depth, cause) /\ Return(t, Made(t, cause))
  BY <1>1, LayersFind
<1> QED
  BY <1>3, <1>4, <1>5

LEMMA OuterTells == ASSUME Ordered, TellInv, NEW t \in Transport, Outer(t) PROVE TellInv'
<1> DEFINE c == calls[t]
           e == IF Chain[c.depth] = "recovery" THEN Recovered(c.result) ELSE c.result
           d == [c EXCEPT !.depth = c.depth - 1, !.result = e]
<1>1. /\ c.at = "out" /\ c.depth \in DOMAIN Chain /\ request' = request
      /\ calls' = [calls EXCEPT ![t] = d]
  BY OuterMoves DEF TellInv
<1>2. /\ Told(request, t, c, lines[t]) /\ Traveling(request, t, c) /\ DOMAIN c = CallFields
      /\ IsRequest(request) /\ DOMAIN lines = Transport /\ TravelInv'
  BY OuterTravels DEF TellInv, TravelInv, Shape
<1>3. PICK cause \in Causes(t, request) \ {"malformed"} :
        /\ c.result = Made(t, cause)
        /\ lines[t] = IF c.depth > 1 THEN <<>> ELSE Noted(t, cause)
  BY <1>1, <1>2, ChainDomain DEF Told
<1>4. cause \in Reason
  BY <1>2, CausesNamed
<1>5. \A s \in Transport \ {t} : lines'[s] = lines[s]
  BY <1>2 DEF Outer, RequestLogger, Recover, Leave
<1>6. /\ Chain[c.depth] = "logging" <=> c.depth = 2
      /\ Chain[c.depth] = "recovery" <=> c.depth = 1
  BY <1>1, ChainDomain DEF Ordered
<1>7. d.at = "out" /\ d.depth = c.depth - 1 /\ d.result = e /\ d.failed = FALSE
  <2> HIDE DEF c, e
  <2> QED
    BY <1>1, <1>2 DEF CallFields, Told, Traveling
<1>8. Chain[c.depth] = "logging" => RequestLogger(t)
  BY DEF Outer, Recover, Leave, At
<1>9. Chain[c.depth] # "logging" => lines' = lines
  BY DEF Outer, RequestLogger, Recover, Leave, At
<1>10. lines'[t] = IF d.depth > 1 THEN <<>> ELSE Noted(t, cause)
  <2>1. CASE c.depth = 2
    <3>1. lines[t] = <<>>
      BY <1>3, <2>1
    <3>2. RequestLogger(t)
      BY <1>6, <1>8, <2>1
    <3>3. lines'[t] = IF c.result = Panic THEN <<>>
                      ELSE <<[code |-> c.result.code, reason |-> c.result.reason,
                              level |-> Severity(c.result)]>>
      BY <1>2, <3>1, <3>2 DEF RequestLogger
    <3>4. lines'[t] = Noted(t, cause)
      BY <1>3, <1>4, <3>3, LoggedIs
    <3> QED
      BY <1>7, <2>1, <3>4
  <2>2. CASE c.depth # 2
    <3>1. lines' = lines
      BY <1>6, <1>9, <2>2
    <3>2. d.depth > 1 <=> c.depth > 1
      BY <1>1, <1>7, <2>2, ChainDomain
    <3> QED
      BY <1>3, <3>1, <3>2
  <2> QED
    BY <2>1, <2>2
<1>11. d.result = IF d.depth = 0 THEN Recovered(Made(t, cause)) ELSE Made(t, cause)
  <2>1. d.depth = 0 <=> c.depth = 1
    BY <1>1, <1>7, ChainDomain
  <2> QED
    BY <1>3, <1>6, <1>7, <2>1
<1> HIDE DEF d
<1>12. Told(request, t, d, lines'[t])
  BY <1>3, <1>7, <1>10, <1>11 DEF Told
<1> QED
  BY <1>1, <1>2, <1>5, <1>12, TellOne

LEMMA LeaveChainTells == ASSUME TellInv, NEW t \in Transport, LeaveChain(t) PROVE TellInv'
<1> DEFINE c == calls[t]
           d == [c EXCEPT !.at = "reply"]
<1>1. /\ c.at = "out" /\ c.depth = 0 /\ request' = request /\ lines' = lines
      /\ Told(request, t, c, lines[t]) /\ Traveling(request, t, c) /\ DOMAIN c = CallFields /\ TravelInv'
      /\ calls' = [calls EXCEPT ![t] = d]
  BY LaterTravel DEF LeaveChain, Later, TellInv, TravelInv, Shape
<1> HIDE DEF c
<1>2. PICK cause \in Causes(t, request) :
        c.result = Recovered(Made(t, cause)) /\ lines[t] = Noted(t, cause)
  BY <1>1 DEF Told
<1>3. d.at = "reply" /\ d.result = c.result /\ d.failed = FALSE
  BY <1>1 DEF CallFields, Told, Traveling
<1> HIDE DEF d
<1>4. Told(request, t, d, lines'[t])
  BY <1>1, <1>2, <1>3 DEF Told
<1> QED
  BY <1>1, <1>4, TellOne

LEMMA AnswerTells == ASSUME TellInv, NEW t \in Transport, Answer(t) PROVE TellInv'
<1> DEFINE c == calls[t]
           w == Wire(t, c.result)
           d == [c EXCEPT !.at = "answered", !.answer = w]
<1>1. /\ c.at = "reply" /\ request' = request /\ lines' = lines
      /\ Told(request, t, c, lines[t]) /\ Traveling(request, t, c) /\ DOMAIN c = CallFields /\ TravelInv'
      /\ DOMAIN calls = Transport
  BY LaterTravel DEF Answer, Later, TellInv, TravelInv, Shape
<1>2. calls' = [calls EXCEPT ![t].at = "answered", ![t].answer = w]
  BY Zenon DEF Answer, Wire
<1> HIDE DEF w
<1>3. calls' = [calls EXCEPT ![t] = d]
  BY <1>1, <1>2 DEF CallFields
<1> HIDE DEF c
<1>4. PICK cause \in Causes(t, request) :
        c.result = Recovered(Made(t, cause)) /\ lines[t] = Noted(t, cause)
  BY <1>1 DEF Told
<1>5. d.at = "answered" /\ d.answer = w /\ d.failed = FALSE
  BY <1>1 DEF CallFields, Told, Traveling
<1> HIDE DEF d
<1>6. Told(request, t, d, lines'[t])
  BY <1>1, <1>4, <1>5 DEF Told, w
<1> QED
  BY <1>1, <1>3, <1>6, TellOne

\* What a client reads off the wire is what ServiceApi has it see.
Reads(t, w) == IF t = "http" THEN [code |-> w.code, reason |-> NoReason]
               ELSE [code |-> FromGRPC(w.status), reason |-> w.reason]

LEMMA OutcomeParts ==
    ASSUME NEW t \in Transport, NEW cause \in Reason, NEW o, o = AnswerOf(t, cause)
    PROVE  o = [code |-> o.code, reason |-> o.reason]
<1>1. CASE cause = "unencodable"
  <2>1. AnswerOf(t, cause) = Says(500, NoReason)
    BY <1>1, AnswerIs
  <2> QED
    BY <2>1 DEF Says
<1>2. CASE cause # "unencodable"
  <2>1. Matches(Recovered(Made(t, cause)), o)
    BY <1>2, RecoveredMatches
  <2> QED
    BY <2>1 DEF Matches
<1> QED
  BY <1>1, <1>2

LEMMA VisibleIs ==
    ASSUME NEW t \in Transport, NEW o, o = [code |-> o.code, reason |-> o.reason]
    PROVE  /\ Api!Visible(t, o) = IF t = "http" THEN [code |-> o.code, reason |-> NoReason] ELSE o
           /\ Api!Visible(t, o).code = o.code
<1>1. Api!Visible(t, o) = IF t = "http" THEN [o EXCEPT !.reason = NoReason] ELSE o
  BY Zenon DEF Api!Visible, NoReason
<1> QED
  BY <1>1

LEMMA Arrives ==
    ASSUME NEW t \in Transport, NEW cause \in Reason,
           NEW w, w = Wire(t, Recovered(Made(t, cause)))
    PROVE  /\ Reads(t, w) = Api!Visible(t, AnswerOf(t, cause))
           /\ (IF t = "http" THEN w.status # 200 ELSE w.status # "OK")
                <=> t = "grpc" /\ Reads(t, w).code # 0
<1> DEFINE o == AnswerOf(t, cause)
<1>1. o = [code |-> o.code, reason |-> o.reason]
  BY OutcomeParts
<1>2. CASE t = "http"
  <2>1. w = [status |-> 200, code |-> o.code]
    BY <1>2, EnvelopeArrives
  <2> HIDE DEF o
  <2>2. w.status = 200 /\ w.code = o.code
    BY <2>1
  <2>3. Reads(t, w) = [code |-> o.code, reason |-> NoReason]
    BY <1>2, <2>2 DEF Reads
  <2>4. Api!Visible(t, o) = [code |-> o.code, reason |-> NoReason]
    BY <1>1, <1>2, VisibleIs
  <2> QED
    BY <1>2, <2>2, <2>3, <2>4 DEF o
<1>3. CASE t = "grpc"
  <2>1. /\ FromGRPC(w.status) = o.code /\ w.reason = o.reason
        /\ w.status # "OK" <=> o.code # 0
    BY <1>3, StatusArrives
  <2> HIDE DEF o
  <2>2. Reads(t, w) = [code |-> o.code, reason |-> o.reason]
    BY <1>3, <2>1 DEF Reads
  <2>3. Api!Visible(t, o) = o
    BY <1>1, <1>3, VisibleIs
  <2> QED
    BY <1>1, <1>3, <2>1, <2>2, <2>3 DEF o
<1> QED
  BY <1>2, <1>3 DEF Transport

LEMMA ReceiveTells == ASSUME TellInv, NEW t \in Transport, Receive(t) PROVE TellInv'
<1> DEFINE c == calls[t]
           failed == IF t = "http" THEN c.answer.status # 200 ELSE c.answer.status # "OK"
           answer == Reads(t, c.answer)
           d == [c EXCEPT !.at = "done", !.failed = failed, !.answer = answer]
<1>1. /\ c.at = "answered" /\ request' = request /\ lines' = lines
      /\ Told(request, t, c, lines[t]) /\ Traveling(request, t, c) /\ DOMAIN c = CallFields /\ TravelInv'
      /\ DOMAIN calls = Transport /\ IsRequest(request)
  BY LaterTravel DEF Receive, Later, TellInv, TravelInv, Shape
<1>2. calls' = [calls EXCEPT ![t].at = "done", ![t].failed = failed, ![t].answer = answer]
  BY Zenon DEF Receive, Reads, NoReason
<1>3. PICK cause \in Causes(t, request) :
        c.answer = Wire(t, Recovered(Made(t, cause))) /\ lines[t] = Noted(t, cause)
  BY <1>1 DEF Told
<1>4. cause \in Reason
  BY <1>1, CausesNamed
<1>5. /\ answer = Api!Visible(t, AnswerOf(t, cause))
      /\ failed <=> t = "grpc" /\ answer.code # 0
  BY <1>3, <1>4, Arrives
<1> HIDE DEF failed, answer
<1>6. calls' = [calls EXCEPT ![t] = d]
  BY <1>1, <1>2 DEF CallFields
<1> HIDE DEF c
<1>7. d.at = "done" /\ d.answer = answer /\ d.failed = failed
  BY <1>1 DEF CallFields
<1> HIDE DEF d
<1>8. Told(request, t, d, lines'[t])
  BY <1>1, <1>3, <1>5, <1>7 DEF Told
<1> QED
  BY <1>1, <1>6, <1>8, TellOne

LEMMA ReadersTell == ASSUME TellInv, Mount \/ HandleSpec \/ UNCHANGED vars PROVE TellInv'
<1>1. TravelInv' /\ UNCHANGED <<request, calls, lines>>
  BY ReadersTravel DEF TellInv
<1> SUFFICES ASSUME NEW t \in Transport
             PROVE  Told(request, t, calls[t], lines[t])'
  BY <1>1 DEF TellInv
<1>2. Told(request, t, calls[t], lines[t])' = Told(request, t, calls[t], lines[t])
  BY <1>1 DEF Told, Causes
<1> QED
  BY <1>2 DEF TellInv

\* What a call returns, and what is logged of it, is due to one cause from where the
\* first layer finds it (auth.go:57-62, validate.go:81-95) to the wire.
THEOREM Tells == Ordered => (Spec => []TellInv)
<1> SUFFICES ASSUME Ordered
             PROVE  Spec => []TellInv
  OBVIOUS
<1>1. Init => TellInv
  BY InitTells
<1>2. TellInv /\ [Next]_vars => TellInv'
  BY Steps, SendTells, BindTells, LayersTell, OuterTells, LeaveChainTells, AnswerTells,
     ReceiveTells, ReadersTell, Zenon DEF Later
<1> QED
  BY <1>1, <1>2, PTL DEF Spec

\* But for a limit, one cause is left, the same on both transports.
LEMMA OneCause ==
    ASSUME NEW r, r.body # "malformed",
           NEW one \in Causes("http", r) \ {"limited"}, NEW other \in Causes("grpc", r) \ {"limited"}
    PROVE  one = other
  BY DEF Causes, Api!Cause, Api!Undecodable, Api!Unauthenticated, Asked

LEMMA OutcomeOfCause ==
    ASSUME NEW cause \in Reason \ {"malformed"}
    PROVE  AnswerOf("http", cause) = AnswerOf("grpc", cause)
<1>1. CASE cause = "limited"
  BY <1>1, AnswerIs
<1>2. CASE cause = "none"
  BY <1>2, AnswerIs
<1>3. CASE cause = "expired"
  BY <1>3, AnswerIs
<1>4. CASE cause = "refuses"
  BY <1>4, AnswerIs
<1>5. CASE cause = "fails"
  BY <1>5, AnswerIs
<1>6. CASE cause = "broken"
  BY <1>6, AnswerIs
<1>7. CASE cause = "invalid"
  BY <1>7, AnswerIs
<1>8. CASE cause = "reply"
  BY <1>8, AnswerIs
<1>9. CASE cause = "not found"
  BY <1>9, NotFoundIs, Zenon
<1>10. CASE cause = "exists"
  BY <1>10, AnswerIs
<1>11. CASE cause = "unimplemented"
  BY <1>11, AnswerIs
<1>12. CASE cause = "panic"
  BY <1>12, AnswerIs
<1>13. CASE cause = "unverifiable"
  BY <1>13, AnswerIs
<1>14. CASE cause = "error"
  BY <1>14, AnswerIs
<1>15. CASE cause = "unencodable"
  BY <1>15, AnswerIs
<1> QED
  BY <1>1, <1>2, <1>3, <1>4, <1>5, <1>6, <1>7, <1>8, <1>9, <1>10, <1>11, <1>12, <1>13, <1>14, <1>15 DEF Reason, Wrong, OwnOutcome

LEMMA WellFormed ==
    ASSUME NEW r, IsRequest(r), r.body # "malformed", NEW t
    PROVE  "malformed" \notin Causes(t, r)
  BY DEF Causes, Api!Cause, Api!Undecodable, Api!Unauthenticated, Asked, IsRequest

LEMMA LimitedCode == ASSUME NEW t PROVE AnswerOf(t, "limited").code = 429
<1>1. AnswerOf(t, "limited") = Says(429, "RATELIMIT")
  BY AnswerIs
<1> QED
  BY <1>1 DEF Says

\* HTTP and gRPC answer a well-formed request with the same code, whatever the
\* request, the operations protected and the rest of the chain (validate.go:23-24).
THEOREM AgreeHolds == Ordered => (Spec => []Agree)
<1> SUFFICES ASSUME Ordered
             PROVE  Spec => []Agree
  OBVIOUS
<1>1. TellInv => Agree
  <2> SUFFICES ASSUME TellInv
               PROVE  Agree
    OBVIOUS
  <2>1. "http" \in Transport /\ "grpc" \in Transport /\ IsRequest(request)
    BY DEF Transport, TellInv, TravelInv, Shape
  <2>2. ~calls["http"].failed
    BY <2>1 DEF TellInv, Told
  <2>3. Done("grpc") => calls["grpc"].failed = (calls["grpc"].answer.code # 0)
    BY <2>1 DEF TellInv, TravelInv, Traveling, Told, Done
  <2>4. ASSUME \A t \in Transport : Done(t) /\ calls[t].answer.code # 429,
               request.body # "malformed"
        PROVE  calls["http"].answer.code = calls["grpc"].answer.code
    <3>1. PICK one \in Causes("http", request) :
            calls["http"].answer = Api!Visible("http", AnswerOf("http", one))
      BY <2>1, <2>4 DEF TellInv, Told, Done
    <3>2. PICK other \in Causes("grpc", request) :
            calls["grpc"].answer = Api!Visible("grpc", AnswerOf("grpc", other))
      BY <2>1, <2>4 DEF TellInv, Told, Done
    <3>3. one \in Reason /\ other \in Reason
      BY <2>1, CausesNamed
    <3>4. /\ calls["http"].answer.code = AnswerOf("http", one).code
          /\ calls["grpc"].answer.code = AnswerOf("grpc", other).code
      BY <2>1, <3>1, <3>2, <3>3, OutcomeParts, VisibleIs
    <3>5. one # "limited" /\ other # "limited"
      BY <2>1, <2>4, <3>4, LimitedCode
    <3>6. one = other
      BY <2>4, <3>1, <3>2, <3>5, OneCause
    <3>7. one # "malformed"
      BY <2>1, <2>4, <3>1, WellFormed
    <3> QED
      BY <3>3, <3>4, <3>6, <3>7, OutcomeOfCause
  <2> QED
    BY <2>2, <2>3, <2>4 DEF Agree
<1> QED
  BY <1>1, Tells, PTL

-----------------------------------------------------------------------------
(* A request and its answer are one step.                                  *)

\* What ServiceApi sees of the answers and of the log.
Answers == [t \in Transport |-> IF calls[t].at = "done" THEN calls[t].answer ELSE Nothing]
Lines == [t \in Transport |-> IF calls[t].at = "done" THEN lines[t] ELSE <<>>]

\* A step of one call leaves the other one alone.
OfOne(t) ==
    /\ calls[t].at # "done" /\ request' = request
    /\ \A s \in Transport \ {t} : calls'[s] = calls[s] /\ lines'[s] = lines[s]

LEMMA Unanswered ==
    ASSUME TravelInv, NEW t \in Transport,
           Send(t) \/ Binding(t) \/ Layers(t) \/ Outer(t) \/ LeaveChain(t) \/ Answer(t)
    PROVE  OfOne(t) /\ calls'[t].at # "done"
<1>1. DOMAIN calls = Transport /\ DOMAIN lines = Transport /\ DOMAIN calls[t] = CallFields /\ Shape
  BY DEF TravelInv, Shape
<1>2. CASE Send(t)
  <2> DEFINE d == [calls[t] EXCEPT !.at = "bind", !.op = request.op]
  <2>1. calls' = [calls EXCEPT ![t] = d] /\ d.at = "bind"
    BY <1>1, <1>2, SendMoves DEF CallFields
  <2> HIDE DEF d
  <2> QED
    BY <1>1, <1>2, <2>1 DEF Send, OfOne
<1>3. CASE Binding(t)
  <2>1. \/ calls' = [calls EXCEPT ![t].at = "in", ![t].depth = 1, ![t].message = Decoded(request)]
        \/ calls' = [calls EXCEPT ![t].at = "reply", ![t].result = Made(t, "malformed")]
    BY <1>3, Decoding DEF Bound, Unbound
  <2>2. calls[t].at = "bind" /\ request' = request /\ lines' = lines
    BY <1>3, Decoding
  <2> QED
    BY <1>1, <2>1, <2>2 DEF OfOne, CallFields
<1>4. CASE Layers(t)
  <2>1. calls[t].at = "in" /\ request' = request /\ lines' = lines
    BY <1>4, LayersFind
  <2>2. CASE Deeper(t)
    BY <1>1, <2>1, <2>2 DEF Deeper, OfOne, CallFields
  <2>3. ASSUME NEW e, Return(t, e)
        PROVE  OfOne(t) /\ calls'[t].at # "done"
    BY <1>1, <2>1, <2>3 DEF Return, OfOne, CallFields
  <2> QED
    BY <1>4, <2>2, <2>3, LayersFind
<1>5. CASE Outer(t)
  <2> DEFINE e == IF Chain[calls[t].depth] = "recovery" THEN Recovered(calls[t].result)
                  ELSE calls[t].result
             d == [calls[t] EXCEPT !.depth = calls[t].depth - 1, !.result = e]
  <2>1. calls[t].at = "out" /\ request' = request /\ calls' = [calls EXCEPT ![t] = d]
    BY <1>5, OuterMoves
  <2>2. \A s \in Transport \ {t} : lines'[s] = lines[s]
    BY <1>1, <1>5 DEF Outer, RequestLogger, Recover, Leave
  <2> HIDE DEF e
  <2>3. d.at = "out"
    BY <1>1, <2>1 DEF CallFields
  <2> HIDE DEF d
  <2> QED
    BY <1>1, <2>1, <2>2, <2>3 DEF OfOne
<1>6. CASE LeaveChain(t)
  BY <1>1, <1>6 DEF LeaveChain, OfOne, CallFields
<1>7. CASE Answer(t)
  <2>1. PICK answer : calls' = [calls EXCEPT ![t].at = "answered", ![t].answer = answer]
    BY <1>7, Zenon DEF Answer
  <2>2. calls[t].at = "reply" /\ request' = request /\ lines' = lines
    BY <1>7 DEF Answer
  <2> QED
    BY <1>1, <2>1, <2>2 DEF OfOne, CallFields
<1> QED
  BY <1>2, <1>3, <1>4, <1>5, <1>6, <1>7

LEMMA Received ==
    ASSUME TravelInv, NEW t \in Transport, Receive(t)
    PROVE  OfOne(t) /\ calls'[t].at = "done"
<1>1. DOMAIN calls = Transport /\ DOMAIN calls[t] = CallFields
  BY DEF TravelInv, Shape
<1>2. PICK failed, answer :
        calls' = [calls EXCEPT ![t].at = "done", ![t].failed = failed, ![t].answer = answer]
  BY Zenon DEF Receive
<1>3. calls[t].at = "answered" /\ request' = request /\ lines' = lines
  BY DEF Receive
<1> QED
  BY <1>1, <1>2, <1>3 DEF OfOne, CallFields

LEMMA UnansweredStutters ==
    ASSUME NEW t \in Transport, OfOne(t), calls'[t].at # "done"
    PROVE  UNCHANGED <<Asked(request), Answers, Lines>>
  BY DEF OfOne, Asked, Answers, Lines

\* What the code gives and notes is promised, or a deviation that is named.
LEMMA Allowed ==
    ASSUME NEW t, NEW cause
    PROVE  /\ AnswerOf(t, cause) \in Api!Answers(t, cause)
           /\ Noted(t, cause) \in Api!Logs(cause, AnswerOf(t, cause))
<1>1. AnswerOf(t, cause) \in Api!Answers(t, cause)
  <2>1. CASE cause = "expired"
    <3>1. [cause |-> "expired", answer |-> [code |-> 401, reason |-> "AUTH_TOKEN_EXPIRED"]]
            \in Deviations
      BY DEF Deviations
    <3> QED
      BY <2>1, <3>1, AnswerIs DEF Api!Answers, Says
  <2>2. CASE cause = "unverifiable"
    <3>1. [cause |-> "unverifiable", answer |-> [code |-> 500, reason |-> NoReason]] \in Deviations
      BY DEF Deviations, NoReason
    <3> QED
      BY <2>2, <3>1, AnswerIs DEF Api!Answers, Says
  <2>3. CASE cause = "broken"
    <3>1. [cause |-> "broken", answer |-> [code |-> 400, reason |-> "VALIDATION_FAILED"]]
            \in Deviations
      BY DEF Deviations
    <3> QED
      BY <2>3, <3>1, AnswerIs DEF Api!Answers, Says
  <2>4. CASE cause \notin {"expired", "unverifiable", "broken"}
    BY <2>4, AnswerPromised DEF Api!Answers
  <2> QED
    BY <2>1, <2>2, <2>3, <2>4
<1>2. Noted(t, cause) \in Api!Logs(cause, AnswerOf(t, cause))
  <2>1. CASE cause \in {"malformed", "panic"}
    <3>1. /\ [cause |-> "malformed", log |-> <<>>] \in LogDeviations
          /\ [cause |-> "panic", log |-> <<>>] \in LogDeviations
      BY DEF LogDeviations
    <3>2. Noted(t, cause) = <<>>
      BY <2>1 DEF Noted
    <3> QED
      BY <2>1, <3>1, <3>2 DEF Api!Logs
  <2>2. CASE cause = "unencodable"
    <3> DEFINE line == <<[code |-> 0, reason |-> NoReason, level |-> "info"]>>
    <3>1. [cause |-> "unencodable", log |-> line] \in LogDeviations
      BY DEF LogDeviations, NoReason
    <3>2. Noted(t, cause) = line
      BY <2>2 DEF Noted, NoReason
    <3> HIDE DEF line
    <3> QED
      BY <2>2, <3>1, <3>2 DEF Api!Logs
  <2>3. CASE cause \notin {"malformed", "panic", "unencodable"}
    <3>1. Noted(t, cause) = Api!Line(AnswerOf(t, cause))
      BY <2>3, Zenon DEF Noted
    <3> QED
      BY <3>1 DEF Api!Logs
  <2> QED
    BY <2>1, <2>2, <2>3
<1> QED
  BY <1>1, <1>2

LEMMA ReceivedAnswers ==
    ASSUME TellInv', NEW t \in Transport, OfOne(t), calls'[t].at = "done"
    PROVE  Api!Answer(t)
<1>1. PICK cause \in Causes(t, request) :
        /\ calls'[t].answer = Api!Visible(t, AnswerOf(t, cause))
        /\ lines'[t] = Noted(t, cause)
  <2>1. Told(request, t, calls[t], lines[t])' = Told(request, t, calls'[t], lines'[t])
    BY DEF Told, Causes, OfOne
  <2>2. Told(request, t, calls'[t], lines'[t])
    BY <2>1 DEF TellInv
  <2> QED
    BY <2>2 DEF Told
<1> DEFINE o == AnswerOf(t, cause)
           log == Noted(t, cause)
<1>2. Answers[t] = Nothing
  BY DEF OfOne, Answers
<1>3. Answers' = [Answers EXCEPT ![t] = Api!Visible(t, o)]
  BY <1>1 DEF OfOne, Answers
<1>4. Lines' = [Lines EXCEPT ![t] = log]
  BY <1>1 DEF OfOne, Lines
<1>5. UNCHANGED Asked(request)
  BY DEF OfOne, Asked
<1>6. o \in Api!Answers(t, cause) /\ log \in Api!Logs(cause, o)
  BY Allowed
<1> HIDE DEF o, log
<1> QED
  BY <1>1, <1>2, <1>3, <1>4, <1>5, <1>6 DEF Api!Answer, Answers, Lines, Causes

\* The chain, the encoders and the clients together do what ServiceApi says in one
\* step: the receipt of an answer is its step, all others leave what it sees alone.
THEOREM Implementation == Ordered => (Spec => Implements)
<1> SUFFICES ASSUME Ordered
             PROVE  Spec => Implements
  OBVIOUS
<1>1. Init => Api!Init
  BY DEF Init, NoCall, Api!Init
<1>2. TellInv /\ TellInv' /\ [Next]_vars =>
        (\E t \in Transport : Api!Answer(t)) \/ UNCHANGED <<Asked(request), Answers, Lines>>
  <2> SUFFICES ASSUME TellInv, TellInv', [Next]_vars
               PROVE  (\E t \in Transport : Api!Answer(t)) \/ UNCHANGED <<Asked(request), Answers, Lines>>
    OBVIOUS
  <2>1. ASSUME NEW t \in Transport,
               Send(t) \/ Binding(t) \/ Layers(t) \/ Outer(t) \/ LeaveChain(t) \/ Answer(t)
        PROVE  UNCHANGED <<Asked(request), Answers, Lines>>
    BY <2>1, Unanswered, UnansweredStutters DEF TellInv
  <2>2. ASSUME NEW t \in Transport, Receive(t)
        PROVE  Api!Answer(t)
    BY <2>2, Received, ReceivedAnswers DEF TellInv
  <2>3. CASE Mount \/ HandleSpec \/ UNCHANGED vars
    BY <2>3 DEF Mount, HandleSpec, vars, Asked, Answers, Lines
  <2> QED
    BY <2>1, <2>2, <2>3, Steps, Zenon DEF Later
<1>3. TellInv /\ TellInv' /\ [Next]_vars =>
        [\E t \in Transport : Api!Answer(t)]_<<Asked(request), Answers, Lines>>
  BY <1>2
<1> QED
  BY <1>1, <1>3, Tells, PTL DEF Spec, Implements, Api!Spec, Answers, Lines

-----------------------------------------------------------------------------
(* The lines of documents, and their pieces.                               *)

\* What lines there are: generated ones, those spliced in, and the url
\* of whoever asks.
Generated == [depth : Nat, key : STRING, value : Seq(STRING)]
Block == {Line(0, "components", <<>>), securitySchemesBlock[1], securitySchemesBlock[2],
          securityBlock[1], securityBlock[2]}
DocLines(r) == Generated \cup Block \cup {Line(1, "url", origin(r))}

\* What handleSpec makes of the line at i.
Piece(doc, i, r) ==
    IF ServersLine(doc[i]) /\ i < Len(doc) /\ UrlLine(doc[i + 1])
    THEN <<doc[i], Line(1, "url", origin(r))>>
    ELSE IF InServers(doc, i) THEN <<>>
    ELSE <<doc[i]>>

Pieces(doc, r) == [i \in DOMAIN doc |-> Piece(doc, i, r)]

\* No url outside of the list of servers.
Tidy(doc) == \A i \in DOMAIN doc : doc[i].key = "url" => InServers(doc, i)

\* Where a document may be cut without cutting a list of servers.
Apart(y) == Len(y) > 0 => ~UrlLine(y[1])

\* A line is in a list of servers within the part it is in.
LEMMA InServersLeft ==
    ASSUME NEW T, NEW x \in Seq(T), NEW y \in Seq(T), NEW i \in 1 .. Len(x)
    PROVE  InServers(x \o y, i) <=> InServers(x, i)
<1> DEFINE z == x \o y
<1>1. Len(x) \in Nat /\ \A j \in 1 .. Len(x) : z[j] = x[j]
  BY Joined
<1> HIDE DEF z
<1>2. \A s \in 1 .. i - 1 : z[s] = x[s] /\ \A j \in s + 1 .. i : z[j] = x[j]
  BY <1>1
<1> QED
  BY <1>2, Zenon DEF InServers, z

LEMMA InServersRight ==
    ASSUME NEW T, NEW x \in Seq(T), NEW y \in Seq(T), Apart(y), NEW i \in 1 .. Len(y)
    PROVE  InServers(x \o y, Len(x) + i) <=> InServers(y, i)
<1> DEFINE z == x \o y
           n == Len(x)
<1>1. n \in Nat /\ Len(y) \in Nat /\ \A j \in 1 .. Len(y) : z[n + j] = y[j]
  BY Joined
<1>2. ~UrlLine(y[1])
  BY <1>1 DEF Apart
<1> HIDE DEF z, n
<1>3. ASSUME InServers(z, n + i) PROVE InServers(y, i)
  <2>1. PICK s \in 1 .. (n + i) - 1 :
          ServersLine(z[s]) /\ \A j \in s + 1 .. n + i : UrlLine(z[j])
    BY <1>3, Zenon DEF InServers
  <2>2. n + 1 \notin s + 1 .. n + i
    <3>1. 1 \in 1 .. Len(y)
      BY <1>1
    <3>2. z[n + 1] = y[1]
      BY <1>1, <3>1
    <3> QED
      BY <1>2, <2>1, <3>2
  <2> DEFINE t == s - n
  <2>3. t \in 1 .. i - 1 /\ s = n + t
    BY <1>1, <2>2
  <2> HIDE DEF t
  <2>4. z[n + t] = y[t] /\ \A j \in t + 1 .. i : n + j \in s + 1 .. n + i /\ z[n + j] = y[j]
    BY <1>1, <2>3
  <2>5. ServersLine(y[t]) /\ \A j \in t + 1 .. i : UrlLine(y[j])
    BY <2>1, <2>3, <2>4, Zenon
  <2> QED
    BY <2>3, <2>5 DEF InServers
<1>4. ASSUME InServers(y, i) PROVE InServers(z, n + i)
  <2>1. PICK t \in 1 .. i - 1 : ServersLine(y[t]) /\ \A j \in t + 1 .. i : UrlLine(y[j])
    BY <1>4 DEF InServers
  <2>2. n + t \in 1 .. (n + i) - 1 /\ z[n + t] = y[t]
    <3>1. t \in 1 .. Len(y) /\ n + t \in 1 .. (n + i) - 1
      BY <1>1
    <3> QED
      BY <1>1, <3>1
  <2>3. ASSUME NEW j \in n + t + 1 .. n + i PROVE UrlLine(z[j])
    <3> DEFINE k == j - n
    <3>1. k \in t + 1 .. i /\ k \in 1 .. Len(y) /\ n + k = j
      BY <1>1
    <3> HIDE DEF k
    <3>2. z[j] = y[k]
      BY <1>1, <3>1
    <3> QED
      BY <2>1, <3>1, <3>2
  <2>4. ServersLine(z[n + t])
    BY <2>1, <2>2
  <2> QED
    BY <2>2, <2>3, <2>4, Zenon DEF InServers
<1> QED
  BY <1>3, <1>4 DEF z, n

LEMMA TidyConcat ==
    ASSUME NEW T, NEW x \in Seq(T), NEW y \in Seq(T), Apart(y), Tidy(x \o y)
    PROVE  Tidy(x) /\ Tidy(y)
<1> DEFINE z == x \o y
<1>1. /\ Len(x) \in Nat /\ Len(y) \in Nat
      /\ DOMAIN x = 1 .. Len(x) /\ DOMAIN y = 1 .. Len(y) /\ DOMAIN z = 1 .. Len(x) + Len(y)
      /\ \A i \in 1 .. Len(x) : z[i] = x[i]
      /\ \A i \in 1 .. Len(y) : z[Len(x) + i] = y[i]
  BY Joined
<1>2. \A i \in 1 .. Len(x) : InServers(z, i) <=> InServers(x, i)
  BY InServersLeft
<1>3. \A i \in 1 .. Len(y) : InServers(z, Len(x) + i) <=> InServers(y, i)
  BY InServersRight
<1>4. Tidy(z)
  OBVIOUS
<1> HIDE DEF z
<1>5. \A i \in 1 .. Len(x) : i \in DOMAIN z
  BY <1>1
<1>6. \A i \in 1 .. Len(y) : Len(x) + i \in DOMAIN z
  BY <1>1
<1>7. Tidy(x)
  BY <1>1, <1>2, <1>4, <1>5, Zenon DEF Tidy
<1>8. Tidy(y)
  BY <1>1, <1>3, <1>4, <1>6, Zenon DEF Tidy
<1> QED
  BY <1>7, <1>8

LEMMA PiecesTyped ==
    ASSUME NEW r, NEW T, Line(1, "url", origin(r)) \in T, NEW x \in Seq(T)
    PROVE  /\ Pieces(x, r) \in Seq(Seq(T)) /\ Len(Pieces(x, r)) = Len(x)
           /\ \A i \in 1 .. Len(x) :
                Pieces(x, r)[i] = Piece(x, i, r) /\ Piece(x, i, r) \in Seq(T)
<1> DEFINE u == Line(1, "url", origin(r))
<1>1. u \in T /\ Len(x) \in Nat /\ DOMAIN x = 1 .. Len(x) /\ \A i \in 1 .. Len(x) : x[i] \in T
  BY LenProperties, ElementOfSeq
<1> HIDE DEF u
<1>2. \A i \in 1 .. Len(x) : <<x[i], u>> \in Seq(T) /\ <<x[i]>> \in Seq(T) /\ <<>> \in Seq(T)
  BY <1>1
<1>3. ASSUME NEW i \in 1 .. Len(x) PROVE Piece(x, i, r) \in Seq(T)
  <2>1. Piece(x, i, r) \in {<<x[i], u>>, <<x[i]>>, <<>>}
    BY Zenon DEF Piece, u
  <2> QED
    BY <1>2, <2>1
<1>4. Pieces(x, r) = [i \in 1 .. Len(x) |-> Piece(x, i, r)]
  BY <1>1 DEF Pieces
<1> HIDE DEF Pieces
<1>5. [i \in 1 .. Len(x) |-> Piece(x, i, r)] \in Seq(Seq(T))
  BY <1>1, <1>3
<1> QED
  BY <1>1, <1>3, <1>4, <1>5

\* handleSpec treats such parts one by one.
LEMMA PieceConcat ==
    ASSUME NEW r, NEW T, Line(1, "url", origin(r)) \in T,
           NEW x \in Seq(T), NEW y \in Seq(T), Apart(y)
    PROVE  Pieces(x \o y, r) = Pieces(x, r) \o Pieces(y, r)
<1> DEFINE z == x \o y
           n == Len(x)
           m == Len(y)
<1>1. /\ n \in Nat /\ m \in Nat /\ Len(z) = n + m /\ z \in Seq(T)
      /\ \A i \in 1 .. n : z[i] = x[i]
      /\ \A i \in 1 .. m : z[n + i] = y[i]
  BY Joined
<1>2. \A i \in 1 .. n : InServers(z, i) <=> InServers(x, i)
  BY InServersLeft
<1>3. \A i \in 1 .. m : InServers(z, n + i) <=> InServers(y, i)
  BY InServersRight
<1>4. m > 0 => ~UrlLine(y[1])
  BY DEF Apart
<1> DEFINE p == Pieces(x, r)
           q == Pieces(y, r)
           s == Pieces(z, r)
<1>5. /\ p \in Seq(Seq(T)) /\ Len(p) = n /\ \A i \in 1 .. n : p[i] = Piece(x, i, r)
      /\ q \in Seq(Seq(T)) /\ Len(q) = m /\ \A i \in 1 .. m : q[i] = Piece(y, i, r)
  BY PiecesTyped
<1>6. s \in Seq(Seq(T)) /\ Len(s) = n + m /\ \A i \in 1 .. n + m : s[i] = Piece(z, i, r)
  <2> HIDE DEF z
  <2> QED
    BY <1>1, PiecesTyped
<1> HIDE DEF p, q, s, z, n, m
<1>7. ASSUME NEW i \in 1 .. n PROVE s[i] = p[i]
  <2>1. i \in 1 .. n + m /\ z[i] = x[i]
    BY <1>1
  <2>2. i < Len(z) /\ UrlLine(z[i + 1]) <=> i < n /\ UrlLine(x[i + 1])
    <3>1. CASE i < n
      BY <1>1, <3>1
    <3>2. CASE i = n /\ m > 0
      <4>1. 1 \in 1 .. m /\ z[n + 1] = y[1]
        BY <1>1, <3>2
      <4> QED
        BY <1>1, <1>4, <3>2, <4>1
    <3>3. CASE i = n /\ m = 0
      BY <1>1, <3>3
    <3> QED
      BY <1>1, <3>1, <3>2, <3>3
  <2>3. Piece(z, i, r) = Piece(x, i, r)
    BY <1>2, <2>1, <2>2, Zenon DEF Piece, n
  <2> QED
    BY <1>5, <1>6, <2>1, <2>3
<1>8. ASSUME NEW i \in 1 .. m PROVE s[n + i] = q[i]
  <2>1. n + i \in 1 .. n + m /\ z[n + i] = y[i] /\ (n + i < Len(z) <=> i < m)
    BY <1>1
  <2>2. i < m => z[n + i + 1] = y[i + 1]
    <3>1. i < m => i + 1 \in 1 .. m /\ n + (i + 1) = n + i + 1
      BY <1>1
    <3> QED
      BY <1>1, <3>1
  <2>3. Piece(z, n + i, r) = Piece(y, i, r)
    BY <1>3, <2>1, <2>2, Zenon DEF Piece, m
  <2> QED
    BY <1>5, <1>6, <2>1, <2>3
<1>9. /\ p \o q \in Seq(Seq(T)) /\ Len(p \o q) = n + m
      /\ \A i \in 1 .. n : (p \o q)[i] = p[i]
      /\ \A i \in 1 .. m : (p \o q)[n + i] = q[i]
  <2>1. /\ p \o q \in Seq(Seq(T)) /\ Len(p \o q) = Len(p) + Len(q)
        /\ \A i \in 1 .. Len(p) : (p \o q)[i] = p[i]
        /\ \A i \in 1 .. Len(q) : (p \o q)[Len(p) + i] = q[i]
    BY <1>5, Joined
  <2> QED
    BY <1>5, <2>1
<1> DEFINE c == p \o q
<1> HIDE DEF c
<1>10. \A i \in 1 .. n + m : s[i] = c[i]
  <2> SUFFICES ASSUME NEW i \in 1 .. n + m PROVE s[i] = c[i]
    OBVIOUS
  <2>1. CASE i <= n
    BY <1>1, <1>7, <1>9, <2>1 DEF c
  <2>2. CASE i > n
    <3> DEFINE k == i - n
    <3>1. k \in 1 .. m /\ n + k = i
      BY <1>1, <2>2
    <3> HIDE DEF k
    <3>2. s[n + k] = q[k] /\ c[n + k] = q[k]
      BY <1>8, <1>9, <3>1 DEF c
    <3> QED
      BY <3>1, <3>2
  <2> QED
    BY <1>1, <2>1, <2>2
<1>11. s = c
  BY <1>6, <1>9, <1>10, SeqEqual DEF c
<1> QED
  BY <1>11 DEF s, c, p, q, z

LEMMA HandleConcat ==
    ASSUME NEW r, NEW T, Line(1, "url", origin(r)) \in T,
           NEW x \in Seq(T), NEW y \in Seq(T), Apart(y)
    PROVE  handleSpec(x \o y, r) = handleSpec(x, r) \o handleSpec(y, r)
<1>1. \A d : handleSpec(d, r) = FlattenSeq(Pieces(d, r))
  BY Zenon DEF handleSpec, Pieces, Piece
<1>2. Pieces(x \o y, r) = Pieces(x, r) \o Pieces(y, r)
  BY PieceConcat
<1>3. Pieces(x, r) \in Seq(Seq(T)) /\ Pieces(y, r) \in Seq(Seq(T))
  BY PiecesTyped
<1>4. FlattenSeq(Pieces(x, r) \o Pieces(y, r))
        = FlattenSeq(Pieces(x, r)) \o FlattenSeq(Pieces(y, r))
  BY <1>3, FlatConcat
<1>5. handleSpec(x \o y, r) = FlattenSeq(Pieces(x \o y, r))
  BY <1>1
<1>6. handleSpec(x, r) = FlattenSeq(Pieces(x, r)) /\ handleSpec(y, r) = FlattenSeq(Pieces(y, r))
  BY <1>1
<1> QED
  BY <1>2, <1>4, <1>5, <1>6, Zenon
-----------------------------------------------------------------------------
(* What is served of the parts.                                            *)

\* A line that the splicing does not put in, and one it may leave in.
PlainLine(l) ==
    l.key # "securitySchemes" /\ l # Line(0, "security", <<>>) /\ l # Line(0, "components", <<>>)
Ordinary == {l \in Generated : PlainLine(l) /\ ~OpenapiLine(l)}
Shown(r) == {l \in DocLines(r) : PlainLine(l) /\ (l.key = "url" => l.value = origin(r))}

LEMMA UrlShown ==
    ASSUME NEW r
    PROVE  Line(1, "url", origin(r)) \in Shown(r) /\ Line(1, "url", origin(r)) \in DocLines(r)
  BY DEF Shown, DocLines, PlainLine, Line

\* Ordinary lines in, ordinary lines out, and all urls are the reader's.
LEMMA HandleShown ==
    ASSUME NEW r, NEW x \in Seq(Ordinary), Tidy(x)
    PROVE  handleSpec(x, r) \in Seq(Shown(r))
<1> DEFINE u == Line(1, "url", origin(r))
<1>1. u \in Shown(r)
  BY UrlShown
<1>2. /\ Len(x) \in Nat /\ DOMAIN x = 1 .. Len(x)
      /\ \A i \in 1 .. Len(x) : x[i] \in Ordinary
  BY LenProperties, ElementOfSeq
<1> HIDE DEF u
<1>3. ASSUME NEW i \in 1 .. Len(x) PROVE Piece(x, i, r) \in Seq(Shown(r))
  <2>1. x[i] \in Ordinary /\ i \in DOMAIN x
    BY <1>2
  <2>2. CASE x[i].key # "url"
    <3>1. x[i] \in Shown(r)
      BY <2>1, <2>2 DEF Ordinary, Shown, DocLines
    <3>2. Piece(x, i, r) \in {<<x[i], u>>, <<x[i]>>, <<>>}
      BY Zenon DEF Piece, u
    <3>3. <<x[i], u>> \in Seq(Shown(r)) /\ <<x[i]>> \in Seq(Shown(r)) /\ <<>> \in Seq(Shown(r))
      BY <1>1, <3>1, Tuples
    <3> QED
      BY <3>2, <3>3, Zenon
  <2>3. CASE x[i].key = "url"
    <3>1. ~ServersLine(x[i])
      BY <2>3 DEF ServersLine, Line
    <3>2. InServers(x, i)
      BY <2>1, <2>3 DEF Tidy
    <3>3. Piece(x, i, r) = <<>>
      BY <3>1, <3>2 DEF Piece
    <3> QED
      BY <3>3
  <2> QED
    BY <2>2, <2>3
<1>4. Pieces(x, r) = [i \in 1 .. Len(x) |-> Piece(x, i, r)]
  BY <1>2 DEF Pieces
<1>5. [i \in 1 .. Len(x) |-> Piece(x, i, r)] \in Seq(Seq(Shown(r)))
  BY <1>2, <1>3
<1>6. FlattenSeq(Pieces(x, r)) \in Seq(Shown(r))
  BY <1>4, <1>5, FlatTyped
<1>7. handleSpec(x, r) = FlattenSeq(Pieces(x, r))
  BY Zenon DEF handleSpec, Pieces, Piece
<1> QED
  BY <1>6, <1>7

\* Rest keeps a line or drops it.
Kept(T) == [l \in T |-> IF l.key \in Inserted THEN <<>> ELSE <<l>>]

LEMMA KeptIs ==
    ASSUME NEW T
    PROVE  /\ Maps(Kept(T), T, Seq(T))
           /\ \A l \in T : Kept(T)[l] = IF l.key \in Inserted THEN <<>> ELSE <<l>>
<1>1. \A l \in T : (IF l.key \in Inserted THEN <<>> ELSE <<l>>) \in Seq(T)
  OBVIOUS
<1> QED
  BY <1>1 DEF Maps, Kept

LEMMA RestIs ==
    ASSUME NEW T, NEW x \in Seq(T)
    PROVE  Rest(x) = FlatMap(Kept(T), x) /\ Rest(x) \in Seq(T)
<1>1. \A i \in DOMAIN x : x[i] \in T
  BY LenProperties, ElementOfSeq
<1>2. [i \in DOMAIN x |-> IF x[i].key \in Inserted THEN <<>> ELSE <<x[i]>>] = Each(Kept(T), x)
  BY <1>1, KeptIs DEF Each
<1>3. Rest(x) = FlatMap(Kept(T), x)
  BY <1>2, Zenon DEF Rest, FlatMap
<1> QED
  BY <1>3, KeptIs, FlatMapTyped

\* handleSpec changes urls only.
LEMMA HandleRest ==
    ASSUME NEW r, NEW T, Line(1, "url", origin(r)) \in T, NEW x \in Seq(T)
    PROVE  handleSpec(x, r) \in Seq(T) /\ Rest(handleSpec(x, r)) = Rest(x)
<1> DEFINE u == Line(1, "url", origin(r))
           k == Kept(T)
           f == [t \in Seq(T) |-> FlatMap(k, t)]
           p == Pieces(x, r)
<1>1. u \in T /\ u.key \in Inserted
  BY DEF Line, Inserted
<1>2. Maps(k, T, Seq(T)) /\ \A l \in T : k[l] = IF l.key \in Inserted THEN <<>> ELSE <<l>>
  BY KeptIs
<1>3. p \in Seq(Seq(T)) /\ Len(p) = Len(x) /\ \A i \in 1 .. Len(x) : p[i] = Piece(x, i, r)
  BY PiecesTyped
<1>4. /\ Len(x) \in Nat /\ DOMAIN x = 1 .. Len(x) /\ \A i \in 1 .. Len(x) : x[i] \in T
      /\ DOMAIN p = 1 .. Len(x)
  BY <1>3, LenProperties, ElementOfSeq
<1>5. handleSpec(x, r) = FlattenSeq(p)
  BY Zenon DEF handleSpec, Pieces, Piece
<1> HIDE DEF u, k, p
<1>6. FlatMap(k, FlattenSeq(p)) = FlatMap(f, p)
  BY <1>2, <1>3, FlatMapFlat
<1>7. FlatMap(k, <<>>) = <<>> /\ \A l \in T : FlatMap(k, <<l>>) = k[l]
  BY <1>2, FlatMapEmpty, FlatMapOne
<1>8. ASSUME NEW l \in T PROVE FlatMap(k, <<l, u>>) = k[l]
  <2>1. <<l>> \in Seq(T) /\ Append(<<l>>, u) = <<l, u>>
    BY AppendOne
  <2>2. FlatMap(k, Append(<<l>>, u)) = FlatMap(k, <<l>>) \o k[u]
    <3> DEFINE s == <<l>>
    <3>1. s \in Seq(T)
      BY <2>1
    <3> HIDE DEF s
    <3>2. FlatMap(k, Append(s, u)) = FlatMap(k, s) \o k[u]
      BY <1>1, <1>2, <3>1, FlatMapAppend
    <3> QED
      BY <3>2 DEF s
  <2>3. k[u] = <<>> /\ k[l] \in Seq(T)
    BY <1>1, <1>2 DEF Maps
  <2>4. k[l] \o <<>> = k[l]
    BY <2>3
  <2> QED
    BY <1>7, <2>1, <2>2, <2>3, <2>4, Zenon
<1>9. ASSUME NEW i \in 1 .. Len(x) PROVE p[i] \in Seq(T) /\ FlatMap(k, p[i]) = k[x[i]]
  <2>1. x[i] \in T /\ p[i] = Piece(x, i, r)
    BY <1>3, <1>4
  <2>2. /\ p[i] \in {<<x[i], u>>, <<x[i]>>, <<>>}
        /\ p[i] = <<>> => InServers(x, i)
    <3>1. <<x[i], u>> # <<>> /\ <<x[i]>> # <<>>
      OBVIOUS
    <3> QED
      BY <2>1, <3>1, Zenon DEF Piece, u
  <2>3. p[i] = <<>> => k[x[i]] = <<>>
    <3>1. InServers(x, i) => UrlLine(x[i])
      <4>1. \A s \in 1 .. i - 1 : i \in s + 1 .. i
        OBVIOUS
      <4> QED
        BY <4>1, Zenon DEF InServers
    <3> QED
      BY <1>2, <2>1, <2>2, <3>1 DEF UrlLine, Inserted
  <2>4. p[i] \in Seq(T)
    <3>1. <<x[i], u>> \in Seq(T) /\ <<x[i]>> \in Seq(T) /\ <<>> \in Seq(T)
      BY <1>1, <2>1, Tuples
    <3> QED
      BY <2>2, <3>1, Zenon
  <2>5. FlatMap(k, p[i]) = k[x[i]]
    BY <1>7, <1>8, <2>1, <2>2, <2>3, Zenon
  <2> QED
    BY <2>4, <2>5
<1>10. \A t \in Seq(T) : f[t] = FlatMap(k, t)
  OBVIOUS
<1> HIDE DEF f
<1>11. Each(f, p) = Each(k, x)
  BY <1>4, <1>9, <1>10 DEF Each
<1>12. FlatMap(k, FlattenSeq(p)) = FlatMap(k, x)
  BY <1>6, <1>11 DEF FlatMap
<1>13. FlattenSeq(p) \in Seq(T)
  BY <1>3, FlatTyped
<1>14. Rest(FlattenSeq(p)) = FlatMap(k, FlattenSeq(p)) /\ Rest(x) = FlatMap(k, x)
  <2> DEFINE q == FlattenSeq(p)
  <2>1. q \in Seq(T)
    BY <1>13
  <2> HIDE DEF q
  <2>2. Rest(q) = FlatMap(Kept(T), q) /\ Rest(x) = FlatMap(Kept(T), x)
    BY <2>1, RestIs
  <2> QED
    BY <2>2 DEF k, q
<1> QED
  BY <1>5, <1>12, <1>13, <1>14

-----------------------------------------------------------------------------
(* The parts of a generated document.                                      *)

\* What comes before, between and behind the two lines that something is put after.
Five(a, m, b, n, c) == a \o (m \o (b \o (n \o c)))

AllOver(T, a, m, b, n, c) ==
    a \in Seq(T) /\ m \in Seq(T) /\ b \in Seq(T) /\ n \in Seq(T) /\ c \in Seq(T)

LEMMA FiveTyped ==
    ASSUME NEW T, NEW a, NEW m, NEW b, NEW n, NEW c, AllOver(T, a, m, b, n, c)
    PROVE  Five(a, m, b, n, c) \in Seq(T)
<1>1. n \o c \in Seq(T)
  BY ConcatProperties DEF AllOver
<1>2. b \o (n \o c) \in Seq(T)
  BY <1>1, ConcatProperties DEF AllOver
<1>3. m \o (b \o (n \o c)) \in Seq(T)
  BY <1>2, ConcatProperties DEF AllOver
<1> QED
  BY <1>3, ConcatProperties DEF AllOver, Five

LEMMA FiveLength ==
    ASSUME NEW T, NEW a, NEW m, NEW b, NEW n, NEW c, AllOver(T, a, m, b, n, c)
    PROVE  Len(Five(a, m, b, n, c)) = Len(a) + (Len(m) + (Len(b) + (Len(n) + Len(c))))
<1>1. n \o c \in Seq(T) /\ Len(n \o c) = Len(n) + Len(c)
  BY ConcatProperties DEF AllOver
<1>2. b \o (n \o c) \in Seq(T) /\ Len(b \o (n \o c)) = Len(b) + Len(n \o c)
  BY <1>1, ConcatProperties DEF AllOver
<1>3. /\ m \o (b \o (n \o c)) \in Seq(T)
      /\ Len(m \o (b \o (n \o c))) = Len(m) + Len(b \o (n \o c))
  BY <1>2, ConcatProperties DEF AllOver
<1>4. Len(a \o (m \o (b \o (n \o c)))) = Len(a) + Len(m \o (b \o (n \o c)))
  BY <1>3, ConcatProperties DEF AllOver
<1> QED
  BY <1>1, <1>2, <1>3, <1>4, Zenon DEF Five

LEMMA FlatMapFive ==
    ASSUME NEW T, NEW U, NEW f, Maps(f, T, Seq(U)),
           NEW a, NEW m, NEW b, NEW n, NEW c, AllOver(T, a, m, b, n, c)
    PROVE  FlatMap(f, Five(a, m, b, n, c))
             = Five(FlatMap(f, a), FlatMap(f, m), FlatMap(f, b), FlatMap(f, n), FlatMap(f, c))
<1> DEFINE x == n \o c
           y == b \o x
           z == m \o y
<1>1. x \in Seq(T)
  BY ConcatProperties DEF AllOver
<1>2. FlatMap(f, n \o c) = FlatMap(f, n) \o FlatMap(f, c)
  <2>1. n \in Seq(T) /\ c \in Seq(T)
    BY DEF AllOver
  <2> QED
    BY <2>1, FlatMapConcat
<1> HIDE DEF x
<1>3. y \in Seq(T)
  BY <1>1, ConcatProperties DEF AllOver
<1>4. FlatMap(f, b \o x) = FlatMap(f, b) \o FlatMap(f, x)
  <2>1. b \in Seq(T)
    BY DEF AllOver
  <2> QED
    BY <1>1, <2>1, FlatMapConcat
<1> HIDE DEF y
<1>5. z \in Seq(T)
  BY <1>3, ConcatProperties DEF AllOver
<1>6. FlatMap(f, m \o y) = FlatMap(f, m) \o FlatMap(f, y)
  <2>1. m \in Seq(T)
    BY DEF AllOver
  <2> QED
    BY <1>3, <2>1, FlatMapConcat
<1> HIDE DEF z
<1>7. FlatMap(f, a \o z) = FlatMap(f, a) \o FlatMap(f, z)
  <2>1. a \in Seq(T)
    BY DEF AllOver
  <2> QED
    BY <1>5, <2>1, FlatMapConcat
<1> QED
  BY <1>2, <1>4, <1>6, <1>7, Zenon DEF Five, x, y, z

\* Behind a line that does not start one, no list of servers goes on.
LEMMA ApartAfter ==
    ASSUME NEW T, NEW l \in T, NEW e \in Seq(T), ~ServersLine(l), ~UrlLine(l),
           Tidy(<<l>> \o e)
    PROVE  Apart(<<l>> \o e) /\ Apart(e) /\ Tidy(e)
<1> DEFINE x == <<l>>
           z == x \o e
<1>1. x \in Seq(T) /\ Tidy(z)
  OBVIOUS
<1>2. /\ Len(e) \in Nat /\ DOMAIN z = 1 .. Len(e) + 1 /\ z[1] = l
      /\ \A i \in 1 .. Len(e) : z[1 + i] = e[i]
  <2>1. z \in Seq(T) /\ Heads(z, l, e) /\ Len(e) \in Nat
    BY Headed, LenProperties
  <2> HIDE DEF z
  <2> QED
    BY <2>1, LenProperties DEF Heads
<1> HIDE DEF z
<1>3. Apart(e)
  <2> SUFFICES ASSUME Len(e) > 0, UrlLine(e[1]) PROVE FALSE
    BY DEF Apart
  <2>1. z[1 + 1] = e[1] /\ 2 \in DOMAIN z
    <3>1. 1 \in 1 .. Len(e)
      BY <1>2
    <3>2. 2 \in 1 .. Len(e) + 1
      BY <1>2
    <3> QED
      BY <1>2, <3>1, <3>2
  <2>2. InServers(z, 2)
    BY <1>1, <2>1 DEF Tidy, UrlLine
  <2>3. PICK s \in 1 .. 2 - 1 : ServersLine(z[s])
    BY <2>2 DEF InServers
  <2>4. s = 1
    OBVIOUS
  <2> QED
    BY <1>2, <2>3, <2>4
<1>4. Tidy(e)
  <2> HIDE DEF x
  <2> QED
    BY <1>1, <1>3, TidyConcat DEF z
<1>5. Apart(z)
  BY <1>2 DEF Apart
<1> QED
  BY <1>3, <1>4, <1>5 DEF z, x

ComponentsKey == Line(0, "components", <<>>)

LEMMA Keys ==
    /\ ~ServersLine(ComponentsKey) /\ ~UrlLine(ComponentsKey)
    /\ ~OpenapiLine(ComponentsKey) /\ ComponentsLine(ComponentsKey)
    /\ \A o \in Generated : OpenapiLine(o) =>
         ~ServersLine(o) /\ ~UrlLine(o) /\ ~ComponentsLine(o)
<1>1. ComponentsKey.key = "components" /\ ComponentsLine(ComponentsKey)
  BY DEF ComponentsKey, Line, ComponentsLine
<1>2. ~ServersLine(ComponentsKey)
  BY <1>1 DEF Line, ServersLine
<1>3. ~UrlLine(ComponentsKey) /\ ~OpenapiLine(ComponentsKey)
  BY <1>1 DEF UrlLine, OpenapiLine
<1>4. ASSUME NEW o, OpenapiLine(o) PROVE ~ServersLine(o) /\ ~UrlLine(o) /\ ~ComponentsLine(o)
  BY <1>4 DEF Line, ServersLine, UrlLine, OpenapiLine, ComponentsLine
<1> QED
  BY <1>1, <1>2, <1>3, <1>4

\* A generated document is ordinary but for its openapi and components lines.
LEMMA Parts ==
    ASSUME NEW d, Document(d)
    PROVE  \E o \in Generated : \E a, b, c \in Seq(Ordinary) : \E n \in {<<ComponentsKey>>, <<>>} :
             /\ OpenapiLine(o) /\ d = Five(a, <<o>>, b, n, c) /\ (n = <<>> => c = <<>>)
             /\ Tidy(a) /\ Tidy(b) /\ Tidy(c) /\ Apart(b) /\ Apart(c)
<1>1. d \in Seq(Generated) /\ Tidy(d)
  BY DEF Document, Generated, Tidy
<1>2. /\ Len(d) \in Nat /\ DOMAIN d = 1 .. Len(d) /\ \A j \in 1 .. Len(d) : d[j] \in Generated
  BY <1>1, LenProperties, ElementOfSeq
<1>3. PICK i \in 1 .. Len(d) :
        /\ OpenapiLine(d[i])
        /\ \A j \in 1 .. Len(d) : OpenapiLine(d[j]) => j = i
        /\ \A j \in 1 .. Len(d) : ComponentsLine(d[j]) => j > i
  BY <1>2, Zenon DEF Document
<1>4. \A j \in 1 .. Len(d) : j # i /\ ~ComponentsLine(d[j]) => d[j] \in Ordinary
  <2>1. \A j \in 1 .. Len(d) : d[j].key # "securitySchemes" /\ d[j] # Line(0, "security", <<>>)
    BY <1>2 DEF Document, Top
  <2> QED
    BY <1>2, <1>3, <2>1 DEF Ordinary, PlainLine, ComponentsLine
<1>5. \A j, k \in 1 .. Len(d) : ComponentsLine(d[j]) /\ ComponentsLine(d[k]) => j = k
  BY <1>2 DEF Document, Top, ComponentsLine
<1> DEFINE o == d[i]
<1>6. o \in Generated /\ OpenapiLine(o) /\ ~ServersLine(o) /\ ~UrlLine(o)
  BY <1>2, <1>3, Keys
<1>7. \E a, e \in Seq(Generated) : SplitAt(d, i, a, e)
  BY <1>1, Split
<1>8. PICK a, e \in Seq(Generated) :
        /\ d = a \o (<<o>> \o e) /\ Len(a) = i - 1 /\ Len(e) = Len(d) - i
        /\ \A j \in 1 .. Len(a) : a[j] = d[j]
        /\ \A j \in 1 .. Len(e) : e[j] = d[i + j]
  BY <1>7, Zenon DEF SplitAt
<1>9. a \in Seq(Ordinary)
  <2>1. \A j \in 1 .. Len(a) : j \in 1 .. Len(d) /\ j # i /\ ~(j > i)
    BY <1>2, <1>8
  <2>2. \A j \in 1 .. Len(a) : a[j] \in Ordinary
    BY <1>3, <1>4, <1>8, <2>1
  <2> QED
    BY <2>2, SeqOver
<1> HIDE DEF o
<1>10. Tidy(a) /\ Tidy(e) /\ Apart(e)
  <2> DEFINE z == <<o>> \o e
  <2>1. z \in Seq(Generated)
    BY <1>6, <1>8, ConcatProperties
  <2>2. Apart(z)
    <3>1. Len(<<o>>) = 1 /\ <<o>>[1] = o
      OBVIOUS
    <3>2. (<<o>> \o e)[1] = o
      BY <1>6, <1>8
    <3> QED
      BY <1>6, <3>2 DEF Apart
  <2>3. d = a \o z
    BY <1>8
  <2> HIDE DEF z
  <2>4. Tidy(a) /\ Tidy(z)
    BY <1>1, <1>8, <2>1, <2>2, <2>3, TidyConcat
  <2> QED
    BY <1>6, <1>8, <2>4, ApartAfter DEF z
<1>11. CASE \A k \in 1 .. Len(e) : ~ComponentsLine(e[k])
  <2>1. \A j \in 1 .. Len(e) : i + j \in 1 .. Len(d) /\ i + j # i
    BY <1>2, <1>8
  <2>2. \A j \in 1 .. Len(e) : e[j] \in Ordinary
    BY <1>4, <1>8, <1>11, <2>1
  <2>3. e \in Seq(Ordinary) /\ <<>> \in Seq(Ordinary)
    BY <1>8, <2>2, SeqOver
  <2>4. e \o (<<>> \o <<>>) = e
    BY <1>8
  <2>5. d = Five(a, <<o>>, e, <<>>, <<>>)
    BY <1>8, <2>4, Zenon DEF Five
  <2>6. Tidy(<<>>) /\ Apart(<<>>)
    BY DEF Tidy, Apart
  <2> QED
    BY <1>6, <1>9, <1>10, <2>3, <2>5, <2>6
<1>12. CASE \E k \in 1 .. Len(e) : ComponentsLine(e[k])
  <2>1. PICK k \in 1 .. Len(e) : ComponentsLine(e[k])
    BY <1>12
  <2>2. e[k] = ComponentsKey /\ ComponentsKey \in Generated
    <3>1. e[k] = ComponentsKey
      BY <2>1 DEF ComponentsLine, ComponentsKey
    <3>2. e[k] \in Generated
      BY <1>8, ElementOfSeq
    <3> QED
      BY <3>1, <3>2
  <2>14. \E b, c \in Seq(Generated) : SplitAt(e, k, b, c)
    BY <1>8, Split
  <2>3. PICK b, c \in Seq(Generated) :
          /\ e = b \o (<<e[k]>> \o c) /\ Len(b) = k - 1 /\ Len(c) = Len(e) - k
          /\ \A j \in 1 .. Len(b) : b[j] = e[j]
          /\ \A j \in 1 .. Len(c) : c[j] = e[k + j]
    BY <2>14, Zenon DEF SplitAt
  <2>4. ASSUME NEW j \in 1 .. Len(e), j # k PROVE e[j] \in Ordinary
    <3>1. Len(e) = Len(d) - i /\ Len(d) \in Nat
      BY <1>2, <1>8
    <3>2. e[j] = d[i + j] /\ e[k] = d[i + k]
      BY <1>8
    <3>3. i + j \in 1 .. Len(d) /\ i + j # i /\ i + k \in 1 .. Len(d) /\ i + j # i + k
      BY <2>4, <3>1
    <3>4. ~ComponentsLine(d[i + j])
      BY <1>5, <2>1, <3>2, <3>3, Zenon
    <3> QED
      BY <1>4, <3>2, <3>3, <3>4, Zenon
  <2>5. b \in Seq(Ordinary)
    <3>1. \A j \in 1 .. Len(b) : j \in 1 .. Len(e) /\ j # k
      BY <1>2, <1>8, <2>3
    <3>2. \A j \in 1 .. Len(b) : b[j] \in Ordinary
      BY <2>3, <2>4, <3>1
    <3> QED
      BY <3>2, SeqOver
  <2>6. c \in Seq(Ordinary)
    <3>1. \A j \in 1 .. Len(c) : k + j \in 1 .. Len(e) /\ k + j # k
      BY <1>2, <1>8, <2>3
    <3>2. \A j \in 1 .. Len(c) : c[j] \in Ordinary
      BY <2>3, <2>4, <3>1
    <3> QED
      BY <3>2, SeqOver
  <2> DEFINE z == <<ComponentsKey>> \o c
  <2>7. e = b \o z /\ z \in Seq(Generated)
    BY <2>2, <2>3, ConcatProperties
  <2>8. Apart(z)
    <3>1. (<<ComponentsKey>> \o c)[1] = ComponentsKey
      BY <2>2, <2>3
    <3> QED
      BY <3>1, Keys DEF Apart
  <2> HIDE DEF z
  <2>9. Tidy(b) /\ Tidy(z)
    BY <1>10, <2>3, <2>7, <2>8, TidyConcat
  <2>10. Tidy(c) /\ Apart(c)
    BY <2>2, <2>3, <2>9, Keys, ApartAfter DEF z
  <2>11. Apart(b)
    <3>1. Len(b) > 0 => 1 \in 1 .. Len(b) /\ Len(e) > 0
      BY <1>2, <1>8, <2>3
    <3>2. Len(b) > 0 => b[1] = e[1]
      BY <2>3, <3>1
    <3> QED
      BY <1>10, <3>1, <3>2 DEF Apart
  <2>12. d = Five(a, <<o>>, b, <<ComponentsKey>>, c)
    BY <1>8, <2>7, Zenon DEF Five, z
  <2>13. <<ComponentsKey>> # <<>>
    OBVIOUS
  <2> QED
    BY <1>6, <1>9, <1>10, <2>5, <2>6, <2>9, <2>10, <2>11, <2>12, <2>13
<1> QED
  BY <1>11, <1>12

-----------------------------------------------------------------------------
(* The splicing.                                                           *)

WithSchemes(T) ==
    [l \in T |-> IF ComponentsLine(l) THEN <<l>> \o securitySchemesBlock ELSE <<l>>]
WithRequirement(T) ==
    [l \in T |-> IF OpenapiLine(l) THEN <<l>> \o securityBlock ELSE <<l>>]

\* The two blocks, with the lines they follow.
LEMMA BlockLines ==
    /\ Len(securitySchemesBlock) = 2 /\ Len(securityBlock) = 2
    /\ \A T : Block \subseteq T =>
         /\ ComponentsKey \in T
         /\ securitySchemesBlock \in Seq(T) /\ securityBlock \in Seq(T)
<1>1. Len(securitySchemesBlock) = 2 /\ Len(securityBlock) = 2
  BY DEF securitySchemesBlock, securityBlock
<1>2. ASSUME NEW T, Block \subseteq T PROVE securitySchemesBlock \in Seq(T)
  <2> DEFINE a == securitySchemesBlock[1]
             b == securitySchemesBlock[2]
  <2>1. securitySchemesBlock = <<a, b>>
    BY DEF securitySchemesBlock
  <2>2. a \in T /\ b \in T
    BY <1>2 DEF Block
  <2> HIDE DEF a, b
  <2> QED
    BY <2>1, <2>2, Tuples
<1>3. ASSUME NEW T, Block \subseteq T PROVE securityBlock \in Seq(T)
  <2> DEFINE a == securityBlock[1]
             b == securityBlock[2]
  <2>1. securityBlock = <<a, b>>
    BY DEF securityBlock
  <2>2. a \in T /\ b \in T
    BY <1>3 DEF Block
  <2> HIDE DEF a, b
  <2> QED
    BY <2>1, <2>2, Tuples
<1> QED
  BY <1>1, <1>2, <1>3 DEF Block, ComponentsKey

LEMMA HeadedBlock ==
    ASSUME NEW T, NEW l \in T, NEW block \in Seq(T), Len(block) = 2
    PROVE  /\ <<l>> \o block \in Seq(T) /\ Len(<<l>> \o block) = 3
           /\ (<<l>> \o block)[1] = l
           /\ (<<l>> \o block)[2] = block[1] /\ (<<l>> \o block)[3] = block[2]
<1> DEFINE z == <<l>> \o block
<1>1. z \in Seq(T) /\ Heads(z, l, block)
  BY Headed
<1> HIDE DEF z
<1>2. 1 \in 1 .. Len(block) /\ 2 \in 1 .. Len(block)
  OBVIOUS
<1>3. Len(z) = 3 /\ z[1] = l /\ z[1 + 1] = block[1] /\ z[1 + 2] = block[2]
  BY <1>1, <1>2 DEF Heads
<1> QED
  BY <1>1, <1>3 DEF z

\* What InsertAfter does, line by line.
LEMMA Inserting ==
    ASSUME NEW T, Block \subseteq T
    PROVE  /\ Maps(WithSchemes(T), T, Seq(T)) /\ Maps(WithRequirement(T), T, Seq(T))
           /\ \A l \in T :
                /\ WithSchemes(T)[l] =
                     IF ComponentsLine(l) THEN <<l>> \o securitySchemesBlock ELSE <<l>>
                /\ WithRequirement(T)[l] =
                     IF OpenapiLine(l) THEN <<l>> \o securityBlock ELSE <<l>>
           /\ \A x \in Seq(T) :
                /\ InsertAfter(ComponentsLine, securitySchemesBlock, x) = FlatMap(WithSchemes(T), x)
                /\ InsertAfter(OpenapiLine, securityBlock, x) = FlatMap(WithRequirement(T), x)
<1>1. \A l \in T : /\ <<l>> \in Seq(T)
                   /\ <<l>> \o securitySchemesBlock \in Seq(T) /\ <<l>> \o securityBlock \in Seq(T)
  BY BlockLines, HeadedBlock
<1>2. Maps(WithSchemes(T), T, Seq(T)) /\ Maps(WithRequirement(T), T, Seq(T))
  BY <1>1 DEF Maps, WithSchemes, WithRequirement
<1>3. ASSUME NEW l \in T
      PROVE  /\ WithSchemes(T)[l] =
                  IF ComponentsLine(l) THEN <<l>> \o securitySchemesBlock ELSE <<l>>
             /\ WithRequirement(T)[l] =
                  IF OpenapiLine(l) THEN <<l>> \o securityBlock ELSE <<l>>
  BY DEF WithSchemes, WithRequirement
<1>4. ASSUME NEW x \in Seq(T)
      PROVE  /\ InsertAfter(ComponentsLine, securitySchemesBlock, x) = FlatMap(WithSchemes(T), x)
             /\ InsertAfter(OpenapiLine, securityBlock, x) = FlatMap(WithRequirement(T), x)
  <2>1. \A i \in DOMAIN x : x[i] \in T
    BY LenProperties, ElementOfSeq
  <2>2. [i \in DOMAIN x |-> IF ComponentsLine(x[i]) THEN <<x[i]>> \o securitySchemesBlock
                            ELSE <<x[i]>>] = Each(WithSchemes(T), x)
    BY <1>3, <2>1 DEF Each
  <2>3. [i \in DOMAIN x |-> IF OpenapiLine(x[i]) THEN <<x[i]>> \o securityBlock
                            ELSE <<x[i]>>] = Each(WithRequirement(T), x)
    BY <1>3, <2>1 DEF Each
  <2> QED
    BY <2>2, <2>3, Zenon DEF InsertAfter, FlatMap
<1> QED
  BY <1>2, <1>3, <1>4

\* The document as served at its best: the parts, with the blocks between them.
Scheme == <<ComponentsKey>> \o securitySchemesBlock
Spliced(a, o, b, c) == Five(a, <<o>> \o securityBlock, b, Scheme, c)

\* Ordinary lines stay as they are.
LEMMA OrdinaryKept ==
    ASSUME NEW T, Block \subseteq T, Ordinary \subseteq T, NEW x \in Seq(Ordinary)
    PROVE  /\ x \in Seq(T)
           /\ FlatMap(WithSchemes(T), x) = x /\ FlatMap(WithRequirement(T), x) = x
<1>1. x \in Seq(T)
  BY SeqMonotonic
<1>2. \A i \in 1 .. Len(x) : x[i] \in Ordinary
  BY ElementOfSeq
<1>3. \A i \in 1 .. Len(x) :
        x[i] \in T /\ ~ComponentsLine(x[i]) /\ ~OpenapiLine(x[i])
  BY <1>2 DEF Ordinary, PlainLine, ComponentsLine
<1>4. \A i \in 1 .. Len(x) :
        WithSchemes(T)[x[i]] = <<x[i]>> /\ WithRequirement(T)[x[i]] = <<x[i]>>
  BY <1>3, Inserting
<1>5. Maps(WithSchemes(T), T, Seq(T)) /\ Maps(WithRequirement(T), T, Seq(T)) /\ T \subseteq T
  BY Inserting
<1>6. FlatMap(WithSchemes(T), x) = x
  BY <1>1, <1>4, <1>5, FlatMapSelf
<1>7. FlatMap(WithRequirement(T), x) = x
  BY <1>1, <1>4, <1>5, FlatMapSelf
<1> QED
  BY <1>1, <1>6, <1>7

LEMMA FiveUnlike ==
    ASSUME NEW T, NEW a, NEW m, NEW b, NEW n, NEW c, NEW k,
           AllOver(T, a, m, b, n, c), AllOver(T, a, m, b, k, c), Len(n) # Len(k)
    PROVE  Five(a, m, b, n, c) # Five(a, m, b, k, c)
<1>1. Len(Five(a, m, b, n, c)) = Len(a) + (Len(m) + (Len(b) + (Len(n) + Len(c))))
  BY FiveLength
<1>2. Len(Five(a, m, b, k, c)) = Len(a) + (Len(m) + (Len(b) + (Len(k) + Len(c))))
  BY FiveLength
<1>3. Len(a) \in Nat /\ Len(m) \in Nat /\ Len(b) \in Nat
      /\ Len(n) \in Nat /\ Len(c) \in Nat /\ Len(k) \in Nat
  BY LenProperties DEF AllOver
<1> QED
  BY <1>1, <1>2, <1>3

LEMMA SchemeIs ==
    ASSUME NEW T, Block \subseteq T
    PROVE  /\ Scheme \in Seq(T) /\ Len(Scheme) = 3 /\ Scheme[1] = ComponentsKey
           /\ Scheme[2] = securitySchemesBlock[1] /\ Scheme[3] = securitySchemesBlock[2]
           /\ FlatMap(WithRequirement(T), Scheme) = Scheme
<1>1. /\ Scheme \in Seq(T) /\ Len(Scheme) = 3 /\ Scheme[1] = ComponentsKey
      /\ Scheme[2] = securitySchemesBlock[1] /\ Scheme[3] = securitySchemesBlock[2]
  BY BlockLines, HeadedBlock DEF Scheme
<1>2. \A i \in 1 .. 3 : Scheme[i] \in T /\ ~OpenapiLine(Scheme[i])
  <2>1. \A i \in 1 .. 3 : i = 1 \/ i = 2 \/ i = 3
    OBVIOUS
  <2>2. ~OpenapiLine(ComponentsKey) /\ ~OpenapiLine(securitySchemesBlock[1])
        /\ ~OpenapiLine(securitySchemesBlock[2])
    BY Keys DEF OpenapiLine, securitySchemesBlock, Line
  <2>3. \A i \in 1 .. 3 : Scheme[i] \in T
    BY <1>1, ElementOfSeq
  <2> QED
    BY <1>1, <2>1, <2>2, <2>3
<1>3. \A i \in 1 .. Len(Scheme) : WithRequirement(T)[Scheme[i]] = <<Scheme[i]>>
  BY <1>1, <1>2, Inserting
<1>4. Maps(WithRequirement(T), T, Seq(T)) /\ T \subseteq T
  BY Inserting
<1> QED
  BY <1>1, <1>3, <1>4, FlatMapSelf

LEMMA Regrouped ==
    ASSUME NEW T, NEW a, NEW h, NEW b, NEW x, NEW c, AllOver(T, a, h, b, x, c)
    PROVE  (a \o (h \o b)) \o x = a \o (h \o (b \o x))
<1>1. a \in Seq(T) /\ h \in Seq(T) /\ b \in Seq(T) /\ x \in Seq(T)
  BY DEF AllOver
<1> DEFINE y == h \o b
<1>2. y \o x = h \o (b \o x)
  BY <1>1, ConcatAssociative
<1>3. y \in Seq(T)
  BY <1>1, ConcatProperties
<1> HIDE DEF y
<1>4. (a \o y) \o x = a \o (y \o x)
  <2>1. a \in Seq(T) /\ x \in Seq(T)
    BY <1>1, Zenon
  <2> QED
    BY <2>1, <1>3, ConcatAssociative
<1> QED
  BY <1>2, <1>4, Zenon DEF y

\* withSecurityScheme puts both blocks in, whether there is a components line or not.
LEMMA SplicedIs ==
    ASSUME NEW T, Block \subseteq T, Generated \subseteq T, NEW o \in Generated, OpenapiLine(o),
           NEW a \in Seq(Ordinary), NEW b \in Seq(Ordinary), NEW c \in Seq(Ordinary),
           NEW n \in {<<ComponentsKey>>, <<>>}, n = <<>> => c = <<>>
    PROVE  withSecurityScheme(Five(a, <<o>>, b, n, c)) = Spliced(a, o, b, c)
<1> DEFINE d == Five(a, <<o>>, b, n, c)
           out == InsertAfter(ComponentsLine, securitySchemesBlock, d)
           all == Five(a, <<o>>, b, Scheme, c)
           s == WithSchemes(T)
           q == WithRequirement(T)
<1>1. /\ Maps(s, T, Seq(T)) /\ Maps(q, T, Seq(T)) /\ ComponentsKey \in T /\ o \in T
      /\ Scheme \in Seq(T) /\ FlatMap(q, Scheme) = Scheme
  BY Inserting, BlockLines, SchemeIs
<1>2. Ordinary \subseteq T
  BY DEF Ordinary
<1>3. /\ a \in Seq(T) /\ b \in Seq(T) /\ c \in Seq(T)
      /\ FlatMap(s, a) = a /\ FlatMap(s, b) = b /\ FlatMap(s, c) = c
      /\ FlatMap(q, a) = a /\ FlatMap(q, b) = b /\ FlatMap(q, c) = c
  BY <1>2, OrdinaryKept
<1>4. <<o>> \in Seq(T) /\ n \in Seq(T)
  <2>1. <<o>> \in Seq(T) /\ <<ComponentsKey>> \in Seq(T) /\ <<>> \in Seq(T)
    BY <1>1, Tuples
  <2> QED
    BY <2>1, Zenon
<1>5. AllOver(T, a, <<o>>, b, n, c) /\ AllOver(T, a, <<o>>, b, Scheme, c)
  BY <1>1, <1>3, <1>4 DEF AllOver
<1>6. d \in Seq(T) /\ all \in Seq(T)
  BY <1>5, FiveTyped
<1>7. FlatMap(s, <<o>>) = <<o>> /\ FlatMap(q, <<o>>) = <<o>> \o securityBlock
  <2>1. s[o] = <<o>> /\ q[o] = <<o>> \o securityBlock
    BY <1>1, Inserting, Keys
  <2> HIDE DEF s, q
  <2>2. FlatMap(s, <<o>>) = s[o]
    BY <1>1, FlatMapOne
  <2>3. FlatMap(q, <<o>>) = q[o]
    BY <1>1, FlatMapOne
  <2> QED
    BY <2>1, <2>2, <2>3, Zenon
<1>8. FlatMap(s, <<ComponentsKey>>) = Scheme /\ FlatMap(s, <<>>) = <<>>
  <2>1. s[ComponentsKey] = Scheme
    BY <1>1, Inserting, Keys DEF Scheme
  <2> QED
    BY <1>1, <2>1, FlatMapOne, FlatMapEmpty
<1>9. out = FlatMap(s, d) /\ InsertAfter(OpenapiLine, securityBlock, all) = FlatMap(q, all)
  <2> HIDE DEF d, all
  <2> QED
    BY <1>6, Inserting
<1>10. FlatMap(q, all) = Spliced(a, o, b, c)
  <2> HIDE DEF q
  <2>1. FlatMap(q, all) = Five(FlatMap(q, a), FlatMap(q, <<o>>), FlatMap(q, b),
                               FlatMap(q, Scheme), FlatMap(q, c))
    BY <1>1, <1>5, FlatMapFive
  <2> QED
    BY <1>1, <1>3, <1>7, <2>1, Zenon DEF Spliced
<1>11. out = Five(a, <<o>>, b, FlatMap(s, n), c)
  <2> HIDE DEF s, out
  <2>1. FlatMap(s, d) = Five(FlatMap(s, a), FlatMap(s, <<o>>), FlatMap(s, b),
                             FlatMap(s, n), FlatMap(s, c))
    BY <1>1, <1>5, FlatMapFive
  <2> QED
    BY <1>3, <1>7, <1>9, <2>1, Zenon
<1>12. withSecurityScheme(d) =
         InsertAfter(OpenapiLine, securityBlock,
                     IF out = d THEN d \o <<ComponentsKey>> \o securitySchemesBlock ELSE out)
  BY Zenon DEF withSecurityScheme, ComponentsKey
<1>13. (IF out = d THEN d \o <<ComponentsKey>> \o securitySchemesBlock ELSE out) = all
  <2>1. CASE n = <<>>
    <3>1. out = d
      BY <1>8, <1>11, <2>1, Zenon
    <3>2. d \o <<ComponentsKey>> \o securitySchemesBlock = d \o Scheme
      <4> DEFINE k == <<ComponentsKey>>
      <4>1. k \in Seq(T) /\ securitySchemesBlock \in Seq(T)
        BY <1>1, BlockLines
      <4> HIDE DEF k, d
      <4> QED
        BY <1>6, <4>1, ConcatAssociative DEF Scheme, k
    <3>3. d \o Scheme = Five(a, <<o>>, b, Scheme, c)
      <4> DEFINE x == Scheme
                 h == <<o>>
                 e == <<>>
      <4>1. e \in Seq(T) /\ b \o (e \o e) = b /\ x \o e = x
        BY <1>1, <1>3
      <4>2. h \in Seq(T) /\ x \in Seq(T)
        BY <1>1, <1>4
      <4> HIDE DEF x, h, e
      <4>3. (a \o (h \o b)) \o x = a \o (h \o (b \o x))
        <5>1. AllOver(T, a, h, b, x, c)
          BY <1>5, Zenon DEF h, x
        <5> QED
          BY <5>1, Regrouped, SMTT(20)
      <4>6. d = a \o (h \o b)
        BY <2>1, <4>1, Zenon DEF Five, h, e
      <4>7. Five(a, <<o>>, b, Scheme, c) = a \o (h \o (b \o x))
        BY <2>1, <4>1, Zenon DEF Five, h, e, x
      <4> HIDE DEF d
      <4> QED
        BY <4>3, <4>6, <4>7, Zenon DEF x
    <3> QED
      BY <3>1, <3>2, <3>3, Zenon
  <2>2. CASE n = <<ComponentsKey>>
    <3>1. out = all
      BY <1>8, <1>11, <2>2, Zenon
    <3>2. out # d
      <4>1. Len(n) = 1 /\ Len(Scheme) = 3
        BY <2>2, SchemeIs
      <4> DEFINE h == <<o>>
                 k == Scheme
      <4> HIDE DEF h, k
      <4>2. AllOver(T, a, h, b, n, c) /\ AllOver(T, a, h, b, k, c)
        BY <1>5 DEF h, k
      <4>3. Len(n) # Len(k)
        BY <4>1 DEF k
      <4>4. Five(a, h, b, n, c) # Five(a, h, b, k, c)
        BY <4>2, <4>3, FiveUnlike
      <4> QED
        BY <3>1, <4>4 DEF h, k
    <3> QED
      BY <3>1, <3>2, Zenon
  <2> QED
    BY <2>1, <2>2
<1> QED
  BY <1>9, <1>10, <1>12, <1>13, Zenon

-----------------------------------------------------------------------------
(* The document that is served.                                            *)

\* DocLines that are no part of a list of servers are served as they are.
LEMMA HandleSame ==
    ASSUME NEW r, NEW T, Line(1, "url", origin(r)) \in T, NEW x \in Seq(T),
           \A i \in 1 .. Len(x) : ~ServersLine(x[i]) /\ ~UrlLine(x[i])
    PROVE  handleSpec(x, r) = x
<1> DEFINE f == [l \in T |-> <<l>>]
<1>1. Maps(f, T, Seq(T)) /\ \A l \in T : f[l] = <<l>>
  BY DEF Maps
<1>2. /\ Len(x) \in Nat /\ DOMAIN x = 1 .. Len(x) /\ \A i \in 1 .. Len(x) : x[i] \in T
  BY LenProperties, ElementOfSeq
<1> HIDE DEF f
<1>3. ASSUME NEW i \in 1 .. Len(x) PROVE Piece(x, i, r) = f[x[i]]
  <2>1. ~InServers(x, i)
    <3>1. \A s \in 1 .. i - 1 : i \in s + 1 .. i
      OBVIOUS
    <3> QED
      BY <3>1, Zenon DEF InServers
  <2>2. ~ServersLine(x[i]) /\ f[x[i]] = <<x[i]>>
    BY <1>1, <1>2
  <2> QED
    BY <2>1, <2>2, Zenon DEF Piece
<1>4. Pieces(x, r) = Each(f, x)
  BY <1>2, <1>3 DEF Pieces, Each
<1>5. handleSpec(x, r) = FlattenSeq(Pieces(x, r))
  BY Zenon DEF handleSpec, Pieces, Piece
<1>6. handleSpec(x, r) = FlatMap(f, x)
  BY <1>4, <1>5, Zenon DEF FlatMap
<1>7. T \subseteq T /\ \A i \in 1 .. Len(x) : f[x[i]] = <<x[i]>>
  BY <1>1, <1>2
<1>8. FlatMap(f, x) = x
  BY <1>1, <1>7, FlatMapSelf
<1> QED
  BY <1>6, <1>8

LEMMA ApartConcat ==
    ASSUME NEW T, NEW x \in Seq(T), NEW y \in Seq(T), Apart(x), Apart(y)
    PROVE  Apart(x \o y)
<1> DEFINE z == x \o y
<1>1. /\ Len(x) \in Nat /\ Len(y) \in Nat /\ Len(z) = Len(x) + Len(y)
      /\ \A i \in 1 .. Len(x) : z[i] = x[i]
      /\ \A i \in 1 .. Len(y) : z[Len(x) + i] = y[i]
  BY Joined
<1> HIDE DEF z
<1>2. CASE Len(x) > 0
  <2>1. 1 \in 1 .. Len(x)
    BY <1>1, <1>2
  <2> QED
    BY <1>1, <1>2, <2>1 DEF Apart, z
<1>3. CASE Len(x) = 0 /\ Len(y) > 0
  <2>1. 1 \in 1 .. Len(y) /\ Len(x) + 1 = 1
    BY <1>1, <1>3
  <2>2. z[1] = y[1]
    BY <1>1, <2>1
  <2> QED
    BY <1>3, <2>2 DEF Apart, z
<1>4. CASE Len(x) = 0 /\ Len(y) = 0
  BY <1>1, <1>4 DEF Apart, z
<1> QED
  BY <1>1, <1>2, <1>3, <1>4

LEMMA HandleFive ==
    ASSUME NEW r, NEW T, Line(1, "url", origin(r)) \in T,
           NEW a, NEW m, NEW b, NEW n, NEW c, AllOver(T, a, m, b, n, c),
           Apart(m), Apart(b), Apart(n), Apart(c)
    PROVE  handleSpec(Five(a, m, b, n, c), r)
             = Five(handleSpec(a, r), handleSpec(m, r), handleSpec(b, r),
                    handleSpec(n, r), handleSpec(c, r))
<1> DEFINE x == n \o c
           y == b \o x
           z == m \o y
<1>1. a \in Seq(T) /\ m \in Seq(T) /\ b \in Seq(T) /\ n \in Seq(T) /\ c \in Seq(T)
  BY DEF AllOver
<1>2. x \in Seq(T) /\ Apart(x)
  BY <1>1, ConcatProperties, ApartConcat
<1>3. handleSpec(n \o c, r) = handleSpec(n, r) \o handleSpec(c, r)
  BY <1>1, HandleConcat
<1> HIDE DEF x
<1>4. y \in Seq(T) /\ Apart(y)
  BY <1>1, <1>2, ConcatProperties, ApartConcat
<1>5. handleSpec(b \o x, r) = handleSpec(b, r) \o handleSpec(x, r)
  BY <1>1, <1>2, HandleConcat
<1> HIDE DEF y
<1>6. z \in Seq(T) /\ Apart(z)
  BY <1>1, <1>4, ConcatProperties, ApartConcat
<1>7. handleSpec(m \o y, r) = handleSpec(m, r) \o handleSpec(y, r)
  BY <1>1, <1>4, HandleConcat
<1> HIDE DEF z
<1>8. handleSpec(a \o z, r) = handleSpec(a, r) \o handleSpec(z, r)
  BY <1>1, <1>6, HandleConcat
<1> QED
  BY <1>3, <1>5, <1>7, <1>8, Zenon DEF Five, x, y, z

LEMMA RestFive ==
    ASSUME NEW T, NEW a, NEW m, NEW b, NEW n, NEW c, AllOver(T, a, m, b, n, c)
    PROVE  Rest(Five(a, m, b, n, c)) = Five(Rest(a), Rest(m), Rest(b), Rest(n), Rest(c))
<1> DEFINE k == Kept(T)
           d == Five(a, m, b, n, c)
<1>1. d \in Seq(T) /\ Maps(k, T, Seq(T))
  BY FiveTyped, KeptIs
<1> HIDE DEF k, d
<1>2. FlatMap(k, Five(a, m, b, n, c))
        = Five(FlatMap(k, a), FlatMap(k, m), FlatMap(k, b), FlatMap(k, n), FlatMap(k, c))
  BY <1>1, FlatMapFive
<1>3. \A x \in Seq(T) : Rest(x) = FlatMap(k, x)
  BY RestIs DEF k
<1>4. a \in Seq(T) /\ m \in Seq(T) /\ b \in Seq(T) /\ n \in Seq(T) /\ c \in Seq(T)
  BY DEF AllOver
<1>5. Rest(a) = FlatMap(k, a) /\ Rest(m) = FlatMap(k, m) /\ Rest(b) = FlatMap(k, b)
      /\ Rest(n) = FlatMap(k, n) /\ Rest(c) = FlatMap(k, c) /\ Rest(d) = FlatMap(k, d)
  BY <1>1, <1>3, <1>4, Zenon
<1> QED
  BY <1>2, <1>5, Zenon DEF d

\* Where the two blocks are in what is served, and what the other lines are.
Laid(z, S, p, k, m, n) ==
    /\ p \in Nat /\ k \in Nat /\ p + 3 < k /\ k + 2 \in 1 .. Len(z)
    /\ Len(z) \in Nat /\ DOMAIN z = 1 .. Len(z)
    /\ z[p + 1] = m[1] /\ z[p + 2] = m[2] /\ z[p + 3] = m[3]
    /\ z[k] = n[1] /\ z[k + 1] = n[2] /\ z[k + 2] = n[3]
    /\ \A i \in 1 .. Len(z) :
         \/ i = p + 1 \/ i = p + 2 \/ i = p + 3 \/ i = k \/ i = k + 1 \/ i = k + 2
         \/ z[i] \in S

LEMMA FiveLaid ==
    ASSUME NEW T, NEW a, NEW m, NEW b, NEW n, NEW c, AllOver(T, a, m, b, n, c),
           Len(m) = 3, Len(n) = 3, NEW S, AllOver(S, a, <<>>, b, <<>>, c)
    PROVE  Laid(Five(a, m, b, n, c), S, Len(a), (Len(a) + Len(b)) + 4, m, n)
<1> DEFINE y == b \o (n \o c)
           z == a \o (m \o y)
           p == Len(a)
           q == Len(b)
           s == Len(c)
           k == (p + q) + 4
<1>1. y \in Seq(T) /\ Among(y, b, n, c)
  BY Between DEF AllOver
<1> HIDE DEF y
<1>2. z \in Seq(T) /\ Among(z, a, m, y)
  BY <1>1, Between DEF AllOver
<1> HIDE DEF z
<1>3. /\ p \in Nat /\ q \in Nat /\ s \in Nat
      /\ \A i \in 1 .. p : a[i] \in S
      /\ \A i \in 1 .. q : b[i] \in S
      /\ \A i \in 1 .. s : c[i] \in S
  BY LenProperties, ElementOfSeq DEF AllOver
<1>4. Len(z) \in Nat /\ DOMAIN z = 1 .. Len(z)
  BY <1>2, LenProperties
<1> HIDE DEF p, q, s
<1>5. /\ Len(y) = (q + 3) + s
      /\ \A i \in 1 .. q : y[i] = b[i]
      /\ y[q + 1] = n[1] /\ y[q + 2] = n[2] /\ y[q + 3] = n[3]
      /\ \A i \in 1 .. s : y[(q + 3) + i] = c[i]
  BY <1>1, Zenon DEF Among, q, s
<1>6. /\ Len(z) = (p + 3) + Len(y)
      /\ \A i \in 1 .. p : z[i] = a[i]
      /\ z[p + 1] = m[1] /\ z[p + 2] = m[2] /\ z[p + 3] = m[3]
      /\ \A i \in 1 .. Len(y) : z[(p + 3) + i] = y[i]
  BY <1>2, Zenon DEF Among, p
<1>7. Len(y) = (q + 3) + s /\ Len(z) = (p + 3) + ((q + 3) + s)
  BY <1>5, <1>6
<1>8. p + 3 < k /\ k + 2 \in 1 .. Len(z)
  BY <1>3, <1>7
<1>9. z[k] = n[1] /\ z[k + 1] = n[2] /\ z[k + 2] = n[3]
  <2>1. q + 1 \in 1 .. Len(y) /\ q + 2 \in 1 .. Len(y) /\ q + 3 \in 1 .. Len(y)
    BY <1>3, <1>7
  <2>2. (p + 3) + (q + 1) = k /\ (p + 3) + (q + 2) = k + 1 /\ (p + 3) + (q + 3) = k + 2
    BY <1>3
  <2> HIDE DEF k
  <2>3. z[(p + 3) + (q + 1)] = n[1] /\ z[(p + 3) + (q + 2)] = n[2] /\ z[(p + 3) + (q + 3)] = n[3]
    BY <1>5, <1>6, <2>1
  <2> QED
    BY <2>2, <2>3, Zenon
<1>10. ASSUME NEW i \in 1 .. Len(z)
       PROVE  \/ i = p + 1 \/ i = p + 2 \/ i = p + 3 \/ i = k \/ i = k + 1 \/ i = k + 2
              \/ z[i] \in S
  <2>1. CASE i \in 1 .. p
    BY <1>3, <1>6, <2>1
  <2>2. CASE i - (p + 3) \in 1 .. q
    <3> DEFINE j == i - (p + 3)
    <3>1. j \in 1 .. Len(y) /\ (p + 3) + j = i
      BY <1>3, <1>4, <1>7, <2>2
    <3>2. j \in 1 .. q
      BY <2>2
    <3> HIDE DEF j
    <3>3. z[(p + 3) + j] = b[j] /\ b[j] \in S
      BY <1>3, <1>5, <1>6, <3>1, <3>2
    <3> QED
      BY <3>1, <3>3
  <2>3. CASE i - (p + 3) - (q + 3) \in 1 .. s
    <3> DEFINE j == i - (p + 3) - (q + 3)
    <3>1. j \in 1 .. s
      BY <2>3
    <3>2. (q + 3) + j \in 1 .. Len(y) /\ (p + 3) + ((q + 3) + j) = i
      BY <1>3, <1>4, <1>7, <2>3
    <3> HIDE DEF j
    <3>3. z[(p + 3) + ((q + 3) + j)] = c[j] /\ c[j] \in S
      BY <1>3, <1>5, <1>6, <3>1, <3>2
    <3> QED
      BY <3>2, <3>3
  <2>4. \/ i \in 1 .. p \/ i - (p + 3) \in 1 .. q \/ i - (p + 3) - (q + 3) \in 1 .. s
        \/ i = p + 1 \/ i = p + 2 \/ i = p + 3 \/ i = k \/ i = k + 1 \/ i = k + 2
    BY <1>3, <1>7
  <2> QED
    BY <2>1, <2>2, <2>3, <2>4
<1>11. Five(a, m, b, n, c) = z
  BY Zenon DEF Five, z, y
<1>12. Laid(z, S, p, k, m, n)
  <2> HIDE DEF k
  <2>1. k \in Nat
    BY <1>3 DEF k
  <2> QED
    BY <1>3, <1>4, <1>6, <1>8, <1>9, <1>10, <2>1, Zenon DEF Laid
<1> QED
  BY <1>11, <1>12 DEF p, q, k

\* What Sound says but for Rest.
Dressed(z, r) ==
    /\ \E i \in DOMAIN z :
         Top(z, "security") = {i} /\ i > 1 /\ z[i - 1].key = "openapi"
    /\ \E i \in DOMAIN z :
         Top(z, "components") = {i} /\ i < Len(z) /\ z[i + 1].key = "securitySchemes"
    /\ \E i \in DOMAIN z : {j \in DOMAIN z : z[j].key = "securitySchemes"} = {i}
    /\ \A i \in DOMAIN z : z[i].key = "url" => z[i].value = origin(r)

\* So laid out, a document has what Sound asks for.
LEMMA LaidSound ==
    ASSUME NEW r, NEW z, NEW p, NEW k, NEW m, NEW n, Laid(z, Shown(r), p, k, m, n),
           NEW o, OpenapiLine(o), m[1] = o,
           m[2] = securityBlock[1], m[3] = securityBlock[2], n[1] = ComponentsKey,
           n[2] = securitySchemesBlock[1], n[3] = securitySchemesBlock[2]
    PROVE  Dressed(z, r)
<1> DEFINE Sec == Line(0, "security", <<>>)
           b == Line(1, "bearerAuth", <<>>)
           s == Line(1, "securitySchemes", <<>>)
           t == Line(2, "bearerAuth", <<"http", "bearer", "JWT">>)
           S == Shown(r)
<1>1. /\ p \in Nat /\ k \in Nat /\ p + 3 < k /\ k + 2 \in 1 .. Len(z)
      /\ Len(z) \in Nat /\ DOMAIN z = 1 .. Len(z)
  BY DEF Laid
<1>2. /\ z[p + 1] = o /\ z[p + 2] = Sec /\ z[p + 3] = b
      /\ z[k] = ComponentsKey /\ z[k + 1] = s /\ z[k + 2] = t
  BY DEF Laid, securityBlock, securitySchemesBlock
<1>3. \A i \in 1 .. Len(z) :
        \/ i = p + 1 \/ i = p + 2 \/ i = p + 3 \/ i = k \/ i = k + 1 \/ i = k + 2
        \/ z[i] \in S
  BY DEF Laid
<1>4. /\ o.key = "openapi" /\ Sec.key = "security" /\ b.key = "bearerAuth"
      /\ ComponentsKey.key = "components" /\ s.key = "securitySchemes" /\ t.key = "bearerAuth"
  BY DEF OpenapiLine, Line, ComponentsKey
<1>5. \A l \in S : /\ l.key # "securitySchemes" /\ l # Sec /\ l # ComponentsKey
                   /\ l.key = "url" => l.value = origin(r)
  BY DEF Shown, PlainLine, ComponentsKey
<1>6. Sec # ComponentsKey
  BY <1>4
<1> HIDE DEF Sec, b, s, t, S
<1>7. \A i \in 1 .. Len(z) : z[i] = Sec <=> i = p + 2
  BY <1>2, <1>3, <1>4, <1>5
<1>8. \A i \in 1 .. Len(z) : z[i] = ComponentsKey <=> i = k
  BY <1>2, <1>3, <1>4, <1>5
<1>9. \A i \in 1 .. Len(z) : z[i].key = "securitySchemes" <=> i = k + 1
  BY <1>2, <1>3, <1>4, <1>5
<1>10. \A i \in 1 .. Len(z) : z[i].key = "url" => z[i].value = origin(r)
  BY <1>2, <1>3, <1>4, <1>5
<1>11. /\ p + 2 \in 1 .. Len(z) /\ p + 2 > 1 /\ (p + 2) - 1 = p + 1
       /\ k \in 1 .. Len(z) /\ k < Len(z) /\ k + 1 \in 1 .. Len(z)
  BY <1>1
<1>12. Top(z, "security") = {p + 2}
  BY <1>1, <1>7, <1>11 DEF Top, Sec
<1>13. Top(z, "components") = {k}
  BY <1>1, <1>8, <1>11 DEF Top, ComponentsKey
<1>14. {j \in DOMAIN z : z[j].key = "securitySchemes"} = {k + 1}
  BY <1>1, <1>9, <1>11
<1>15. z[(p + 2) - 1].key = "openapi" /\ z[k + 1].key = "securitySchemes"
  BY <1>2, <1>4, <1>11
<1> QED
  BY <1>1, <1>10, <1>11, <1>12, <1>13, <1>14, <1>15, Zenon DEF Dressed

\* The openapi line with the requirement behind it.
LEMMA RequirementIs ==
    ASSUME NEW T, Block \subseteq T, NEW o \in T, OpenapiLine(o)
    PROVE  /\ <<o>> \o securityBlock \in Seq(T) /\ Len(<<o>> \o securityBlock) = 3
           /\ (<<o>> \o securityBlock)[1] = o
           /\ (<<o>> \o securityBlock)[2] = securityBlock[1]
           /\ (<<o>> \o securityBlock)[3] = securityBlock[2]
  BY BlockLines, HeadedBlock

\* Neither block is taken for a list of servers.
LEMMA BlocksServed ==
    ASSUME NEW r, NEW o \in Generated, OpenapiLine(o)
    PROVE  /\ Apart(<<o>> \o securityBlock) /\ Apart(Scheme)
           /\ handleSpec(<<o>> \o securityBlock, r) = <<o>> \o securityBlock
           /\ handleSpec(Scheme, r) = Scheme
<1> DEFINE T == DocLines(r)
           m == <<o>> \o securityBlock
           n == Scheme
<1>1. Block \subseteq T /\ o \in T
  BY DEF DocLines
<1>7. Line(1, "url", origin(r)) \in T
  BY UrlShown
<1> HIDE DEF T
<1>2. /\ m \in Seq(T) /\ Len(m) = 3 /\ m[1] = o
      /\ m[2] = securityBlock[1] /\ m[3] = securityBlock[2]
  BY <1>1, RequirementIs
<1>3. /\ n \in Seq(T) /\ Len(n) = 3 /\ n[1] = ComponentsKey
      /\ n[2] = securitySchemesBlock[1] /\ n[3] = securitySchemesBlock[2]
  BY <1>1, SchemeIs
<1> HIDE DEF m, n
<1>4. /\ ~ServersLine(securityBlock[1]) /\ ~UrlLine(securityBlock[1])
      /\ ~ServersLine(securityBlock[2]) /\ ~UrlLine(securityBlock[2])
      /\ ~ServersLine(securitySchemesBlock[1]) /\ ~UrlLine(securitySchemesBlock[1])
      /\ ~ServersLine(securitySchemesBlock[2]) /\ ~UrlLine(securitySchemesBlock[2])
  BY DEF securityBlock, securitySchemesBlock, ServersLine, UrlLine, Line
<1>5. \A i \in 1 .. Len(m) : ~ServersLine(m[i]) /\ ~UrlLine(m[i])
  <2>1. \A i \in 1 .. Len(m) : i = 1 \/ i = 2 \/ i = 3
    BY <1>2
  <2> QED
    BY <1>2, <1>4, <2>1, Keys
<1>6. \A i \in 1 .. Len(n) : ~ServersLine(n[i]) /\ ~UrlLine(n[i])
  <2>1. \A i \in 1 .. Len(n) : i = 1 \/ i = 2 \/ i = 3
    BY <1>3
  <2> QED
    BY <1>3, <1>4, <2>1, Keys
<1>8. 1 \in 1 .. Len(m) /\ 1 \in 1 .. Len(n)
  BY <1>2, <1>3
<1>9. Apart(m) /\ Apart(n)
  BY <1>5, <1>6, <1>8 DEF Apart
<1>10. handleSpec(m, r) = m /\ handleSpec(n, r) = n
  BY <1>2, <1>3, <1>5, <1>6, <1>7, HandleSame
<1> QED
  BY <1>9, <1>10 DEF m, n

\* Without what is put in, the blocks leave the openapi line only.
LEMMA BlocksRest ==
    ASSUME NEW r, NEW o \in Generated, OpenapiLine(o), NEW n \in {<<ComponentsKey>>, <<>>}
    PROVE  /\ Rest(<<o>> \o securityBlock) = <<o>> /\ Rest(Scheme) = <<>>
           /\ Rest(<<o>>) = <<o>> /\ Rest(n) = <<>>
<1> DEFINE T == DocLines(r)
           k == Kept(T)
           m == <<o>> \o securityBlock
           s == Scheme
<1>1. Block \subseteq T /\ o \in T
  BY DEF DocLines
<1> HIDE DEF T
<1>2. Maps(k, T, Seq(T)) /\ \A l \in T : k[l] = IF l.key \in Inserted THEN <<>> ELSE <<l>>
  BY KeptIs
<1>3. /\ Len(securityBlock) = 2 /\ securityBlock \in Seq(T) /\ ComponentsKey \in T
      /\ s \in Seq(T) /\ Len(s) = 3 /\ s[1] = ComponentsKey
      /\ s[2] = securitySchemesBlock[1] /\ s[3] = securitySchemesBlock[2]
  BY <1>1, BlockLines, SchemeIs
<1>4. /\ securityBlock[1].key \in Inserted /\ securityBlock[2].key \in Inserted
      /\ securitySchemesBlock[1].key \in Inserted /\ securitySchemesBlock[2].key \in Inserted
      /\ ComponentsKey.key \in Inserted
  BY DEF securityBlock, securitySchemesBlock, Line, Inserted, ComponentsKey
<1>5. o.key \notin Inserted
  BY DEF OpenapiLine, Inserted
<1> HIDE DEF k, s
<1>6. ASSUME NEW x \in Seq(T), \A i \in 1 .. Len(x) : x[i].key \in Inserted
      PROVE  FlatMap(k, x) = <<>>
  <2>1. \A i \in 1 .. Len(x) : k[x[i]] = <<>>
    BY <1>2, <1>6, ElementOfSeq
  <2> QED
    BY <1>2, <2>1, FlatMapNone
<1>7. FlatMap(k, s) = <<>>
  <2>1. \A i \in 1 .. Len(s) : i = 1 \/ i = 2 \/ i = 3
    BY <1>3
  <2>2. \A i \in 1 .. Len(s) : s[i].key \in Inserted
    BY <1>3, <1>4, <2>1
  <2> QED
    BY <1>3, <1>6, <2>2
<1>8. FlatMap(k, securityBlock) = <<>>
  <2>1. \A i \in 1 .. Len(securityBlock) : i = 1 \/ i = 2
    BY <1>3
  <2>2. \A i \in 1 .. Len(securityBlock) : securityBlock[i].key \in Inserted
    BY <1>4, <2>1
  <2> QED
    BY <1>3, <1>6, <2>2
<1>9. k[ComponentsKey] = <<>> /\ k[o] = <<o>>
  BY <1>1, <1>2, <1>3, <1>4, <1>5
<1>10. FlatMap(k, <<o>>) = <<o>> /\ FlatMap(k, <<ComponentsKey>>) = <<>> /\ FlatMap(k, <<>>) = <<>>
  BY <1>1, <1>2, <1>3, <1>9, FlatMapOne, FlatMapEmpty
<1>11. FlatMap(k, <<o>> \o securityBlock) = <<o>>
  <2> DEFINE h == <<o>>
  <2>1. h \in Seq(T)
    BY <1>1, Tuples
  <2>2. h \o <<>> = h
    OBVIOUS
  <2> HIDE DEF h
  <2>3. FlatMap(k, h \o securityBlock) = FlatMap(k, h) \o FlatMap(k, securityBlock)
    BY <1>2, <1>3, <2>1, FlatMapConcat
  <2> QED
    BY <1>8, <1>10, <2>2, <2>3, Zenon DEF h
<1>12. \A x \in Seq(T) : Rest(x) = FlatMap(k, x)
  BY RestIs DEF k
<1>13. /\ m \in Seq(T) /\ <<o>> \in Seq(T) /\ <<ComponentsKey>> \in Seq(T) /\ <<>> \in Seq(T)
  BY <1>1, <1>3, RequirementIs, Tuples
<1>14. n \in Seq(T) /\ FlatMap(k, n) = <<>>
  BY <1>10, <1>13, Zenon
<1> QED
  BY <1>3, <1>7, <1>10, <1>11, <1>12, <1>13, <1>14, Zenon DEF s, m

\* docs.go:85-101 and 158-162: whatever document the generator makes, and whoever asks,
\* what is served has one security scheme, which is required once for all, behind
\* the version; it names the origin of the reader and no other; and it is the
\* generated document otherwise.
THEOREM DocumentSound ==
    ASSUME NEW d, Document(d), NEW r
    PROVE  Sound(handleSpec(withSecurityScheme(d), r), d, r)
<1> DEFINE T == DocLines(r)
           S == Shown(r)
<1>1. PICK o \in Generated, a, b, c \in Seq(Ordinary), n \in {<<ComponentsKey>>, <<>>} :
        /\ OpenapiLine(o) /\ d = Five(a, <<o>>, b, n, c) /\ (n = <<>> => c = <<>>)
        /\ Tidy(a) /\ Tidy(b) /\ Tidy(c) /\ Apart(b) /\ Apart(c)
  BY Parts
<1> DEFINE H(x) == handleSpec(x, r)
           m == <<o>> \o securityBlock
           z == handleSpec(withSecurityScheme(d), r)
<1>2. Block \subseteq T /\ Generated \subseteq T /\ Ordinary \subseteq T /\ o \in T
  BY DEF DocLines, Ordinary
<1>3. Line(1, "url", origin(r)) \in T /\ Line(1, "url", origin(r)) \in S
  BY UrlShown
<1> HIDE DEF T, S
<1>4. withSecurityScheme(d) = Five(a, m, b, Scheme, c)
  <2>1. withSecurityScheme(Five(a, <<o>>, b, n, c)) = Spliced(a, o, b, c)
    BY <1>1, <1>2, SplicedIs
  <2> QED
    BY <1>1, <2>1, Zenon DEF Spliced
<1>5. a \in Seq(T) /\ b \in Seq(T) /\ c \in Seq(T)
  BY <1>2, SeqMonotonic
<1>6. /\ m \in Seq(T) /\ Len(m) = 3 /\ m[1] = o
      /\ m[2] = securityBlock[1] /\ m[3] = securityBlock[2]
  BY <1>1, <1>2, RequirementIs
<1>7. /\ Scheme \in Seq(T) /\ Len(Scheme) = 3 /\ Scheme[1] = ComponentsKey
      /\ Scheme[2] = securitySchemesBlock[1] /\ Scheme[3] = securitySchemesBlock[2]
  BY <1>2, SchemeIs
<1>8. Apart(m) /\ Apart(Scheme) /\ H(m) = m /\ H(Scheme) = Scheme
  BY <1>1, BlocksServed
<1> HIDE DEF m
<1>9. AllOver(T, a, m, b, Scheme, c)
  BY <1>5, <1>6, <1>7 DEF AllOver
<1>10. z = Five(H(a), m, H(b), Scheme, H(c))
  <2>1. handleSpec(Five(a, m, b, Scheme, c), r)
          = Five(H(a), H(m), H(b), H(Scheme), H(c))
    BY <1>1, <1>3, <1>8, <1>9, HandleFive
  <2> QED
    BY <1>4, <1>8, <2>1, Zenon
<1>11. H(a) \in Seq(S) /\ H(b) \in Seq(S) /\ H(c) \in Seq(S) /\ <<>> \in Seq(S)
  BY <1>1, HandleShown, Tuples DEF S
<1>12. /\ H(a) \in Seq(T) /\ Rest(H(a)) = Rest(a)
       /\ H(b) \in Seq(T) /\ Rest(H(b)) = Rest(b)
       /\ H(c) \in Seq(T) /\ Rest(H(c)) = Rest(c)
  BY <1>3, <1>5, HandleRest
<1> DEFINE u == H(a)
           v == H(b)
           w == H(c)
<1> HIDE DEF u, v, w
<1>13. AllOver(T, u, m, v, Scheme, w) /\ AllOver(S, u, <<>>, v, <<>>, w)
  BY <1>6, <1>7, <1>11, <1>12 DEF AllOver, u, v, w
<1>14. Laid(z, S, Len(u), (Len(u) + Len(v)) + 4, m, Scheme)
  <2>1. Laid(Five(u, m, v, Scheme, w), S, Len(u), (Len(u) + Len(v)) + 4, m, Scheme)
    BY <1>6, <1>7, <1>13, FiveLaid
  <2> QED
    BY <1>10, <2>1, Zenon DEF u, v, w
<1> HIDE DEF z
<1>15. Dressed(z, r)
  <2> DEFINE p == Len(u)
             k == (Len(u) + Len(v)) + 4
             n2 == Scheme
  <2>1. Laid(z, Shown(r), p, k, m, n2)
    BY <1>14 DEF S
  <2>2. n2[1] = ComponentsKey /\ n2[2] = securitySchemesBlock[1] /\ n2[3] = securitySchemesBlock[2]
    BY <1>7
  <2> HIDE DEF p, k, n2
  <2> QED
    BY <1>1, <1>6, <2>1, <2>2, LaidSound
<1>16. Rest(z) = Rest(d)
  <2>1. /\ Rest(m) = <<o>> /\ Rest(Scheme) = <<>>
        /\ Rest(<<o>>) = <<o>> /\ Rest(n) = <<>>
    BY <1>1, BlocksRest DEF m
  <2>2. Rest(Five(u, m, v, Scheme, w))
          = Five(Rest(u), Rest(m), Rest(v), Rest(Scheme), Rest(w))
    BY <1>13, RestFive
  <2>3. AllOver(T, a, <<o>>, b, n, c)
    <3>1. <<o>> \in Seq(T) /\ <<ComponentsKey>> \in Seq(T) /\ <<>> \in Seq(T)
      BY <1>2, BlockLines, Tuples
    <3>2. n \in Seq(T)
      BY <3>1, Zenon
    <3> QED
      BY <1>5, <3>1, <3>2, Zenon DEF AllOver
  <2>4. Rest(Five(a, <<o>>, b, n, c)) = Five(Rest(a), Rest(<<o>>), Rest(b), Rest(n), Rest(c))
    BY <2>3, RestFive
  <2>5. Rest(u) = Rest(a) /\ Rest(v) = Rest(b) /\ Rest(w) = Rest(c)
    BY <1>12 DEF u, v, w
  <2>6. z = Five(u, m, v, Scheme, w)
    BY <1>10, Zenon DEF u, v, w
  <2> QED
    BY <1>1, <2>1, <2>2, <2>4, <2>5, <2>6, Zenon
<1>17. Sound(z, d, r)
  BY <1>15, <1>16, Zenon DEF Sound, Dressed
<1> QED
  BY <1>17 DEF z

-----------------------------------------------------------------------------
(* The documentation.                                                      *)

\* What is mounted and what was last read are made of the embedded document.
DocsInv ==
    /\ spec = NoSpec \/ Document(spec)
    /\ DOMAIN docs = {"at", "doc"} /\ docs.at \in {"starting", "serving", "panicked"}
    /\ docs.at = "serving" => spec # NoSpec /\ docs.doc = withSecurityScheme(spec)
    /\ page # Nothing =>
         spec # NoSpec /\ page.doc = handleSpec(withSecurityScheme(spec), page.reader)

LEMMA InitDocs == ASSUME Init PROVE DocsInv
<1>1. PICK s \in Scenario : spec = s.spec
  BY DEF Init
<1>2. spec = NoSpec \/ Document(spec)
  BY <1>1, ServiceAssumption
<1> QED
  BY <1>2 DEF Init, DocsInv

LEMMA NextDocs == ASSUME DocsInv, [Next]_vars PROVE DocsInv'
<1>5. ASSUME NEW t \in Transport, Send(t) \/ Binding(t) \/ Layers(t) \/ Outer(t) \/ Later(t)
      PROVE  UNCHANGED <<spec, docs, page>>
  <2>1. CASE Send(t)
    BY <2>1, Zenon DEF Send
  <2>2. CASE Binding(t)
    BY <2>2, Zenon DEF Binding, BindQuery, BindBody, Decode
  <2>3. CASE Layers(t)
    BY <2>3, Zenon DEF Layers, Enter, Limit, TokenAuth, Validator, Serve
  <2>4. CASE Outer(t)
    BY <2>4, Zenon DEF Outer, RequestLogger, Recover, Leave
  <2>5. CASE Later(t)
    BY <2>5, Zenon DEF Later, LeaveChain, Answer, Receive
  <2> QED
    BY <1>5, <2>1, <2>2, <2>3, <2>4, <2>5
<1>1. \/ Mount \/ HandleSpec \/ UNCHANGED <<spec, docs, page>>
  BY <1>5, Steps, Zenon DEF vars
<1>2. CASE Mount
  <2>1. spec' = spec /\ page' = page /\ docs.at = "starting"
    BY <1>2 DEF Mount
  <2>2. CASE spec = NoSpec
    <3>1. docs' = [docs EXCEPT !.at = "panicked"]
      BY <1>2, <2>2 DEF Mount
    <3>2. DOMAIN docs' = {"at", "doc"} /\ docs'.at = "panicked"
      BY <3>1 DEF DocsInv
    <3> QED
      BY <2>1, <3>2, Zenon DEF DocsInv
  <2>3. CASE spec # NoSpec
    <3>1. docs' = [at |-> "serving", doc |-> withSecurityScheme(spec)]
      BY <1>2, <2>3 DEF Mount
    <3>2. DOMAIN docs' = {"at", "doc"} /\ docs'.at = "serving" /\ docs'.doc = withSecurityScheme(spec)
      BY <3>1
    <3> QED
      BY <2>1, <2>3, <3>2, Zenon DEF DocsInv
  <2> QED
    BY <2>2, <2>3
<1>3. CASE HandleSpec
  <2>1. PICK r \in readers : page' = [reader |-> r, doc |-> handleSpec(docs.doc, r)]
    BY <1>3 DEF HandleSpec
  <2>2. docs.at = "serving" /\ UNCHANGED <<spec, docs>>
    BY <1>3 DEF HandleSpec
  <2>3. page'.reader = r /\ page'.doc = handleSpec(docs.doc, r)
    BY <2>1
  <2>4. spec # NoSpec /\ page'.doc = handleSpec(withSecurityScheme(spec), page'.reader)
    BY <2>2, <2>3 DEF DocsInv
  <2> QED
    BY <2>2, <2>4, Zenon DEF DocsInv
<1>4. CASE UNCHANGED <<spec, docs, page>>
  BY <1>4 DEF DocsInv
<1> QED
  BY <1>1, <1>2, <1>3, <1>4

\* Every page that a reader gets is sound, for any document of the generator and any
\* reader (docs.go:66-70 and 155-158).
THEOREM SpecSoundHolds == Spec => []SpecSound
<1>1. DocsInv => SpecSound
  <2> SUFFICES ASSUME DocsInv, page # Nothing
               PROVE  Sound(page.doc, spec, page.reader)
    BY DEF SpecSound
  <2>1. Document(spec) /\ page.doc = handleSpec(withSecurityScheme(spec), page.reader)
    BY DEF DocsInv
  <2>2. Sound(handleSpec(withSecurityScheme(spec), page.reader), spec, page.reader)
    BY <2>1, DocumentSound
  <2> QED
    BY <2>1, <2>2
<1>2. Spec => []DocsInv
  BY InitDocs, NextDocs, PTL DEF Spec
<1> QED
  BY <1>1, <1>2, PTL

=============================================================================
