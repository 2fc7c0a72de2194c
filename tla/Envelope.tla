------------------------------ MODULE Envelope ------------------------------
(***************************************************************************)
(* pkg/middleware/codec.go: how a service built on this repository answers *)
(* over HTTP.  Success or failure, the reply is the unified envelope under *)
(* status 200, and the outcome is in its code field.  Messages and data    *)
(* are left out.                                                           *)
(***************************************************************************)
EXTENDS Integers

\* What the service's handler returned: nil, a kratos error with a code, or a
\* plain error, for which errors.FromError makes up a code of 500.
Result == {"ok", "client error", "server error", "plain error"}

ErrorCode(result) ==
    CASE result = "client error" -> 400
      [] result \in {"server error", "plain error"} -> 500

WriteEnvelope(code) == [status |-> 200, code |-> code]

\* ResponseEncoder for a reply, ErrorEncoder for an error.
Encode(result) == WriteEnvelope(IF result = "ok" THEN 0 ELSE ErrorCode(result))

\* Any other backend: it answers with the status its outcome calls for.
Plain(result) ==
    IF result = "ok" THEN [status |-> 200, code |-> 0]
    ELSE [status |-> ErrorCode(result), code |-> ErrorCode(result)]

=============================================================================
