----------------------------- MODULE MCService -----------------------------
(* Requests: for every operation, one that succeeds and what differs from it  *)
(* in one or two respects; documents that the generator may write.            *)
EXTENDS Service

Str(n) == [len |-> n, email |-> FALSE]
Mail(n) == [len |-> n, email |-> TRUE]
Mask(paths) == [set |-> TRUE, paths |-> paths]

Registration == [username |-> Str(3), email |-> Mail(9), password |-> Str(72),
                 nickname |-> ZeroText, phone |-> Str(32)]
Update == [phone |-> ZeroText, nickname |-> Str(64), avatar |-> Str(512),
           update_mask |-> Mask({"phone", "nickname"})]

Good(op) ==
    CASE op = "Register" -> Registration
      [] op = "UpdateProfile" -> Update
      [] OTHER -> [f \in Field(op) |-> Str(8)]

Bad(op) ==
    CASE op = "Register" ->
           {[Registration EXCEPT !.username = Str(2)], [Registration EXCEPT !.email = Str(9)],
            [Registration EXCEPT !.email = Mail(256)], [Registration EXCEPT !.password = Str(73)],
            [Registration EXCEPT !.nickname = Str(65)], [Registration EXCEPT !.phone = Str(33)]}
      [] op = "UpdateProfile" ->
           {[Update EXCEPT !.update_mask = m] : m \in {NoMask, Mask({}), Mask({"email"})}}
           \cup {[Update EXCEPT !.phone = Str(33)], [Update EXCEPT !.avatar = Str(513)]}
      [] op = "ChangePassword" -> {[f \in Field(op) |-> Str(7)]}
      [] OTHER -> {}

Base(op) == [op |-> op, body |-> "message", message |-> Good(op), token |-> "good",
             self |-> "absent", rules |-> "compiled", outcome |-> "reply"]

Variants(r) ==
    {[r EXCEPT !.body = b] : b \in {"empty", "malformed"}}
    \cup {[r EXCEPT !.message = m] : m \in Bad(r.op)}
    \cup {[r EXCEPT !.token = k] : k \in {"none", "expired", "unverifiable"}}
    \cup {[r EXCEPT !.self = s] : s \in {"passes", "refuses", "fails"}}
    \cup {[r EXCEPT !.rules = "broken"]}
    \cup {[r EXCEPT !.outcome = o] :
            o \in {"unencodable", "not found", "exists", "unimplemented", "error", "panic"}}

MCRequest ==
    UNION {{Base(op)} \cup Variants(Base(op))
           \cup Variants([Base(op) EXCEPT !.token = "none"]) : op \in Operation}

MCChain == <<"recovery", "logging", "ratelimit", "auth", "validate">>

\* The hypothesis of the theorems about a chain.
ASSUME MCOrdered == Ordered

\* A comment, "openapi" and "info" are always written; the rest is up to the protos.
Url(host) == Line(1, "url", <<"https", host>>)
Start == <<Line(0, "#", <<"Generated">>), Line(0, "openapi", <<"3.0.3">>), Line(0, "info", <<>>)>>
Paths == <<Line(0, "paths", <<>>), Line(1, "/v1/users", <<>>)>>
Components == <<Line(0, "components", <<>>), Line(1, "schemas", <<>>)>>
Servers(hosts) == <<Line(0, "servers", <<>>)>> \o [i \in DOMAIN hosts |-> Url(hosts[i])]

Generated ==
    Start \o Servers(<<"user.example.com">>) \o Paths \o Components \o <<Line(0, "tags", <<>>)>>

MCDocument ==
    {Generated,
     Start \o Servers(<<"user.example.com", "auth.example.com">>) \o Paths,
     Start \o Paths \o Components,
     NoSpec}

Read(tls, proto, forwarded) ==
    [tls |-> tls, host |-> "svc", forwardedProto |-> proto, forwardedHost |-> forwarded]

\* Every request with the first document, and every document with one request.
MCScenario ==
    {[request |-> r, spec |-> Generated, readers |-> {}] : r \in MCRequest}
    \cup {[request |-> Base("GetProfile"), spec |-> d,
           readers |-> {Read(FALSE, "", ""), Read(TRUE, "", ""), Read(FALSE, "https", "edge")}] :
            d \in MCDocument}

=============================================================================
