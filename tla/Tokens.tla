------------------------------- MODULE Tokens -------------------------------
(***************************************************************************)
(* pkg/jwt and pkg/middleware/auth.go: services that share a secret mint   *)
(* access and refresh tokens and verify each other's.  Every service goes  *)
(* by a wall clock of its own, which is off true time and may be set, and  *)
(* keeps its secret until it is restarted with another configuration.      *)
(* Times are ticks, Second of which make one second; the dates in a token  *)
(* are whole seconds.                                                      *)
(***************************************************************************)
EXTENDS Integers, FiniteSets

CONSTANTS
    Service,
    Secret,                              \* signing keys in use over time
    Second,                              \* ticks per second
    SetAccessTTL, SetRefreshTTL,         \* as configured, in ticks; 0 is unset
    DefaultAccessTTL, DefaultRefreshTTL,
    MaxTime,      \* bound on true time
    MaxOffset,    \* bound on how far a clock is off
    MaxAdjust,    \* bound on how often clocks are set
    MaxTokens,    \* bound on the tokens minted
    NoToken

ASSUME TokensAssumption ==
    /\ Second \in Nat \ {0}
    /\ SetAccessTTL \in Nat /\ SetRefreshTTL \in Nat
    /\ DefaultAccessTTL \in Nat \ {0} /\ DefaultRefreshTTL \in Nat \ {0}
    /\ MaxTime \in Nat /\ MaxOffset \in Nat /\ MaxAdjust \in Nat /\ MaxTokens \in Nat

VARIABLES
    now,       \* true time
    offset,    \* [Service -> Int]: how far the service's clock is ahead of it
    adjusted,  \* history: how often a clock was set
    secret,    \* [Service -> Secret]: Manager.secret
    tokens,    \* every token minted so far
    answer     \* the last verification and its outcome; {} once anything moves on

vars == <<now, offset, adjusted, secret, tokens, answer>>

-----------------------------------------------------------------------------
\* NewManager: an unset lifetime takes its default.
AccessTTL == IF SetAccessTTL = 0 THEN DefaultAccessTTL ELSE SetAccessTTL
RefreshTTL == IF SetRefreshTTL = 0 THEN DefaultRefreshTTL ELSE SetRefreshTTL

Kind == {"access", "refresh"}
TTL(kind) == IF kind = "access" THEN AccessTTL ELSE RefreshTTL

\* Mutant: a part of a second counts as one.
ExpiresInRoundedUp == (AccessTTL + Second - 1) \div Second

\* Manager.AccessTokenTTL, in seconds: the expires_in of a token response.
ExpiresIn == AccessTTL \div Second

Clock(s) == now + offset[s]

\* NumericDate: cut to whole seconds.
NumericDate(t) == Second * (t \div Second)

\* A token's claims and signature, and, as history, when it was minted and what
\* its issuer's clock showed then.
Token == [kind : Kind, secret : Secret, notBefore : Int, expiresAt : Int,
          minted : Nat, clock : Int]

Init ==
    /\ now = 0
    /\ offset \in [Service -> (-MaxOffset) .. MaxOffset]
    /\ adjusted = 0
    /\ secret \in [Service -> Secret]
    /\ tokens = {}
    /\ answer = {}

-----------------------------------------------------------------------------
(* The environment.                                                        *)

Tick ==
    /\ now < MaxTime
    /\ now' = now + 1
    /\ answer' = {}
    /\ UNCHANGED <<offset, adjusted, secret, tokens>>

SetClock(s) ==
    /\ adjusted < MaxAdjust
    /\ adjusted' = adjusted + 1
    /\ \E d \in (-MaxOffset) .. MaxOffset : offset' = [offset EXCEPT ![s] = d]
    /\ answer' = {}
    /\ UNCHANGED <<now, secret, tokens>>

\* A service comes back with another secret.
Rekey(s) ==
    /\ \E k \in Secret \ {secret[s]} : secret' = [secret EXCEPT ![s] = k]
    /\ answer' = {}
    /\ UNCHANGED <<now, offset, adjusted, tokens>>

-----------------------------------------------------------------------------
(* Manager.                                                                *)

\* Mutant: the expiry keeps its fraction of a second.
ClaimsPrecise(s, kind, ttl) ==
    [kind |-> kind, secret |-> secret[s], minted |-> now, clock |-> Clock(s),
     notBefore |-> NumericDate(Clock(s)), expiresAt |-> Clock(s) + ttl]

\* generate
Claims(s, kind, ttl) ==
    [kind |-> kind, secret |-> secret[s], minted |-> now, clock |-> Clock(s),
     notBefore |-> NumericDate(Clock(s)), expiresAt |-> NumericDate(Clock(s) + ttl)]

Mint(s, kind, ttl) ==
    /\ Cardinality(tokens) < MaxTokens
    /\ tokens' = tokens \cup {Claims(s, kind, ttl)}
    /\ answer' = {}
    /\ UNCHANGED <<now, offset, adjusted, secret>>

\* Mutants: the access token gets the refresh token's lifetime, and the other
\* way round.
GenerateAccessTokenLong(s) == Mint(s, "access", RefreshTTL)
GenerateRefreshTokenShort(s) == Mint(s, "refresh", AccessTTL)

GenerateAccessToken(s) == Mint(s, "access", AccessTTL)
GenerateRefreshToken(s) == Mint(s, "refresh", RefreshTTL)

\* ParseToken: the signature, and the dates against the service's clock.  It
\* does not look at the kind.
ParseToken(s, t) ==
    /\ t.secret = secret[s]
    /\ t.notBefore <= Clock(s)
    /\ Clock(s) < t.expiresAt

Answer(s, t, use, accepted) ==
    /\ answer' = {[service |-> s, token |-> t, use |-> use, accepted |-> accepted]}
    /\ UNCHANGED <<now, offset, adjusted, secret, tokens>>

\* The caller of ParseToken wants a token for some use: a TokenVerifier for
\* access, the service's refresh operation for refresh.
Verify(s, t, use) == ParseToken(s, t) /\ t.kind = use

\* TokenAuth: the request carries no token, and the verifier is not asked.
Anonymous(s) == Answer(s, NoToken, "access", FALSE)

\* TokenAuth: the handler runs with the token's claims in its context, or the
\* verifier's error is returned.
Authenticate(s) ==
    \E t \in tokens : Answer(s, t, "access", Verify(s, t, "access"))

Refresh(s) ==
    \E t \in tokens : Answer(s, t, "refresh", Verify(s, t, "refresh"))

Next ==
    \/ Tick
    \/ \E s \in Service :
         \/ SetClock(s) \/ Rekey(s)
         \/ GenerateAccessToken(s) \/ GenerateRefreshToken(s)
         \/ Anonymous(s) \/ Authenticate(s) \/ Refresh(s)

Spec == Init /\ [][Next]_vars

-----------------------------------------------------------------------------
(* Properties.                                                             *)

\* Every variable has its type; the dates in a token are whole seconds.
TypeOK ==
    /\ now \in 0 .. MaxTime
    /\ offset \in [Service -> (-MaxOffset) .. MaxOffset]
    /\ adjusted \in 0 .. MaxAdjust
    /\ secret \in [Service -> Secret]
    /\ tokens \subseteq Token
    /\ \A t \in tokens : NumericDate(t.notBefore) = t.notBefore
                      /\ NumericDate(t.expiresAt) = t.expiresAt
    /\ answer \subseteq [service : Service, token : tokens \cup {NoToken},
                         use : Kind, accepted : BOOLEAN]

Age(t) == now - t.minted

\* Two clocks, each wrong by MaxOffset.
Skew == 2 * MaxOffset

\* "AccessTokenTTL is the access token lifetime", and the same for refresh
\* tokens: no service accepts a token for longer than that and what the two
\* clocks are off, however they are set in between.
NeverOutlived ==
    \A a \in answer : a.accepted => Age(a.token) < TTL(a.token.kind) + Skew

\* What a service refused although it has the right secret and the token is for
\* this use.
RefusedOnTime(a) ==
    /\ ~a.accepted /\ a.token # NoToken
    /\ a.token.secret = secret[a.service] /\ a.token.kind = a.use

\* "a token issued by the user center can be validated by a downstream service":
\* any service with the same secret accepts a token for all of its lifetime but
\* the last second and what the clocks are off at either end.
WorksMeanwhile ==
    \A a \in answer : RefusedOnTime(a) =>
        \/ Age(a.token) < Skew
        \/ Age(a.token) > TTL(a.token.kind) - Second - Skew

\* jwt.go:135-136, AccessTokenTTL is "suitable for the expires_in field": a client
\* that goes by expires_in, less one second and the clocks' error, is not refused.
ExpiresInHonoured ==
    \A a \in answer : RefusedOnTime(a) /\ a.token.kind = "access" =>
        \/ Age(a.token) < Skew
        \/ Age(a.token) > Second * (ExpiresIn - 1) - Skew

=============================================================================
