---------------------------- MODULE TokensProofs ----------------------------
(***************************************************************************)
(* How long tokens live, for any number of services, secrets and tokens,   *)
(* any lifetimes and any bound on the clocks' error.                       *)
(***************************************************************************)
EXTENDS Tokens, TLAPS

\* What a token says, and how wrong its issuer's clock was.
WellMinted(t) ==
    /\ t.minted <= now
    /\ t.clock - t.minted \in (-MaxOffset) .. MaxOffset
    /\ t.notBefore = NumericDate(t.clock)
    /\ t.expiresAt = NumericDate(t.clock + TTL(t.kind))

\* The last answer is still what the service would say.
Current(a) ==
    /\ a.accepted => a.token \in tokens /\ Verify(a.service, a.token, a.use)
    /\ ~a.accepted /\ a.token # NoToken =>
         a.token \in tokens /\ ~Verify(a.service, a.token, a.use)

IInv == TypeOK /\ (\A t \in tokens : WellMinted(t)) /\ (\A a \in answer : Current(a))

-----------------------------------------------------------------------------
(* Whole seconds.                                                          *)

\* Cutting to seconds loses less than a second: NewNumericDate in generate.
LEMMA Cut ==
    ASSUME NEW t \in Int
    PROVE  /\ NumericDate(t) \in Int
           /\ NumericDate(t) <= t
           /\ t < NumericDate(t) + Second
BY TokensAssumption DEF NumericDate

\* A multiple of a second divides back exactly.
LEMMA Exact ==
    ASSUME NEW q \in Int
    PROVE  (Second * q) \div Second = q
<1> DEFINE r == (Second * q) \div Second
<1>1. r \in Int /\ Second * r <= Second * q /\ Second * q < Second * r + Second
  BY TokensAssumption
<1>2. Second * (r - q) <= 0 /\ Second * (q - r) < Second
  BY <1>1, TokensAssumption
<1>3. ~(r > q)
  BY <1>1, <1>2, TokensAssumption
<1>4. ~(q > r)
  BY <1>1, <1>2, TokensAssumption
<1> QED BY <1>1, <1>3, <1>4

\* A date already cut stays as it is: it survives encoding and decoding.
LEMMA CutTwice ==
    ASSUME NEW t \in Int
    PROVE  NumericDate(NumericDate(t)) = NumericDate(t)
<1>1. t \div Second \in Int
  BY TokensAssumption
<1> QED BY <1>1, Exact DEF NumericDate

\* NewManager leaves no lifetime at zero.
LEMMA Lifetimes == AccessTTL \in Nat /\ RefreshTTL \in Nat /\ \A kind \in Kind : TTL(kind) \in Nat
BY TokensAssumption DEF AccessTTL, RefreshTTL, Kind, TTL

-----------------------------------------------------------------------------
(* The invariant.                                                          *)

\* generate, called by GenerateAccessToken and GenerateRefreshToken with the
\* lifetime of the kind, keeps the invariant.
LEMMA MintInv ==
    ASSUME IInv, NEW s \in Service, NEW kind \in Kind, Mint(s, kind, TTL(kind))
    PROVE  IInv'
<1> DEFINE new == Claims(s, kind, TTL(kind))
<1>1. /\ tokens' = tokens \cup {new} /\ answer' = {}
      /\ UNCHANGED <<now, offset, adjusted, secret>>
  BY DEF Mint
<1>2. now \in Nat /\ offset[s] \in (-MaxOffset) .. MaxOffset /\ secret[s] \in Secret
  BY TokensAssumption DEF IInv, TypeOK
<1>3. Clock(s) \in Int /\ Clock(s) + TTL(kind) \in Int
  BY <1>2, Lifetimes, TokensAssumption DEF Clock
<1>4. new \in Token
  BY <1>2, <1>3, Cut DEF Claims, Token
<1>5. NumericDate(new.notBefore) = new.notBefore /\ NumericDate(new.expiresAt) = new.expiresAt
  BY <1>3, CutTwice DEF Claims
<1>6. WellMinted(new)
  BY <1>2, TokensAssumption DEF WellMinted, Claims, Clock
<1>7. TypeOK'
  BY <1>1, <1>4, <1>5 DEF IInv, TypeOK, NumericDate
<1>8. \A t \in tokens' : WellMinted(t)'
  BY <1>1, <1>6 DEF IInv, WellMinted, NumericDate, TTL, AccessTTL, RefreshTTL
<1> QED BY <1>1, <1>7, <1>8 DEF IInv

\* An answer of TokenAuth or of the refresh operation keeps the invariant.
LEMMA AnswerInv ==
    ASSUME IInv, NEW s \in Service, NEW t \in tokens, NEW use \in Kind,
           Answer(s, t, use, Verify(s, t, use))
    PROVE  IInv'
<1>1. PICK accepted \in BOOLEAN : accepted = Verify(s, t, use)
  BY DEF Verify, ParseToken
<1> DEFINE new == [service |-> s, token |-> t, use |-> use, accepted |-> accepted]
<1>2. answer' = {new} /\ UNCHANGED <<now, offset, adjusted, secret, tokens>>
  BY <1>1 DEF Answer
<1>3. TypeOK'
  BY <1>2 DEF IInv, TypeOK, NumericDate
<1>4. \A u \in tokens' : WellMinted(u)'
  BY <1>2 DEF IInv, WellMinted, NumericDate, TTL, AccessTTL, RefreshTTL
<1>5. (accepted = Verify(s, t, use))'
  BY <1>1, <1>2 DEF Verify, ParseToken, Clock
<1>6. Current(new)'
  BY <1>2, <1>5 DEF Current
<1> QED BY <1>2, <1>3, <1>4, <1>6 DEF IInv

\* What a token promises, and what was answered, holds in every state.
THEOREM Invariance == Spec => []IInv
<1>1. Init => IInv
  BY TokensAssumption DEF Init, IInv, TypeOK, Token
<1>2. ASSUME IInv, [Next]_vars PROVE IInv'
  <2>1. CASE Tick
    BY <1>2, <2>1, TokensAssumption DEF Tick, IInv, TypeOK, Token, WellMinted, NumericDate, TTL, AccessTTL, RefreshTTL
  <2>2. ASSUME NEW s \in Service, SetClock(s) PROVE IInv'
    BY <1>2, <2>2, TokensAssumption DEF SetClock, IInv, TypeOK, WellMinted, NumericDate, TTL, AccessTTL, RefreshTTL
  <2>3. ASSUME NEW s \in Service, Rekey(s) PROVE IInv'
    BY <1>2, <2>3 DEF Rekey, IInv, TypeOK, WellMinted, NumericDate, TTL, AccessTTL, RefreshTTL
  <2>4. ASSUME NEW s \in Service, GenerateAccessToken(s) PROVE IInv'
    BY <1>2, <2>4, MintInv DEF GenerateAccessToken, TTL, Kind
  <2>5. ASSUME NEW s \in Service, GenerateRefreshToken(s) PROVE IInv'
    BY <1>2, <2>5, MintInv DEF GenerateRefreshToken, TTL, Kind
  <2>6. ASSUME NEW s \in Service, Anonymous(s) PROVE IInv'
    <3>1. /\ answer' = {[service |-> s, token |-> NoToken, use |-> "access", accepted |-> FALSE]}
          /\ UNCHANGED <<now, offset, adjusted, secret, tokens>>
      BY <2>6 DEF Anonymous, Answer
    <3>2. TypeOK'
      BY <1>2, <3>1 DEF IInv, TypeOK, Kind, NumericDate
    <3>3. \A t \in tokens' : WellMinted(t)'
      BY <1>2, <3>1 DEF IInv, WellMinted, NumericDate, TTL, AccessTTL, RefreshTTL
    <3> QED BY <3>1, <3>2, <3>3 DEF IInv, Current
  <2>7. ASSUME NEW s \in Service, Authenticate(s) PROVE IInv'
    BY <1>2, <2>7, AnswerInv DEF Authenticate, Kind
  <2>8. ASSUME NEW s \in Service, Refresh(s) PROVE IInv'
    BY <1>2, <2>8, AnswerInv DEF Refresh, Kind
  <2>9. CASE UNCHANGED vars
    BY <1>2, <2>9 DEF vars, IInv, TypeOK, WellMinted, Current, Verify, ParseToken, Clock,
       NumericDate, TTL, AccessTTL, RefreshTTL
  <2> QED BY <1>2, <2>1, <2>2, <2>3, <2>4, <2>5, <2>6, <2>7, <2>8, <2>9 DEF Next
<1> QED BY <1>1, <1>2, PTL DEF Spec

\* The managers' state and the tokens have their types.
THEOREM TypeCorrect == Spec => []TypeOK
<1>1. IInv => TypeOK
  BY DEF IInv
<1> QED BY <1>1, Invariance, PTL

-----------------------------------------------------------------------------
(* Lifetimes.                                                              *)

\* ParseToken accepts nothing for longer than its lifetime and the clocks' error.
THEOREM NeverOutlivedHolds == Spec => []NeverOutlived
<1>1. ASSUME IInv, NEW a \in answer, a.accepted
      PROVE  Age(a.token) < TTL(a.token.kind) + Skew
  <2> DEFINE t == a.token
             s == a.service
  <2>1. t \in tokens /\ Clock(s) < t.expiresAt /\ s \in Service
    BY <1>1 DEF IInv, TypeOK, Current, Verify, ParseToken
  <2>2. t \in Token /\ WellMinted(t)
    BY <1>1, <2>1 DEF IInv, TypeOK
  <2>3. t.clock \in Int /\ t.minted \in Nat /\ TTL(t.kind) \in Nat
    BY <2>2, Lifetimes DEF Token
  <2>4. now \in Nat /\ offset[s] \in (-MaxOffset) .. MaxOffset
    BY <1>1, <2>1, TokensAssumption DEF IInv, TypeOK
  <2>5. t.expiresAt <= t.clock + TTL(t.kind)
    BY <2>2, <2>3, Cut DEF WellMinted
  <2>6. t.expiresAt \in Int
    BY <2>2 DEF Token
  <2>7. /\ t.minted <= now /\ t.clock <= t.minted + MaxOffset /\ now - MaxOffset <= Clock(s)
        /\ Clock(s) \in Int /\ MaxOffset \in Nat
    BY <2>2, <2>3, <2>4, TokensAssumption DEF WellMinted, Clock
  <2>8. now - MaxOffset < t.minted + MaxOffset + TTL(t.kind)
    BY <2>1, <2>3, <2>4, <2>5, <2>6, <2>7
  <2> QED BY <2>3, <2>4, <2>7, <2>8 DEF Age, Skew
<1>2. IInv => NeverOutlived
  BY <1>1 DEF NeverOutlived
<1> QED BY <1>2, Invariance, PTL

\* When ParseToken refuses a token that has the right secret and kind, one of
\* its dates is the reason.
LEMMA Refusal ==
    ASSUME IInv, NEW a \in answer, RefusedOnTime(a)
    PROVE  /\ Age(a.token) \in Int /\ TTL(a.token.kind) \in Nat
           /\ \/ Age(a.token) < Skew
              \/ Age(a.token) > TTL(a.token.kind) - Second - Skew
<1> DEFINE t == a.token
           s == a.service
<1>1. t \in tokens /\ ~Verify(s, t, a.use) /\ s \in Service
  BY DEF IInv, TypeOK, Current, RefusedOnTime
<1>2. ~(t.notBefore <= Clock(s)) \/ ~(Clock(s) < t.expiresAt)
  BY <1>1 DEF RefusedOnTime, Verify, ParseToken
<1>3. t \in Token /\ WellMinted(t)
  BY <1>1 DEF IInv, TypeOK
<1>4. t.clock \in Int /\ t.minted \in Nat /\ TTL(t.kind) \in Nat /\ t.notBefore \in Int /\ t.expiresAt \in Int
  BY <1>3, Lifetimes DEF Token
<1>5. now \in Nat /\ offset[s] \in (-MaxOffset) .. MaxOffset
  BY <1>1, TokensAssumption DEF IInv, TypeOK
<1>6. t.notBefore <= t.clock /\ t.clock + TTL(t.kind) < t.expiresAt + Second
  BY <1>3, <1>4, Cut DEF WellMinted
<1> QED BY <1>2, <1>3, <1>4, <1>5, <1>6, TokensAssumption DEF WellMinted, Clock, Age, Skew

\* A downstream service with the same secret accepts a token for its lifetime
\* less a second and the clocks' error.
THEOREM WorksMeanwhileHolds == Spec => []WorksMeanwhile
<1>1. IInv => WorksMeanwhile
  BY Refusal DEF WorksMeanwhile
<1> QED BY <1>1, Invariance, PTL

\* A client that goes by expires_in is not refused, but for a second and the
\* clocks' error.
THEOREM ExpiresInHonouredHolds == Spec => []ExpiresInHonoured
<1>1. ExpiresIn \in Int /\ Second * ExpiresIn <= AccessTTL /\ AccessTTL \in Nat
  BY Lifetimes, TokensAssumption DEF ExpiresIn
<1>2. Second * (ExpiresIn - 1) \in Int /\ Second * (ExpiresIn - 1) <= AccessTTL - Second
  BY <1>1, TokensAssumption
<1>3. ASSUME IInv, NEW a \in answer, RefusedOnTime(a), a.token.kind = "access"
      PROVE  \/ Age(a.token) < Skew
             \/ Age(a.token) > Second * (ExpiresIn - 1) - Skew
  <2>1. TTL(a.token.kind) = AccessTTL
    BY <1>3 DEF TTL
  <2>2. Skew \in Int
    BY TokensAssumption DEF Skew
  <2> QED BY <1>1, <1>2, <1>3, <2>1, <2>2, Refusal, TokensAssumption
<1>4. IInv => ExpiresInHonoured
  BY <1>3 DEF ExpiresInHonoured
<1> QED BY <1>4, Invariance, PTL

=============================================================================
