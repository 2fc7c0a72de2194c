------------------------- MODULE ProxyHandlerProofs -------------------------
(***************************************************************************)
(* Proofs about ProxyHandler: the accounts of every breaker, for any       *)
(* number of routes, services and concurrent requests and any settings.    *)
(***************************************************************************)
EXTENDS ProxyHandler, FiniteSetTheorems, TLAPS

BreakerState ==
    [state : {"closed", "open", "half-open"}, requests : 0 .. MaxCount,
     successes : 0 .. MaxCount, failures : 0 .. MaxCount, due : BOOLEAN]
SeenState == [failed : 0 .. MaxCount, broken : 0 .. MaxCount]

\* The account of one breaker in state b, with n of its calls in flight and s
\* seen of the backend, which hides the failures it answers with or does not.
\* Whoever is in a half-open state has not failed yet, nor succeeded enough.
Accounted(b, s, n, hides) ==
    /\ b.requests = b.successes + b.failures + n
    /\ b.failures = s.broken + (IF hides THEN 0 ELSE s.failed)
    /\ s.failed + s.broken <= b.successes + b.failures
    /\ b.state = "open" => b.requests = 0
    /\ b.state = "half-open" =>
         ~b.due /\ b.failures = 0 /\ b.successes < MaxRequests /\ b.requests <= MaxRequests
    /\ RatioNum <= RatioDen /\ b.state = "closed" /\ b.failures = b.requests =>
         b.requests < MinRequests

Hides(r) == ServiceOf[r] \in enveloped
AccountOf(r) == Accounted(breaker[r], seen[r], Cardinality(Pending(r)), Hides(r))
HandlerInv == TypeOK /\ \A r \in Routes : AccountOf(r)

-----------------------------------------------------------------------------
(* The settings and the breaker by itself.                                 *)

\* Whatever is configured, the effective limits are positive.
LEMMA SettingsPositive ==
    MaxRequests \in Nat \ {0} /\ MinRequests \in Nat \ {0} /\ RatioNum \in Nat \ {0}
  BY BreakerAssumption DEF MaxRequests, MinRequests, RatioNum, OrDefault

\* A ratio of at most one is reached when everything fails.
LEMMA AllFailed ==
    ASSUME NEW k \in Nat, NEW num \in Nat, NEW den \in Nat, num <= den
    PROVE  k * den >= num * k
<1>1. PICK d \in Nat : den = num + d
  <2>1. den - num \in Nat /\ den = num + (den - num)
    OBVIOUS
  <2> QED
    BY <2>1
<1>2. k * (num + d) = num * k + k * d /\ k * d \in Nat /\ num * k \in Nat
  OBVIOUS
<1> QED
  BY <1>1, <1>2

\* A new generation of a closed or open breaker, and of a half-open one.
LEMMA NewGeneration ==
    ASSUME NEW st \in {"closed", "open", "half-open"}, NEW hides \in BOOLEAN
    PROVE  /\ Generation(st) \in BreakerState
           /\ Generation(st).state = st /\ ~Generation(st).due
           /\ Generation(st).requests = 0
           /\ Nothing \in SeenState
           /\ Accounted(Generation(st), Nothing, 0, hides)
  BY SettingsPositive, HandlerAssumption
     DEF Generation, Nothing, BreakerState, SeenState, Accounted

\* An expired generation gives way to an empty one; otherwise nothing changes.
LEMMA CurrentGeneration ==
    ASSUME NEW b \in BreakerState, b.due => b.state # "half-open"
    PROVE  /\ ~b.due => Current(b) = b
           /\ b.due => Current(b) \in {Generation("closed"), Generation("half-open")}
           /\ Current(b).state # b.state => b.due
  BY DEF Current, BreakerState, Generation

\* One more call is let through.
LEMMA AdmittedAccount ==
    ASSUME NEW b \in BreakerState, NEW s \in SeenState, NEW n \in Nat, NEW hides \in BOOLEAN,
           Accounted(b, s, n, hides), Admits(b), b.requests < MaxCount \/ b.due
    PROVE  /\ Admitted(b) \in BreakerState
           /\ Admitted(b).state # b.state => b.due
           /\ b.due => Accounted(Admitted(b), Nothing, 1, hides)
           /\ ~b.due => Accounted(Admitted(b), s, n + 1, hides)
<1>1. CASE b.due
  <2>1. PICK st \in {"closed", "half-open"} : Current(b) = Generation(st)
    BY <1>1, CurrentGeneration DEF Accounted
  <2> DEFINE c == Admitted(b)
  <2>2. c = [state |-> st, requests |-> 1, successes |-> 0, failures |-> 0, due |-> FALSE]
    <3> DEFINE g == Generation(st)
    <3>1. c = [g EXCEPT !.requests = g.requests + 1]
      BY <2>1 DEF Admitted
    <3>2. g = [state |-> st, requests |-> 0, successes |-> 0, failures |-> 0, due |-> FALSE]
      BY DEF Generation
    <3> HIDE DEF g, c
    <3>3. c = [g EXCEPT !.requests = 1]
      BY <3>1, <3>2
    <3> QED
      BY <3>2, <3>3
  <2>3. c \in BreakerState /\ Accounted(c, Nothing, 1, hides)
    BY <2>2, SettingsPositive, HandlerAssumption DEF BreakerState, Accounted, Nothing
  <2> QED
    BY <2>3, <1>1
<1>2. CASE ~b.due
  <2>1. Current(b) = b
    BY <1>2, CurrentGeneration
  <2> DEFINE c == Admitted(b)
  <2>2. /\ c = [b EXCEPT !.requests = b.requests + 1]
        /\ b.state = "closed" \/ (b.state = "half-open" /\ b.requests < MaxRequests)
    <3>1. c = [b EXCEPT !.requests = b.requests + 1]
      BY <2>1 DEF Admitted
    <3>2. b.state = "closed" \/ (b.state = "half-open" /\ b.requests < MaxRequests)
      BY <2>1 DEF Admits
    <3> QED
      BY <3>1, <3>2
  <2>3. /\ c \in BreakerState
        /\ c.state = b.state /\ c.requests = b.requests + 1 /\ c.due = b.due
        /\ c.successes = b.successes /\ c.failures = b.failures
    BY <2>2, <1>2, HandlerAssumption DEF BreakerState
  <2>4. Accounted(c, s, n + 1, hides)
    BY <2>2, <2>3, SettingsPositive DEF BreakerState, SeenState, Accounted
  <2> QED
    BY <2>3, <2>4, <1>2
<1> QED
  BY <1>1, <1>2

\* What the breaker is told of a call that was this to a backend.
Blames(what, hides) == what = "broken" \/ (what = "failed" /\ ~hides)
Tell(b, what, hides) == IF Blames(what, hides) THEN Failure(b) ELSE Success(b)
Remember(s, what) == IF what = "fine" THEN s ELSE [s EXCEPT ![what] = @ + 1]

\* One of n calls in flight is told, and remembered under what it was to the
\* backend: only what can be seen of a failure is counted as one.
LEMMA ToldAccount ==
    ASSUME NEW b \in BreakerState, NEW s \in SeenState, NEW n \in Nat \ {0},
           NEW hides \in BOOLEAN, NEW what \in {"fine", "failed", "broken"},
           Accounted(b, s, n, hides), ~b.due
    PROVE  /\ Tell(b, what, hides) \in BreakerState
           /\ Remember(s, what) \in SeenState
           /\ Tell(b, what, hides).state # b.state =>
                Accounted(Tell(b, what, hides), Nothing, 0, hides)
           /\ Tell(b, what, hides).state = b.state =>
                Accounted(Tell(b, what, hides), Remember(s, what), n - 1, hides)
<1> DEFINE blamed == Blames(what, hides)
           c == Tell(b, what, hides)
           f == Remember(s, what)
           Told == /\ c \in BreakerState /\ f \in SeenState
                   /\ c.state # b.state => Accounted(c, Nothing, 0, hides)
                   /\ c.state = b.state => Accounted(c, f, n - 1, hides)
<1> SUFFICES Told
  OBVIOUS
<1> USE DEF Tell, Remember
<1>1. /\ b.state \in {"closed", "half-open"}
      /\ b.requests \in 0 .. MaxCount /\ b.successes \in Nat /\ b.failures \in Nat
      /\ b.successes + b.failures + 1 <= b.requests
      /\ s.failed \in Nat /\ s.broken \in Nat
  BY DEF Accounted, BreakerState, SeenState
<1>2. /\ f \in SeenState
      /\ f.broken = s.broken + (IF what = "broken" THEN 1 ELSE 0)
      /\ f.failed = s.failed + (IF what = "failed" THEN 1 ELSE 0)
  <2>1. s.failed + s.broken + 1 <= MaxCount
    BY <1>1, HandlerAssumption DEF Accounted
  <2>2. CASE what = "fine"
    BY <2>2, <1>1
  <2>3. CASE what = "failed"
    BY <2>1, <2>3, <1>1, HandlerAssumption DEF SeenState
  <2>4. CASE what = "broken"
    BY <2>1, <2>4, <1>1, HandlerAssumption DEF SeenState
  <2> QED
    BY <2>2, <2>3, <2>4
<1> HIDE DEF f
<1> USE DEF Blames
<1>3. ASSUME blamed PROVE Told
  <2> DEFINE d == [b EXCEPT !.failures = b.failures + 1]
  <2>1. /\ d \in BreakerState
        /\ d.state = b.state /\ d.requests = b.requests /\ d.successes = b.successes
        /\ d.failures = b.failures + 1 /\ d.due = b.due
    BY <1>1, HandlerAssumption DEF BreakerState
  <2> HIDE DEF d
  <2>2. c = IF b.state = "half-open" \/ ReadyToTrip(d) THEN Generation("open") ELSE d
    BY <1>3 DEF Failure, d
  <2> HIDE DEF c
  <2>3. CASE b.state = "half-open" \/ ReadyToTrip(d)
    BY <2>3, <2>2, <1>1, <1>2, NewGeneration
  <2>4. CASE ~(b.state = "half-open" \/ ReadyToTrip(d))
    <3>1. RatioNum <= RatioDen /\ d.failures = d.requests => d.requests < MinRequests
      <4> SUFFICES ASSUME RatioNum <= RatioDen, d.failures = d.requests,
                          ~(d.requests < MinRequests)
                   PROVE FALSE
        OBVIOUS
      <4>1. d.failures * RatioDen >= RatioNum * d.requests
        <5>1. d.requests \in Nat /\ RatioNum \in Nat /\ RatioDen \in Nat
          BY <1>1, <2>1, SettingsPositive, BreakerAssumption
        <5> QED
          BY <5>1, AllFailed
      <4> QED
        BY <4>1, <2>4, <2>1, <1>1, SettingsPositive DEF ReadyToTrip
    <3>2. c = d
      BY <2>4, <2>2
    <3>3. Accounted(d, f, n - 1, hides)
      BY <3>1, <2>1, <2>4, <1>1, <1>2, <1>3 DEF Accounted
    <3> QED
      BY <3>2, <3>3, <2>1, <1>2
  <2> QED
    BY <2>3, <2>4
<1>4. ASSUME ~blamed PROVE Told
  <2> DEFINE d == [b EXCEPT !.successes = b.successes + 1]
  <2>1. /\ d \in BreakerState
        /\ d.state = b.state /\ d.requests = b.requests /\ d.failures = b.failures
        /\ d.successes = b.successes + 1 /\ d.due = b.due
    BY <1>1, HandlerAssumption DEF BreakerState
  <2> HIDE DEF d
  <2>2. c = IF b.state = "half-open" /\ d.successes >= MaxRequests
            THEN Generation("closed") ELSE d
    BY <1>4 DEF Success, d
  <2> HIDE DEF c
  <2>3. CASE b.state = "half-open" /\ d.successes >= MaxRequests
    BY <2>3, <2>2, <1>1, <1>2, NewGeneration
  <2>4. CASE ~(b.state = "half-open" /\ d.successes >= MaxRequests)
    <3>1. c = d
      BY <2>4, <2>2
    <3>2. Accounted(d, f, n - 1, hides)
      BY <2>1, <2>4, <1>1, <1>2, <1>4, SettingsPositive DEF Accounted
    <3> QED
      BY <3>1, <3>2, <2>1, <1>2
  <2> QED
    BY <2>3, <2>4
<1> QED
  BY <1>3, <1>4

-----------------------------------------------------------------------------
(* Calls in flight.                                                        *)

\* A set of requests is finite, and has one more or one less with q or without.
LEMMA Counting ==
    ASSUME NEW P \in SUBSET Request, NEW q \in Request
    PROVE  /\ Cardinality(P) \in Nat
           /\ q \notin P => Cardinality(P \cup {q}) = Cardinality(P) + 1
           /\ q \in P => Cardinality(P) \in Nat \ {0} /\ Cardinality(P \ {q}) = Cardinality(P) - 1
           /\ Cardinality({}) = 0 /\ Cardinality({q}) = 1
<1>1. IsFiniteSet(P)
  BY HandlerAssumption, FS_Subset
<1>2. Cardinality(P) \in Nat /\ (Cardinality(P) = 0 <=> P = {})
  BY <1>1, FS_CardinalityType, FS_EmptySet
<1>3. Cardinality(P \cup {q}) = IF q \in P THEN Cardinality(P) ELSE Cardinality(P) + 1
  BY <1>1, FS_AddElement
<1>4. Cardinality(P \ {q}) = IF q \in P THEN Cardinality(P) - 1 ELSE Cardinality(P)
  BY <1>1, FS_RemoveElement
<1>5. Cardinality({}) = 0 /\ Cardinality({q}) = 1
  BY FS_EmptySet, FS_Singleton
<1> QED
  BY <1>2, <1>3, <1>4, <1>5

\* A step on route r leaves the accounts of the others alone.
LEMMA OtherRoutes ==
    ASSUME TypeOK, NEW q \in Request, NEW r \in Routes, NEW v \in Routes, v # r,
           NEW b, NEW f, Becomes(r, b, f), enveloped' = enveloped,
           at' = [at EXCEPT ![q] = at'[q]], route' = [route EXCEPT ![q] = route'[q]],
           route'[q] = r, at[q] = "idle" \/ route[q] = r
    PROVE  /\ Pending(v)' = Pending(v)
           /\ AccountOf(v)' <=> AccountOf(v)
<1>1. breaker'[v] = breaker[v] /\ seen'[v] = seen[v]
  BY DEF Becomes, TypeOK
<1>2. Pending(v)' = Pending(v)
  BY DEF Pending, InFlight, Becomes, TypeOK
<1> QED
  BY <1>1, <1>2 DEF AccountOf, Hides

\* A call of r comes in flight.
LEMMA EnterPending ==
    ASSUME TypeOK, NEW q \in Request, NEW r \in Routes, NEW b, NEW f, at[q] = "idle",
           at' = [at EXCEPT ![q] = "admitted"], route' = [route EXCEPT ![q] = r],
           Becomes(r, b, f)
    PROVE  /\ breaker[r].due \/ b.state # breaker[r].state => Pending(r)' = {q}
           /\ ~(breaker[r].due \/ b.state # breaker[r].state) =>
                Pending(r)' = Pending(r) \cup {q}
           /\ q \notin Pending(r)
<1> DEFINE rolls == breaker[r].due \/ b.state # breaker[r].state
<1>1. \A p \in Request :
        /\ p # q => at'[p] = at[p] /\ route'[p] = route[p]
        /\ p = q => at'[p] = "admitted" /\ route'[p] = r
        /\ stale'[p] <=> (at'[p] # "idle" /\ at[p] # "idle"
                            /\ (stale[p] \/ (rolls /\ route[p] = r)))
  BY DEF TypeOK, Becomes, InFlight
<1> HIDE DEF rolls
<1>2. q \notin Pending(r)
  BY DEF Pending, InFlight
<1>3. ASSUME rolls PROVE Pending(r)' = {q}
  BY <1>1, <1>3 DEF Pending, InFlight
<1>4. ASSUME ~rolls PROVE Pending(r)' = Pending(r) \cup {q}
  BY <1>1, <1>4 DEF Pending, InFlight
<1> QED
  BY <1>2, <1>3, <1>4 DEF rolls

\* A call of r ends.
LEMMA LeavePending ==
    ASSUME TypeOK, NEW q \in Request, NEW r \in Routes, NEW b, NEW f,
           InFlight(q), route[q] = r,
           at' = [at EXCEPT ![q] = "idle"], UNCHANGED route, Becomes(r, b, f)
    PROVE  /\ breaker[r].due \/ b.state # breaker[r].state => Pending(r)' = {}
           /\ ~(breaker[r].due \/ b.state # breaker[r].state) => Pending(r)' = Pending(r) \ {q}
           /\ q \in Pending(r) <=> ~stale[q]
<1> DEFINE rolls == breaker[r].due \/ b.state # breaker[r].state
<1>1. \A p \in Request :
        /\ p # q => at'[p] = at[p]
        /\ p = q => at'[p] = "idle"
        /\ route'[p] = route[p]
        /\ stale'[p] <=> (at'[p] # "idle" /\ at[p] # "idle"
                            /\ (stale[p] \/ (rolls /\ route[p] = r)))
  BY DEF TypeOK, Becomes, InFlight
<1> HIDE DEF rolls
<1>2. q \in Pending(r) <=> ~stale[q]
  BY DEF Pending
<1>3. ASSUME rolls PROVE Pending(r)' = {}
  BY <1>1, <1>3 DEF Pending, InFlight
<1>4. ASSUME ~rolls PROVE Pending(r)' = Pending(r) \ {q}
  BY <1>1, <1>4 DEF Pending, InFlight
<1> QED
  BY <1>2, <1>3, <1>4 DEF rolls

\* Types of what Becomes assigns.
LEMMA BecomesType ==
    ASSUME TypeOK, NEW r \in Routes, NEW b \in BreakerState, NEW f \in SeenState, Becomes(r, b, f),
           at' \in [Request -> {"idle", "admitted", "proxied"}],
           route' \in [Request -> Routes], UNCHANGED environment
    PROVE  TypeOK'
<1>1. breaker' \in [Routes -> BreakerState] /\ seen' \in [Routes -> SeenState]
  BY HandlerAssumption DEF Becomes, TypeOK, BreakerState, SeenState, Nothing
<1>2. /\ stale' \in [Request -> BOOLEAN]
      /\ \A q \in Request : stale'[q] => at'[q] # "idle"
  BY DEF Becomes, TypeOK, InFlight
<1> QED
  BY <1>1, <1>2 DEF TypeOK, BreakerState, SeenState, InFlight, environment

-----------------------------------------------------------------------------
(* Steps.                                                                  *)

LEMMA InitHandler == Init => HandlerInv
<1> SUFFICES ASSUME Init PROVE HandlerInv
  OBVIOUS
<1>1. TypeOK
  BY HandlerAssumption DEF Init, TypeOK, Generation, Nothing
<1>2. ASSUME NEW r \in Routes PROVE AccountOf(r)
  <2>1. Pending(r) = {}
    BY DEF Pending, InFlight, Init
  <2>2. breaker[r] = Generation("closed") /\ seen[r] = Nothing /\ Hides(r) \in BOOLEAN
    BY DEF Init, Hides
  <2>3. Accounted(Generation("closed"), Nothing, 0, Hides(r))
    BY <2>2, NewGeneration
  <2> QED
    BY <2>1, <2>2, <2>3, FS_EmptySet DEF AccountOf
<1> QED
  BY <1>1, <1>2 DEF HandlerInv

\* A step that leaves breakers and calls alone leaves the accounts.
LEMMA SameAccounts ==
    ASSUME HandlerInv, UNCHANGED <<breaker, seen, enveloped>>,
           \A r \in Routes : Pending(r)' = Pending(r)
    PROVE  \A r \in Routes : AccountOf(r)'
  BY DEF HandlerInv, AccountOf, Hides

LEMMA EnvironmentInv ==
    ASSUME HandlerInv, Worsen \/ Improve PROVE HandlerInv'
<1>1. TypeOK
  BY DEF HandlerInv
<1>2. faults' \in 0 .. MaxFaults
  BY <1>1, HandlerAssumption DEF TypeOK, Worsen, Improve
<1>3. available' \in [Service -> BOOLEAN] /\ sick' \in [Service -> BOOLEAN]
  BY <1>1 DEF TypeOK, Worsen, Improve
<1>4. UNCHANGED <<breaker, at, route, stale, enveloped, seen>>
  BY DEF Worsen, Improve
<1>5. TypeOK'
  BY <1>1, <1>2, <1>3, <1>4 DEF TypeOK, InFlight
<1>6. \A r \in Routes : Pending(r)' = Pending(r)
  BY <1>4 DEF Pending, InFlight
<1> QED
  BY <1>4, <1>5, <1>6, SameAccounts DEF HandlerInv

\* Time passes for a breaker: its account does not depend on that, and a
\* half-open one has no time limit.
LEMMA ExpireInv ==
    ASSUME HandlerInv, NEW r \in Routes, Expire(r) PROVE HandlerInv'
<1>1. TypeOK /\ UNCHANGED <<at, route, stale, enveloped, available, sick, faults, seen>>
  BY DEF HandlerInv, Expire, environment
<1>2. /\ \A v \in Routes \ {r} : breaker'[v] = breaker[v]
      /\ breaker'[r] = [breaker[r] EXCEPT !.due = TRUE]
      /\ breaker' = [breaker EXCEPT ![r] = breaker'[r]]
  BY <1>1 DEF Expire, TypeOK
<1> DEFINE b == breaker[r]
           c == [b EXCEPT !.due = TRUE]
<1>3. /\ b \in BreakerState /\ breaker'[r] \in BreakerState
      /\ breaker'[r].state = breaker[r].state /\ breaker[r].state # "half-open"
      /\ breaker'[r].requests = breaker[r].requests
      /\ breaker'[r].successes = breaker[r].successes
      /\ breaker'[r].failures = breaker[r].failures
  <2>1. b \in BreakerState /\ breaker'[r] = c /\ b.state # "half-open"
    BY <1>1, <1>2 DEF Expire, TypeOK, BreakerState
  <2> HIDE DEF b
  <2>2. /\ c \in BreakerState /\ c.state = b.state /\ c.requests = b.requests
        /\ c.successes = b.successes /\ c.failures = b.failures
    BY <2>1 DEF BreakerState
  <2> HIDE DEF c
  <2> QED
    BY <2>1, <2>2 DEF b
<1>4. TypeOK'
  <2>1. breaker' \in [Routes -> BreakerState]
    <3>1. breaker \in [Routes -> BreakerState]
      BY <1>1 DEF TypeOK, BreakerState
    <3> QED
      BY <3>1, <1>2, <1>3
  <2> QED
    BY <2>1, <1>1 DEF TypeOK, BreakerState, InFlight
<1>5. ASSUME NEW v \in Routes PROVE AccountOf(v)'
  <2>1. Pending(v)' = Pending(v) /\ seen' = seen /\ Hides(v)' = Hides(v)
    BY <1>1 DEF Pending, InFlight, Hides
  <2>2. AccountOf(v)
    BY DEF HandlerInv
  <2>3. CASE v # r
    <3>1. breaker'[v] = breaker[v]
      BY <2>3, <1>2
    <3> QED
      BY <2>1, <2>2, <3>1 DEF AccountOf
  <2>4. CASE v = r
    BY <2>1, <2>2, <2>4, <1>3 DEF AccountOf, Accounted
  <2> QED
    BY <2>3, <2>4
<1> QED
  BY <1>4, <1>5 DEF HandlerInv

LEMMA EnterInv ==
    ASSUME HandlerInv, NEW q \in Request, NEW r \in Routes, Enter(q, r) PROVE HandlerInv'
<1> DEFINE b == breaker[r]
           c == Admitted(b)
           n == Cardinality(Pending(r))
<1>1. /\ TypeOK /\ b \in BreakerState /\ seen[r] \in SeenState /\ Hides(r) \in BOOLEAN
      /\ Accounted(b, seen[r], n, Hides(r))
  BY DEF HandlerInv, AccountOf, TypeOK, BreakerState, SeenState, Hides
<1>2. /\ at[q] = "idle" /\ Admits(b) /\ (b.requests < MaxCount \/ b.due)
      /\ at' = [at EXCEPT ![q] = "admitted"] /\ route' = [route EXCEPT ![q] = r]
      /\ Becomes(r, c, seen[r]) /\ UNCHANGED environment
  BY DEF Enter
<1>3. Pending(r) \in SUBSET Request
  BY DEF Pending
<1>4. n \in Nat
  BY <1>3, Counting
<1>5. /\ c \in BreakerState
      /\ c.state # b.state => b.due
      /\ b.due => Accounted(c, Nothing, 1, Hides(r))
      /\ ~b.due => Accounted(c, seen[r], n + 1, Hides(r))
  BY <1>1, <1>2, <1>4, AdmittedAccount
<1> HIDE DEF c
<1>6. TypeOK'
  <2>1. /\ at' \in [Request -> {"idle", "admitted", "proxied"}]
        /\ route' \in [Request -> Routes]
    BY <1>1, <1>2 DEF TypeOK
  <2> QED
    BY <1>1, <1>2, <1>5, <2>1, BecomesType
<1>7. breaker'[r] = c /\ seen'[r] = (IF b.due THEN Nothing ELSE seen[r])
  BY <1>1, <1>2, <1>5 DEF Becomes, TypeOK
<1>8. Cardinality(Pending(r)') = IF b.due THEN 1 ELSE n + 1
  <2>1. /\ b.due => Pending(r)' = {q}
        /\ ~b.due => Pending(r)' = Pending(r) \cup {q}
        /\ q \notin Pending(r)
    BY <1>1, <1>2, <1>5, EnterPending
  <2> QED
    BY <2>1, <1>3, Counting
<1>9. Hides(r)' = Hides(r)
  BY <1>2 DEF Hides, environment
<1>10. ASSUME NEW v \in Routes PROVE AccountOf(v)'
  <2>1. CASE v = r
    <3>1. Accounted(breaker'[r], seen'[r], Cardinality(Pending(r)'), Hides(r)')
      BY <1>5, <1>7, <1>8, <1>9
    <3> QED
      BY <3>1, <2>1 DEF AccountOf
  <2>2. CASE v # r
    <3>1. /\ at' = [at EXCEPT ![q] = at'[q]] /\ route' = [route EXCEPT ![q] = route'[q]]
          /\ route'[q] = r /\ enveloped' = enveloped
      BY <1>1, <1>2 DEF TypeOK, environment
    <3>2. AccountOf(v)' <=> AccountOf(v)
      BY <3>1, <2>2, <1>1, <1>2, OtherRoutes
    <3> QED
      BY <3>2 DEF HandlerInv
  <2> QED
    BY <2>1, <2>2
<1> QED
  BY <1>6, <1>10 DEF HandlerInv

\* Execute on its way out, whatever forward returned and however it ended.
LEMMA LeaveInv ==
    ASSUME HandlerInv, NEW q \in Request, InFlight(q), NEW err,
           NEW what \in {"fine", "failed", "broken"}, Leave(q, err, what),
           ~IsSuccessful(err) <=> Blames(what, Hides(route[q])),
           enveloped' = enveloped, available' = available, sick' = sick,
           faults' \in 0 .. MaxFaults
    PROVE  HandlerInv'
<1> SUFFICES ASSUME NEW r \in Routes, r = route[q] PROVE HandlerInv'
  BY DEF HandlerInv, TypeOK
<1> DEFINE b == breaker[r]
           n == Cardinality(Pending(r))
           s == seen[r]
           hides == Hides(r)
           f == Remember(s, what)
           told == Tell(b, what, hides)
           ignored == stale[q] \/ b.due
           c == IF ignored THEN Current(b) ELSE told
           g == IF ignored THEN seen[r] ELSE f
           rolls == b.due \/ c.state # b.state
<1>1. /\ TypeOK /\ r \in Routes /\ b \in BreakerState /\ seen[r] \in SeenState
      /\ Hides(r) \in BOOLEAN
      /\ Accounted(b, seen[r], n, Hides(r))
  BY DEF HandlerInv, AccountOf, TypeOK, BreakerState, SeenState, Hides
<1>2. at' = [at EXCEPT ![q] = "idle"] /\ UNCHANGED route /\ Becomes(r, c, g)
  BY DEF Leave, Tell, Remember
<1>3. Pending(r) \in SUBSET Request /\ n \in Nat
  BY Counting DEF Pending
<1>4. q \in Pending(r) <=> ~stale[q]
  BY <1>1, <1>2 DEF Pending
<1>5. /\ c \in BreakerState /\ g \in SeenState
      /\ rolls => Accounted(c, Nothing, 0, Hides(r))
      /\ ~rolls => Accounted(c, g, IF stale[q] THEN n ELSE n - 1, Hides(r))
  <2>1. CASE b.due
    <3>1. c \in {Generation("closed"), Generation("half-open")} /\ g = seen[r]
      BY <2>1, <1>1, CurrentGeneration DEF Accounted
    <3> HIDE DEF c, g
    <3> QED
      BY <3>1, <2>1, <1>1, NewGeneration
  <2>2. CASE ~b.due /\ stale[q]
    <3>1. c = b /\ g = seen[r]
      BY <2>2, <1>1, CurrentGeneration
    <3> HIDE DEF c, g
    <3> QED
      BY <3>1, <2>2, <1>1
  <2>3. CASE ~b.due /\ ~stale[q]
    <3>1. n \in Nat \ {0}
      BY <2>3, <1>4, <1>3, Counting
    <3>2. /\ told \in BreakerState /\ f \in SeenState
          /\ told.state # b.state => Accounted(told, Nothing, 0, hides)
          /\ told.state = b.state => Accounted(told, f, n - 1, hides)
      <4>1. /\ b \in BreakerState /\ s \in SeenState /\ hides \in BOOLEAN
            /\ Accounted(b, s, n, hides) /\ ~b.due
        BY <1>1, <2>3
      <4> HIDE DEF b, s, n, hides
      <4> QED
        BY ONLY <3>1, <4>1, ToldAccount, what \in {"fine", "failed", "broken"}
    <3> HIDE DEF told, f
    <3> QED
      BY <3>2, <2>3
  <2> QED
    BY <2>1, <2>2, <2>3
<1> HIDE DEF c, g
<1>6. TypeOK'
  <2>1. at' \in [Request -> {"idle", "admitted", "proxied"}]
    BY <1>1, <1>2 DEF TypeOK
  <2>2. breaker' \in [Routes -> BreakerState] /\ seen' \in [Routes -> SeenState]
    BY <1>1, <1>2, <1>5, HandlerAssumption
       DEF Becomes, TypeOK, BreakerState, SeenState, Nothing
  <2>3. /\ stale' \in [Request -> BOOLEAN]
        /\ \A p \in Request : stale'[p] => at'[p] # "idle"
    BY <1>1, <1>2 DEF Becomes, TypeOK, InFlight
  <2> QED
    BY <1>1, <1>2, <2>1, <2>2, <2>3 DEF TypeOK, BreakerState, SeenState, InFlight
<1>7. breaker'[r] = c /\ seen'[r] = (IF rolls THEN Nothing ELSE g)
  BY <1>1, <1>2 DEF Becomes, TypeOK
<1>8. Cardinality(Pending(r)') = IF rolls THEN 0 ELSE IF stale[q] THEN n ELSE n - 1
  <2>1. /\ rolls => Pending(r)' = {}
        /\ ~rolls => Pending(r)' = Pending(r) \ {q}
    BY <1>1, <1>2, LeavePending
  <2>2. CASE stale[q]
    <3>1. Pending(r) \ {q} = Pending(r)
      BY <1>4, <2>2
    <3> QED
      BY <3>1, <2>1, <2>2, <1>3, Counting
  <2>3. CASE ~stale[q]
    BY <2>1, <2>3, <1>3, <1>4, Counting
  <2> QED
    BY <2>2, <2>3
<1>9. Hides(r)' = Hides(r)
  BY DEF Hides
<1>10. ASSUME NEW v \in Routes PROVE AccountOf(v)'
  <2>1. CASE v = r
    <3>1. Accounted(breaker'[r], seen'[r], Cardinality(Pending(r)'), Hides(r)')
      BY <1>5, <1>7, <1>8, <1>9
    <3> QED
      BY <3>1, <2>1, <1>2 DEF AccountOf
  <2>2. CASE v # r
    <3>1. /\ at' = [at EXCEPT ![q] = at'[q]] /\ route' = [route EXCEPT ![q] = route'[q]]
          /\ route'[q] = r
      BY <1>1, <1>2 DEF TypeOK
    <3>2. AccountOf(v)' <=> AccountOf(v)
      BY <3>1, <2>2, <1>1, <1>2, OtherRoutes
    <3> QED
      BY <3>2 DEF HandlerInv
  <2> QED
    BY <2>1, <2>2
<1> QED
  BY <1>6, <1>10 DEF HandlerInv

\* A call that is shed is not counted, and one that selects a node stays so.
LEMMA UncountedInv ==
    ASSUME HandlerInv, NEW q \in Request,
           SelectNode(q) \/ (\E r \in Routes : Shed(q, r))
    PROVE  HandlerInv'
<1>1. TypeOK /\ UNCHANGED <<breaker, stale, environment, seen>>
  BY DEF HandlerInv, SelectNode, Shed
<1>2. /\ at' \in [Request -> {"idle", "admitted", "proxied"}]
      /\ route' \in [Request -> Routes]
      /\ \A p \in Request : InFlight(p)' <=> InFlight(p)
      /\ \A p \in Request : InFlight(p) => route'[p] = route[p]
  BY <1>1 DEF TypeOK, SelectNode, Shed, InFlight
<1>3. TypeOK'
  BY <1>1, <1>2 DEF TypeOK, environment
<1>4. \A r \in Routes : Pending(r)' = Pending(r)
  BY <1>1, <1>2 DEF Pending
<1> QED
  BY <1>1, <1>3, <1>4, SameAccounts DEF HandlerInv, environment

\* Codes of errors (codec.go) are numbers.
LEMMA CodeIsNat == ASSUME NEW x, x = 400 \/ x = 500 PROVE x \in Nat
  OBVIOUS

LEMMA ErrorCodes ==
    ASSUME NEW e \in {"client error", "server error", "plain error"}
    PROVE  ErrorCode(e) \in Nat
<1>1. e = "client error" => ErrorCode(e) = 400
  BY Zenon DEF ErrorCode
<1>2. e = "server error" => ErrorCode(e) = 500
  BY Zenon DEF ErrorCode
<1>3. e = "plain error" => ErrorCode(e) = 500
  BY Zenon DEF ErrorCode
<1>4. e = "client error" \/ e = "server error" \/ e = "plain error"
  OBVIOUS
<1>5. ErrorCode(e) = 400 \/ ErrorCode(e) = 500
  BY <1>1, <1>2, <1>3, <1>4, Zenon
<1> QED
  BY <1>5, CodeIsNat, Zenon

\* What a backend answers is blamed on it exactly when the status shows it: a
\* service of this repository shows nothing but 200.
LEMMA AnswerBlames ==
    ASSUME NEW r \in Routes, NEW e \in Outcomes(ServiceOf[r])
    PROVE  LET reply == ReplyOf(ServiceOf[r], e)
           IN  /\ WasFor(reply) \in {"fine", "failed"}
               /\ ~IsSuccessful(Forwarded(reply.status)) <=> Blames(WasFor(reply), Hides(r))
<1> DEFINE a == ReplyOf(ServiceOf[r], e)
<1>1. e \in {"ok", "client error", "server error", "plain error"}
  BY DEF Outcomes
<1>2. CASE Hides(r)
  <2>1. a.status = 200
    BY <1>2 DEF Hides, ReplyOf, Encode, WriteEnvelope
  <2> HIDE DEF a
  <2> QED
    BY <2>1, <1>2 DEF WasFor, Forwarded, IsSuccessful, Blames, a
<1>3. CASE ~Hides(r)
  <2>1. (a.status = a.code /\ a.code \in Nat) \/ (a.status = 200 /\ a.code = 0)
    <3>1. a = Plain(e)
      BY <1>3 DEF Hides, ReplyOf
    <3>2. CASE e = "ok"
      BY <3>1, <3>2 DEF Plain
    <3>3. CASE e # "ok"
      <4> DEFINE x == ErrorCode(e)
      <4>1. a = [status |-> x, code |-> x]
        BY <3>1, <3>3 DEF Plain
      <4>2. x \in Nat
        BY <1>1, <3>3, ErrorCodes
      <4> HIDE DEF a, x
      <4> QED
        BY <4>1, <4>2
    <3> QED
      BY <3>2, <3>3
  <2> HIDE DEF a
  <2> QED
    BY <2>1, <1>3 DEF WasFor, Forwarded, IsSuccessful, Blames, a
<1> QED
  BY <1>2, <1>3

\* forward ends: without a node, with an answer, or without one.
LEMMA EndInv ==
    ASSUME HandlerInv, NEW q \in Request,
           NoNode(q) \/ Answer(q) \/ Refused(q) \/ Abandon(q) \/ Abort(q)
    PROVE  HandlerInv'
<1>1. /\ InFlight(q) /\ UNCHANGED <<enveloped, available, sick>>
      /\ faults' = faults \/ (faults < MaxFaults /\ faults' = faults + 1)
  BY DEF NoNode, Answer, Refused, Abandon, Abort, InFlight, environment
<1>2. faults' \in 0 .. MaxFaults
  BY <1>1, HandlerAssumption DEF HandlerInv, TypeOK
<1>3. CASE NoNode(q)
  <2>1. Leave(q, "errNoNode", "fine")
    BY <1>3 DEF NoNode
  <2>2. ~IsSuccessful("errNoNode") <=> Blames("fine", Hides(route[q]))
    BY DEF IsSuccessful, Blames
  <2> QED
    BY <2>1, <2>2, <1>1, <1>2, LeaveInv
<1>4. CASE Refused(q) \/ Abandon(q) \/ Abort(q)
  <2>1. Leave(q, "errUpstream", "broken")
    BY <1>4 DEF Refused, Abandon, Abort, Forwarded
  <2>2. ~IsSuccessful("errUpstream") <=> Blames("broken", Hides(route[q]))
    BY DEF IsSuccessful, Blames
  <2> QED
    BY <2>1, <2>2, <1>1, <1>2, LeaveInv
<1>5. CASE Answer(q)
  <2> DEFINE reply(e) == ReplyOf(ServiceOf[route[q]], e)
  <2>1. PICK e \in Outcomes(ServiceOf[route[q]]) :
            Leave(q, Forwarded(reply(e).status), WasFor(reply(e)))
    BY <1>5 DEF Answer
  <2>2. route[q] \in Routes
    BY DEF HandlerInv, TypeOK
  <2>3. /\ WasFor(reply(e)) \in {"fine", "failed"}
        /\ ~IsSuccessful(Forwarded(reply(e).status)) <=>
             Blames(WasFor(reply(e)), Hides(route[q]))
    BY <2>2, AnswerBlames
  <2> HIDE DEF reply
  <2> QED
    BY <2>1, <2>3, <1>1, <1>2, LeaveInv
<1> QED
  BY <1>3, <1>4, <1>5

LEMMA NextHandler == HandlerInv /\ [Next]_vars => HandlerInv'
<1> SUFFICES ASSUME HandlerInv, [Next]_vars PROVE HandlerInv'
  OBVIOUS
<1>1. CASE Worsen \/ Improve
  BY <1>1, EnvironmentInv
<1>2. ASSUME NEW r \in Routes, Expire(r) PROVE HandlerInv'
  BY <1>2, ExpireInv
<1>3. ASSUME NEW q \in Request, NEW r \in Routes, Enter(q, r) PROVE HandlerInv'
  BY <1>3, EnterInv
<1>4. ASSUME NEW q \in Request, SelectNode(q) \/ (\E r \in Routes : Shed(q, r))
      PROVE HandlerInv'
  BY <1>4, UncountedInv
<1>5. ASSUME NEW q \in Request,
             NoNode(q) \/ Answer(q) \/ Refused(q) \/ Abandon(q) \/ Abort(q)
      PROVE HandlerInv'
  BY <1>5, EndInv
<1>6. CASE UNCHANGED vars
  <2>1. TypeOK'
    BY <1>6 DEF vars, HandlerInv, TypeOK, InFlight
  <2>2. \A r \in Routes : Pending(r)' = Pending(r)
    BY <1>6 DEF vars, Pending, InFlight
  <2> QED
    BY <1>6, <2>1, <2>2, SameAccounts DEF vars, HandlerInv
<1> QED
  BY <1>1, <1>2, <1>3, <1>4, <1>5, <1>6 DEF Next, Forward

-----------------------------------------------------------------------------
(* Theorems.                                                               *)

\* The account of every breaker, with any number of concurrent calls.
THEOREM HandlerInvariance == Spec => []HandlerInv
  BY InitHandler, NextHandler, PTL DEF Spec

\* Types of handlers and breakers (handler.go).
THEOREM HandlerTypeCorrect == Spec => []TypeOK
<1>1. HandlerInv => TypeOK
  BY DEF HandlerInv
<1> QED
  BY <1>1, HandlerInvariance, PTL

\* Every admitted call is told to its breaker once (Execute in ServeHTTP).
THEOREM CountsMatchHolds == Spec => []CountsMatch
<1>1. HandlerInv => CountsMatch
  <2> SUFFICES ASSUME HandlerInv, NEW r \in Routes
               PROVE  breaker[r].requests = breaker[r].successes + breaker[r].failures
                                              + Cardinality(Pending(r))
    BY DEF CountsMatch
  <2> QED
    BY DEF HandlerInv, AccountOf, Accounted
<1> QED
  BY <1>1, HandlerInvariance, PTL

\* A half-open breaker has a probe in flight or room for one (newBreaker).
THEOREM ProbesProceedHolds == Spec => []ProbesProceed
<1>1. HandlerInv => ProbesProceed
  <2> SUFFICES ASSUME HandlerInv, NEW r \in Routes, breaker[r].state = "half-open"
               PROVE  /\ breaker[r].requests <= MaxRequests
                      /\ Pending(r) # {} \/ breaker[r].requests < MaxRequests
    BY DEF ProbesProceed
  <2>1. /\ breaker[r].requests <= MaxRequests /\ breaker[r].failures = 0
        /\ breaker[r].successes < MaxRequests /\ breaker[r].successes \in Nat
        /\ breaker[r].requests = breaker[r].successes + breaker[r].failures
                                   + Cardinality(Pending(r))
    BY DEF HandlerInv, AccountOf, Accounted, TypeOK
  <2>2. Pending(r) = {} => Cardinality(Pending(r)) = 0
    BY FS_EmptySet
  <2> QED
    BY <2>1, <2>2, SettingsPositive
<1> QED
  BY <1>1, HandlerInvariance, PTL

\* Only what a forwarded call shows of a failure is counted as one
\* (errNoNode, IsSuccessful).
THEOREM GapsDoNotTripHolds == Spec => []GapsDoNotTrip
<1>1. HandlerInv => GapsDoNotTrip
  <2> SUFFICES ASSUME HandlerInv, NEW r \in Routes
               PROVE  breaker[r].failures <= Visible(r)
    BY DEF GapsDoNotTrip
  <2>1. /\ breaker[r].failures = seen[r].broken + (IF Hides(r) THEN 0 ELSE seen[r].failed)
        /\ seen[r].broken \in Nat /\ seen[r].failed \in Nat
    BY DEF HandlerInv, AccountOf, Accounted, TypeOK
  <2> QED
    BY <2>1 DEF Visible, Hides
<1> QED
  BY <1>1, HandlerInvariance, PTL

\* A backend that has failed a whole sample for all to see has its circuit open,
\* if the configured ratio is one that a failure of everything reaches
\* (ReadyToTrip).
THEOREM FailureTripsHolds == RatioNum <= RatioDen => (Spec => []FailureTrips)
<1> SUFFICES ASSUME RatioNum <= RatioDen PROVE Spec => []FailureTrips
  OBVIOUS
<1>1. HandlerInv => FailureTrips
  <2> SUFFICES ASSUME HandlerInv, NEW r \in Routes,
                      breaker[r].state = "closed", breaker[r].requests >= MinRequests
               PROVE  Visible(r) < breaker[r].requests
    BY DEF FailureTrips
  <2>1. /\ breaker[r].failures = seen[r].broken + (IF Hides(r) THEN 0 ELSE seen[r].failed)
        /\ seen[r].broken \in Nat /\ seen[r].failed \in Nat
        /\ breaker[r].failures = breaker[r].requests => breaker[r].requests < MinRequests
        /\ breaker[r].requests \in Nat /\ breaker[r].successes \in Nat
        /\ breaker[r].failures \in Nat
        /\ breaker[r].requests = breaker[r].successes + breaker[r].failures
                                   + Cardinality(Pending(r))
    BY DEF HandlerInv, AccountOf, Accounted, TypeOK
  <2>2. Cardinality(Pending(r)) \in Nat
    <3>1. Pending(r) \in SUBSET Request
      BY DEF Pending
    <3>2. IsFiniteSet(Pending(r))
      BY <3>1, HandlerAssumption, FS_Subset
    <3> QED
      BY <3>2, FS_CardinalityType
  <2> QED
    BY <2>1, <2>2, SettingsPositive DEF Visible, Hides
<1> QED
  BY <1>1, HandlerInvariance, PTL

=============================================================================
