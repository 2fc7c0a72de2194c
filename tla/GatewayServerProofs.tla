------------------------ MODULE GatewayServerProofs ------------------------
(***************************************************************************)
(* Proofs about what internal/server builds.  GatewayServer: types, and    *)
(* that nothing stays open when New has failed or the server is stopped,   *)
(* for any configuration of routes, any registry and any number of         *)
(* failures.  EdgeFilters: the quota, and who can read a refusal.          *)
(***************************************************************************)
EXTENDS GatewayServer, EdgeFilters, SequenceTheorems, TLAPS

\* New has kept every upstream it has opened in its list.
Kept == \A u \in Routes : Opened(u) => \E i \in DOMAIN upstreams : upstreams[i] = u

\* NewUpstream cancels the context of the one it fails to open.
FailedCanceled == \A u \in Routes : phase[u] = "failed" => canceled[u]

\* cleanup has somewhere to return to, and has closed the whole list by then.
Cleaned ==
    /\ server = "closing" => outcome # "none"
    /\ server \in {"failed", "stopped"} =>
         \A i \in DOMAIN upstreams : canceled[upstreams[i]]

ServerInv == ServerTypeOK /\ Kept /\ FailedCanceled /\ Cleaned

\* Everything of the server that a step of a loop or of the registry leaves.
ownVars == <<server, outcome, upstreams, incomplete>>

-----------------------------------------------------------------------------
(* Helpers.                                                                *)

LEMMA NodesType ==
    ASSUME NEW ins \in SUBSET Instance PROVE NodesOf(ins) \subseteq Addresses
  BY DEF NodesOf, Addresses

\* A bounded counter that steps stays in its range.
LEMMA Counted ==
    ASSUME NEW m \in Nat, NEW n \in 0 .. m, n < m PROVE n + 1 \in 0 .. m
  OBVIOUS

\* The current route is a route, and opening it leaves room in the list.
LEMMA CurrentType ==
    ASSUME ServerTypeOK, MoreRoutes
    PROVE  /\ Current \in Routes
           /\ Len(upstreams) + 1 <= Len(RouteList)
  BY ServerAssumption DEF ServerTypeOK, MoreRoutes, Current

\* A list that grows keeps what it has, and ends with what was added.
LEMMA Appended ==
    ASSUME NEW s \in Seq(Routes), NEW r \in Routes
    PROVE  /\ Append(s, r) \in Seq(Routes)
           /\ Len(Append(s, r)) = Len(s) + 1
           /\ DOMAIN Append(s, r) = 1 .. Len(s) + 1
           /\ \A i \in DOMAIN s : i \in DOMAIN Append(s, r) /\ Append(s, r)[i] = s[i]
           /\ Append(s, r)[Len(s) + 1] = r
  BY AppendProperties

\* Any step that leaves phases and list alone and cancels no fewer contexts
\* keeps the first two parts.
LEMMA OnlyMoreCanceled ==
    ASSUME ServerInv, UNCHANGED <<phase, upstreams>>,
           \A u \in Routes : canceled[u] => canceled'[u]
    PROVE  Kept' /\ FailedCanceled'
  BY DEF ServerInv, Kept, FailedCanceled, Opened

-----------------------------------------------------------------------------
(* Steps.                                                                  *)

LEMMA InitServer == ServerInit => ServerInv
<1> SUFFICES ASSUME ServerInit PROVE ServerInv
  OBVIOUS
<1>1. ServerTypeOK
  BY UpstreamAssumption, ServerAssumption DEF ServerInit, UpstreamInit, ServerTypeOK
<1>2. Kept /\ FailedCanceled /\ Cleaned
  BY DEF ServerInit, UpstreamInit, Kept, Opened, FailedCanceled, Cleaned
<1> QED
  BY <1>1, <1>2 DEF ServerInv

LEMMA PrimeStep ==
    ASSUME ServerInv, NEW u \in Routes, Prime(u), UNCHANGED ownVars
    PROVE  ServerInv'
<1> USE DEF ServerInv, ownVars
<1>1. NodesOf(registry[ServiceOf[u]]) \subseteq Addresses
  BY NodesType, UpstreamAssumption DEF ServerTypeOK
<1>2. lookupErrors' \in 0 .. MaxLookupErrors
  BY Counted, UpstreamAssumption DEF Prime, ServerTypeOK
<1>3. ServerTypeOK'
  BY <1>1, <1>2 DEF Prime, ServerTypeOK, environment
<1>4. Kept' /\ FailedCanceled' /\ Cleaned'
  BY DEF Prime, ServerTypeOK, Kept, FailedCanceled, Cleaned, Opened
<1> QED
  BY <1>3, <1>4

LEMMA WatchSucceedsStep ==
    ASSUME ServerInv, NEW u \in Routes, WatchSucceeds(u),
           Len(upstreams) + 1 <= Len(RouteList),
           server = "building",
           upstreams' = Append(upstreams, u), UNCHANGED <<server, outcome, incomplete>>
    PROVE  ServerInv'
<1> USE DEF ServerInv
<1>1. /\ upstreams \in Seq(Routes) /\ upstreams' \in Seq(Routes)
      /\ Len(upstreams') = Len(upstreams) + 1
      /\ \A i \in DOMAIN upstreams : i \in DOMAIN upstreams' /\ upstreams'[i] = upstreams[i]
      /\ Len(upstreams) + 1 \in DOMAIN upstreams'
      /\ upstreams'[Len(upstreams) + 1] = u
  BY Appended DEF ServerTypeOK
<1>2. ServerTypeOK'
  BY <1>1 DEF WatchSucceeds, ServerTypeOK, environment, failures
<1>3. Kept'
  <2> SUFFICES ASSUME NEW v \in Routes, Opened(v)'
               PROVE  \E i \in DOMAIN upstreams' : upstreams'[i] = v
    BY DEF Kept
  <2>1. CASE v = u
    BY <2>1, <1>1
  <2>2. CASE v # u
    <3>1. Opened(v)
      BY <2>2 DEF WatchSucceeds, Opened, ServerTypeOK
    <3>2. PICK i \in DOMAIN upstreams : upstreams[i] = v
      BY <3>1 DEF Kept
    <3> QED
      BY <3>2, <1>1
  <2> QED
    BY <2>1, <2>2
<1>4. FailedCanceled' /\ Cleaned'
  BY DEF WatchSucceeds, ServerTypeOK, FailedCanceled, Cleaned
<1> QED
  BY <1>2, <1>3, <1>4

LEMMA WatchFailsStep ==
    ASSUME ServerInv, NEW u \in Routes, WatchFails(u),
           server' = "closing", outcome' = "failed", UNCHANGED <<upstreams, incomplete>>
    PROVE  ServerInv'
<1> USE DEF ServerInv
<1> lookupErrors' \in 0 .. MaxLookupErrors
  BY Counted, UpstreamAssumption DEF WatchFails, ServerTypeOK
<1>1. ServerTypeOK'
  BY DEF WatchFails, ServerTypeOK, environment
<1>2. Kept' /\ FailedCanceled' /\ Cleaned'
  BY DEF WatchFails, ServerTypeOK, Kept, FailedCanceled, Cleaned, Opened
<1> QED
  BY <1>1, <1>2

\* A loop moves an opened upstream from one opened phase to another.
LEMMA LoopStepInv ==
    ASSUME ServerInv, NEW u \in Routes, LoopStep(u) PROVE ServerInv'
<1> USE DEF ServerInv, LoopStep
<1>1. ServerTypeOK'
  <2>1. registry[ServiceOf[u]] \in SUBSET Instance /\ UNION shown[u] \in SUBSET Instance
    BY UpstreamAssumption DEF ServerTypeOK
  <2>2. CASE NextShows(u)
    BY <2>1, <2>2 DEF NextShows, ServerTypeOK, environment, failures
  <2>3. CASE Apply(u)
    <3>1. NodesOf(UNION shown[u]) \subseteq Addresses
      BY <2>1, NodesType
    <3> QED
      BY <3>1, <2>3 DEF Apply, ServerTypeOK, environment, failures
  <2>4. CASE NextFails(u)
    <3>1. watchErrors' \in 0 .. MaxWatchErrors
      BY <2>4, Counted, UpstreamAssumption DEF NextFails, ServerTypeOK
    <3> QED
      BY <3>1, <2>4 DEF NextFails, ServerTypeOK, environment
  <2> QED
    BY <2>2, <2>3, <2>4
<1>2. /\ phase[u] \in {"next", "apply"} /\ phase' = [phase EXCEPT ![u] = phase'[u]]
      /\ phase'[u] \in {"next", "apply", "exited"} /\ canceled' = canceled
      /\ UNCHANGED ownVars
  BY DEF NextShows, Apply, NextFails, ServerTypeOK, ownVars
<1>3. Kept' /\ FailedCanceled' /\ Cleaned'
  BY <1>2 DEF ServerTypeOK, Kept, FailedCanceled, Cleaned, Opened, ownVars
<1> QED
  BY <1>1, <1>3

LEMMA ChangeInv == ASSUME ServerInv, RegistryChange PROVE ServerInv'
<1> USE DEF ServerInv, RegistryChange, Change
<1>1. registry' \in [Service -> SUBSET Instance]
  BY DEF ServerTypeOK
<1>2. changes' \in 0 .. MaxChanges
  BY Counted, UpstreamAssumption DEF ServerTypeOK
<1>3. ServerTypeOK'
  BY <1>1, <1>2 DEF ServerTypeOK, failures
<1>4. Kept' /\ FailedCanceled' /\ Cleaned'
  BY DEF Kept, FailedCanceled, Cleaned, Opened
<1> QED
  BY <1>3, <1>4

\* cleanup closes one upstream, or returns with all of them closed.
LEMMA CleanupInv == ASSUME ServerInv, Cleanup PROVE ServerInv'
<1> USE DEF ServerInv
<1> DEFINE left == {i \in DOMAIN upstreams : ~canceled[upstreams[i]]}
<1>1. server = "closing" /\ UNCHANGED <<outcome, upstreams, incomplete>>
  BY DEF Cleanup
<1>2. CASE left = {} /\ server' = outcome /\ UNCHANGED upstreamVars
  <2>1. outcome \in {"failed", "stopped"}
    BY <1>1 DEF ServerTypeOK, Cleaned
  <2>2. ServerTypeOK'
    BY <2>1, <1>1, <1>2 DEF ServerTypeOK, upstreamVars, environment, failures
  <2>3. Kept' /\ FailedCanceled'
    BY <1>1, <1>2, OnlyMoreCanceled DEF upstreamVars
  <2>4. \A i \in DOMAIN upstreams' : canceled'[upstreams'[i]]
    BY <1>1, <1>2 DEF upstreamVars
  <2> QED
    BY <2>1, <2>2, <2>3, <2>4, <1>2 DEF Cleaned
<1>3. CASE \E u : Close(u) /\ server' = server
  <2>1. PICK u : Close(u)
    BY <1>3
  <2>2. ServerTypeOK'
    BY <2>1, <1>1, <1>3 DEF Close, ServerTypeOK, environment, failures
  <2>3. Kept' /\ FailedCanceled'
    BY <2>1, <1>1, OnlyMoreCanceled DEF Close, ServerTypeOK
  <2>4. Cleaned'
    BY <1>1, <1>3 DEF Cleaned
  <2> QED
    BY <2>2, <2>3, <2>4
<1>4. QED
  BY <1>2, <1>3 DEF Cleanup

\* Serve, Shutdown and the refusal of a route touch no upstream.
LEMMA ServerStep ==
    ASSUME ServerInv, RefuseRoute \/ Serve \/ Shutdown PROVE ServerInv'
<1> USE DEF ServerInv, RefuseRoute, Serve, Shutdown
<1>1. ServerTypeOK'
  BY DEF ServerTypeOK, upstreamVars, environment, failures
<1>2. Kept' /\ FailedCanceled' /\ Cleaned'
  BY DEF Kept, FailedCanceled, Cleaned, Opened, upstreamVars
<1> QED
  BY <1>1, <1>2

LEMMA NextServer == ServerInv /\ [ServerNext]_serverVars => ServerInv'
<1> SUFFICES ASSUME ServerInv, [ServerNext]_serverVars PROVE ServerInv'
  OBVIOUS
<1>1. CASE OpenRoute
  <2>1. MoreRoutes /\ ServerTypeOK /\ server = "building" /\ UNCHANGED incomplete
    BY <1>1 DEF OpenRoute, ServerInv
  <2>2. Current \in Routes /\ Len(upstreams) + 1 <= Len(RouteList)
    BY <2>1, CurrentType
  <2>3. CASE Prime(Current) /\ UNCHANGED <<server, outcome, upstreams>>
    BY <2>1, <2>2, <2>3, PrimeStep DEF ownVars
  <2>4. CASE /\ WatchSucceeds(Current)
             /\ upstreams' = Append(upstreams, Current)
             /\ UNCHANGED <<server, outcome>>
    BY <2>1, <2>2, <2>4, WatchSucceedsStep
  <2>5. CASE /\ WatchFails(Current)
             /\ server' = "closing" /\ outcome' = "failed"
             /\ UNCHANGED upstreams
    BY <2>1, <2>2, <2>5, WatchFailsStep
  <2> QED
    BY <1>1, <2>3, <2>4, <2>5 DEF OpenRoute
<1>2. CASE RefuseRoute \/ Serve \/ Shutdown
  BY <1>2, ServerStep
<1>3. CASE Cleanup
  BY <1>3, CleanupInv
<1>4. CASE RegistryChange
  BY <1>4, ChangeInv
<1>5. ASSUME NEW u \in Routes, LoopStep(u) PROVE ServerInv'
  BY <1>5, LoopStepInv
<1>6. CASE UNCHANGED serverVars
  BY <1>6 DEF serverVars, upstreamVars, environment, failures, ServerInv, ServerTypeOK,
              Kept, FailedCanceled, Cleaned, Opened
<1> QED
  BY <1>1, <1>2, <1>3, <1>4, <1>5, <1>6 DEF ServerNext

-----------------------------------------------------------------------------
(* Theorems.                                                               *)

\* The inductive invariant, under any interleaving of New, cleanup, the loops
\* and the registry.
THEOREM ServerInvariance == ServerSpec => []ServerInv
  BY InitServer, NextServer, PTL DEF ServerSpec

\* Types (server.go, upstream.go).
THEOREM ServerTypeCorrect == ServerSpec => []ServerTypeOK
<1>1. ServerInv => ServerTypeOK
  BY DEF ServerInv
<1> QED
  BY <1>1, ServerInvariance, PTL

\* Whatever fails while New opens the routes, and whenever the server is
\* stopped, no upstream's context is left uncanceled (server.go, cleanup).
THEOREM NothingLeftOpenHolds == ServerSpec => []NothingLeftOpen
<1>1. ServerInv => NothingLeftOpen
  <2> SUFFICES ASSUME ServerInv, server \in {"failed", "stopped"}, NEW u \in Routes
               PROVE  phase[u] \in {"new", "primed"} \/ canceled[u]
    BY DEF NothingLeftOpen
  <2>1. CASE Opened(u)
    BY <2>1 DEF ServerInv, Kept, Cleaned
  <2>2. CASE ~Opened(u)
    BY <2>2 DEF ServerInv, ServerTypeOK, FailedCanceled, Opened
  <2> QED
    BY <2>1, <2>2
<1> QED
  BY <1>1, ServerInvariance, PTL

-----------------------------------------------------------------------------
(* The edge filters, a specification of its own: the quota and its         *)
(* converse, for every rate, burst and clock, configured or defaulted.     *)

\* The effective rate and burst are positive whatever is configured.
LEMMA Positive ==
    /\ Qps \in Nat \ {0} /\ Burst \in Nat \ {0}
    /\ Full \in Nat /\ Full >= TicksPerSecond
<1>1. Qps \in Nat \ {0}
  BY EdgeAssumption DEF Qps
<1>2. Burst \in Nat \ {0}
  BY <1>1, EdgeAssumption DEF Burst
<1>3. Full \in Nat /\ Full >= TicksPerSecond
  <2> DEFINE b == Burst
  <2>1. b \in Nat /\ b >= 1 /\ TicksPerSecond \in Nat
    BY <1>2, EdgeAssumption
  <2> HIDE DEF b
  <2>2. b * TicksPerSecond \in Nat /\ b * TicksPerSecond >= TicksPerSecond
    BY <2>1
  <2> QED
    BY <2>2 DEF b, Full
<1> QED
  BY <1>1, <1>2, <1>3

\* A window that is one tick longer is granted one tick's worth more.
LEMMA GrantGrows ==
    ASSUME NEW q \in Nat, NEW n \in Nat, NEW i \in Int
    PROVE  q * (n + 1 - i) = q * (n - i) + q
  OBVIOUS

\* Requests and replies have their types.
LEMMA AnswersType ==
    ASSUME NEW q \in Request, NEW s \in {"no content", "too many", "forwarded"},
           NEW r \in BOOLEAN, Answers(q, s, r)
    PROVE  reply' \in {{}} \cup {{x} : x \in Reply}
<1>1. [request |-> q, status |-> s, readable |-> r] \in Reply
  BY DEF Reply
<1> QED
  BY <1>1 DEF Answers

LEMMA DecoratedType == ASSUME NEW q PROVE Decorated(q) \in BOOLEAN
  BY DEF Decorated

LEMMA InitInv == Init => IInv
<1> SUFFICES ASSUME Init PROVE IInv
  OBVIOUS
<1>1. TypeOK
  BY Positive, EdgeAssumption DEF Init, TypeOK
<1>2. Used(0) + bucket = Granted(0) /\ 0 \in 0 .. now /\ \A i \in 0 .. now : i = 0
  BY Positive, EdgeAssumption DEF Init, Used, Granted
<1> QED
  BY <1>1, <1>2, Positive DEF IInv, BucketWithin, BucketExact, Init, Used, Granted

\* The clock: every open window is granted Qps more, and one more opens, which
\* has used nothing.
LEMMA TickInv == IInv /\ Tick => IInv'
<1> SUFFICES ASSUME TypeOK, BucketWithin, BucketExact, Tick PROVE IInv'
  BY DEF IInv
<1> USE DEF TypeOK
<1>1. /\ now \in Nat /\ now' = now + 1 /\ now' \in 0 .. MaxTime
      /\ bucket \in Nat /\ bucket <= Full /\ admitted \in Nat /\ admitted' = admitted
      /\ bucket' = IF bucket + Qps > Full THEN Full ELSE bucket + Qps
  BY EdgeAssumption DEF Tick, Refill
<1>2. /\ before'[now'] = admitted
      /\ \A i \in 0 .. now : before'[i] = before[i] /\ before[i] \in Nat
  BY <1>1, EdgeAssumption DEF Tick
<1>3. TypeOK'
  BY <1>1, Positive DEF Tick
<1>4. /\ TicksPerSecond * (admitted' - before'[now']) = 0
      /\ Full + Qps * (now' - now') = Full
  BY <1>1, <1>2, Positive, EdgeAssumption
<1>5. ASSUME NEW i \in 0 .. now
      PROVE  /\ Used(i)' = Used(i) /\ Used(i) \in Int
             /\ Granted(i)' = Granted(i) + Qps /\ Granted(i) \in Int
  <2>1. Used(i)' = Used(i) /\ Used(i) \in Int
    BY <1>1, <1>2, EdgeAssumption DEF Used
  <2>2. Qps * (now + 1 - i) = Qps * (now - i) + Qps /\ Qps * (now - i) \in Int
    BY <1>1, Positive, GrantGrows
  <2> QED
    BY <2>1, <2>2, <1>1, Positive DEF Granted
<1>6. BucketWithin'
  <2> SUFFICES ASSUME NEW i \in 0 .. now' PROVE Used(i)' + bucket' <= Granted(i)'
    BY DEF BucketWithin
  <2>1. CASE i = now'
    BY <2>1, <1>1, <1>4, Positive DEF Used, Granted
  <2>2. CASE i \in 0 .. now
    <3>1. Used(i) + bucket <= Granted(i)
      BY <2>2 DEF BucketWithin
    <3>2. bucket' \in Int /\ bucket' <= bucket + Qps /\ Qps \in Nat
      BY <1>1, Positive
    <3>3. /\ Used(i)' = Used(i) /\ Used(i) \in Int
          /\ Granted(i)' = Granted(i) + Qps /\ Granted(i) \in Int
      BY <2>2, <1>5
    <3> QED
      BY <3>1, <3>2, <3>3, <1>1
  <2> QED
    BY <2>1, <2>2, <1>1
<1>7. BucketExact'
  <2>1. CASE bucket + Qps > Full
    <3>1. now' \in 0 .. now' /\ bucket' = Full
      BY <2>1, <1>1
    <3>2. TicksPerSecond * (admitted' - before'[now']) + bucket'
            = Full + Qps * (now' - now')
      BY <3>1, <1>4, Positive
    <3> QED
      BY <3>1, <3>2 DEF BucketExact, Used, Granted
  <2>2. CASE ~(bucket + Qps > Full)
    <3>1. PICK i \in 0 .. now : Used(i) + bucket = Granted(i)
      BY DEF BucketExact
    <3>2. Used(i)' + bucket' = Granted(i)' /\ i \in 0 .. now'
      BY <2>2, <3>1, <1>1, <1>5, Positive
    <3> QED
      BY <3>2 DEF BucketExact
  <2> QED
    BY <2>1, <2>2
<1> QED
  BY <1>3, <1>6, <1>7 DEF IInv

\* An admitted request takes from the bucket what it adds to every open window.
LEMMA AdmitInv == ASSUME NEW q \in Request, IInv, Admit(q) PROVE IInv'
<1> USE DEF TypeOK, IInv
<1>1. /\ now \in Nat /\ now' = now /\ bucket \in Nat /\ admitted \in Nat
      /\ bucket' = bucket - TicksPerSecond /\ bucket' \in Nat /\ bucket' <= Full
      /\ admitted' = admitted + 1 /\ before' = before
      /\ TicksPerSecond \in Nat
  BY Positive, EdgeAssumption DEF Admit, HasToken
<1>2. reply' \in {{}} \cup {{x} : x \in Reply}
  BY DecoratedType, AnswersType DEF Admit
<1>3. TypeOK'
  BY <1>1, <1>2, Positive
<1>4. ASSUME NEW i \in 0 .. now
      PROVE  /\ Used(i)' = Used(i) + TicksPerSecond /\ Used(i) \in Int
             /\ Granted(i)' = Granted(i)
  <2> DEFINE n == admitted - before[i]
  <2>1. n \in Int /\ (admitted + 1) - before[i] = n + 1
    BY <1>1, EdgeAssumption
  <2> HIDE DEF n
  <2>2. TicksPerSecond * (n + 1) = TicksPerSecond * n + TicksPerSecond
    BY <2>1, <1>1
  <2>3. Used(i) = TicksPerSecond * n /\ Used(i)' = TicksPerSecond * (n + 1)
    BY <2>1, <1>1 DEF n, Used
  <2> QED
    BY <2>1, <2>2, <2>3, <1>1 DEF Granted
<1>5. BucketWithin'
  BY <1>1, <1>4, Positive DEF BucketWithin, Granted
<1>6. BucketExact'
  BY <1>1, <1>4, Positive DEF BucketExact, Granted
<1> QED
  BY <1>3, <1>5, <1>6

\* A preflight and a refusal change the answer alone.
LEMMA ReplyInv ==
    ASSUME NEW q \in Request, IInv, Preflight(q) \/ Reject(q)
    PROVE  IInv'
<1>1. reply' \in {{}} \cup {{x} : x \in Reply}
  BY DecoratedType, AnswersType DEF Preflight, Reject
<1>2. UNCHANGED <<now, bucket, admitted, before>>
  BY DEF Preflight, Reject
<1> QED
  BY <1>1, <1>2 DEF IInv, TypeOK, BucketWithin, BucketExact, Used, Granted

LEMMA StutterInv == IInv /\ UNCHANGED vars => IInv'
  BY DEF IInv, TypeOK, BucketWithin, BucketExact, Used, Granted, vars

LEMMA StepInv == IInv /\ [Next]_vars => IInv'
  BY TickInv, AdmitInv, ReplyInv, StutterInv DEF Next

\* The inductive invariant holds in every behaviour of the filters.
THEOREM Invariance == Spec => []IInv
  BY InitInv, StepInv, PTL DEF Spec

\* The bucket is never overdrawn and never holds more than the burst.
THEOREM TypeCorrect == Spec => []TypeOK
<1>1. IInv => TypeOK
  BY DEF IInv
<1> QED
  BY <1>1, Invariance, PTL

\* No window of time admits more than the burst and its share of qps
\* (NewTokenLimiter).
THEOREM QuotaHolds == Spec => []Quota
<1>1. IInv => Quota
  <2> SUFFICES ASSUME IInv, NEW i \in 0 .. now PROVE Used(i) <= Granted(i)
    BY DEF Quota
  <2>1. Used(i) \in Int /\ Granted(i) \in Int /\ bucket \in Nat
    BY Positive, EdgeAssumption DEF IInv, TypeOK, Used, Granted
  <2> QED
    BY <2>1 DEF IInv, BucketWithin
<1> QED
  BY <1>1, Invariance, PTL

\* A request is refused only when some window has no room for it.
THEOREM RejectionJustifiedHolds == Spec => []RejectionJustified
<1> DEFINE Refused == \A r \in reply : r.status = "too many" => ~HasToken
<1>1. Init => Refused
  BY DEF Init
<1>2. Refused /\ [Next]_vars => Refused'
  <2> SUFFICES ASSUME Refused, [Next]_vars PROVE Refused'
    OBVIOUS
  <2>1. CASE Tick
    BY <2>1 DEF Tick
  <2>2. ASSUME NEW q \in Request, Preflight(q) \/ Admit(q) PROVE Refused'
    <3>1. PICK s \in {"no content", "forwarded"}, d \in BOOLEAN : Answers(q, s, d)
      BY <2>2, DecoratedType DEF Preflight, Admit
    <3>2. \A r \in reply' : r.status = s
      <4>1. reply' = {[request |-> q, status |-> s, readable |-> d]}
        BY <3>1 DEF Answers
      <4>2. [request |-> q, status |-> s, readable |-> d].status = s
        OBVIOUS
      <4> QED
        BY <4>1, <4>2
    <3>3. s # "too many"
      BY <3>1
    <3> QED
      BY <3>2, <3>3
  <2>3. ASSUME NEW q \in Request, Reject(q) PROVE Refused'
    BY <2>3 DEF Reject, HasToken
  <2>4. CASE UNCHANGED vars
    BY <2>4 DEF vars, HasToken
  <2> QED
    BY <2>1, <2>2, <2>3, <2>4 DEF Next
<1>3. IInv /\ Refused => RejectionJustified
  <2> SUFFICES ASSUME IInv, ~HasToken
               PROVE \E i \in 0 .. now : Used(i) + TicksPerSecond > Granted(i)
    BY DEF RejectionJustified
  <2>1. PICK i \in 0 .. now : Used(i) + bucket = Granted(i)
    BY DEF IInv, BucketExact
  <2>2. /\ Used(i) \in Int /\ bucket \in Nat
        /\ TicksPerSecond \in Nat /\ bucket < TicksPerSecond
    BY Positive, EdgeAssumption DEF IInv, TypeOK, Used, HasToken
  <2> QED
    BY <2>1, <2>2
<1> QED
  BY <1>1, <1>2, <1>3, Invariance, PTL DEF Spec

\* A page of an allowed origin can read its 429, and no preflight gets one
\* (server.go:31-33).
THEOREM RejectionReadableHolds == Spec => []RejectionReadable
<1>1. Init => RejectionReadable
  BY DEF Init, RejectionReadable
<1>2. RejectionReadable /\ [Next]_vars => RejectionReadable'
  <2> SUFFICES ASSUME RejectionReadable, [Next]_vars PROVE RejectionReadable'
    OBVIOUS
  <2>1. CASE Tick
    BY <2>1 DEF Tick, RejectionReadable
  <2>2. ASSUME NEW q \in Request, Preflight(q) \/ Admit(q) PROVE RejectionReadable'
    <3>1. PICK s \in {"no content", "forwarded"}, d \in BOOLEAN : Answers(q, s, d)
      BY <2>2, DecoratedType DEF Preflight, Admit
    <3> DEFINE a == [request |-> q, status |-> s, readable |-> d]
    <3>2. reply' = {a} /\ a.status # "too many"
      BY <3>1 DEF Answers
    <3> HIDE DEF a
    <3> QED
      BY <3>2 DEF RejectionReadable
  <2>3. ASSUME NEW q \in Request, Reject(q) PROVE RejectionReadable'
    <3> DEFINE a == [request |-> q, status |-> "too many", readable |-> Decorated(q)]
    <3>1. reply' = {a}
      BY <2>3 DEF Reject, Answers
    <3>2. a.request = q /\ a.readable = Decorated(q)
      OBVIOUS
    <3> HIDE DEF a
    <3>3. Decorated(q) => ~q.preflight
      BY <2>3 DEF Reject, Limited
    <3> QED
      BY <3>1, <3>2, <3>3 DEF RejectionReadable, Decorated, OriginAllowed
  <2>4. CASE UNCHANGED vars
    BY <2>4 DEF vars, RejectionReadable, Decorated, OriginAllowed
  <2> QED
    BY <2>1, <2>2, <2>3, <2>4 DEF Next
<1> QED
  BY <1>1, <1>2, PTL DEF Spec

=============================================================================
