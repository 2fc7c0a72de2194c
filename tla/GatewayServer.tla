--------------------------- MODULE GatewayServer ---------------------------
(***************************************************************************)
(* app/gateway/internal/server/server.go: New opens the upstreams of the   *)
(* configured routes one after the other, the loops of the earlier ones    *)
(* already running; when a route fails, and when the server is stopped,    *)
(* cleanup closes every upstream opened so far.  Composes Upstream.        *)
(***************************************************************************)
EXTENDS Upstream, Sequences

CONSTANTS
    RouteList,   \* a sequence over Routes: the configured order
    MayLack      \* routes the config may give without path_prefix or service

ASSUME ServerAssumption ==
    /\ RouteList \in Seq(Routes)
    /\ \A i, j \in DOMAIN RouteList : RouteList[i] = RouteList[j] => i = j
    /\ MayLack \subseteq Routes

VARIABLES
    server,      \* "building", "serving", "closing"; then "failed" or "stopped"
    outcome,     \* what closing ends in
    upstreams,   \* the routes opened so far, in order
    incomplete   \* routes without path_prefix or service in this config

serverVars == <<upstreamVars, server, outcome, upstreams, incomplete>>

ServerInit ==
    /\ UpstreamInit
    /\ server = "building"
    /\ outcome = "none"
    /\ upstreams = <<>>
    /\ incomplete \in SUBSET MayLack

-----------------------------------------------------------------------------
Current == RouteList[Len(upstreams) + 1]
MoreRoutes == Len(upstreams) < Len(RouteList)

\* The loop of New calls NewUpstream for the current route.
OpenRoute ==
    /\ server = "building" /\ MoreRoutes /\ Current \notin incomplete
    /\ \/ Prime(Current) /\ UNCHANGED <<server, outcome, upstreams>>
       \/ /\ WatchSucceeds(Current)
          /\ upstreams' = Append(upstreams, Current)
          /\ UNCHANGED <<server, outcome>>
       \/ /\ WatchFails(Current)
          /\ server' = "closing" /\ outcome' = "failed"
          /\ UNCHANGED upstreams
    /\ UNCHANGED incomplete

\* A route without prefix or service is refused when its turn comes.
RefuseRoute ==
    /\ server = "building" /\ MoreRoutes /\ Current \in incomplete
    /\ server' = "closing" /\ outcome' = "failed"
    /\ UNCHANGED <<upstreamVars, upstreams, incomplete>>

Serve ==
    /\ server = "building" /\ ~MoreRoutes
    /\ server' = "serving"
    /\ UNCHANGED <<upstreamVars, outcome, upstreams, incomplete>>

\* A stop signal ends app.Run; main's deferred cleanupServer runs.
Shutdown ==
    /\ server = "serving"
    /\ server' = "closing" /\ outcome' = "stopped"
    /\ UNCHANGED <<upstreamVars, upstreams, incomplete>>

\* Mutant: cleanup stops after the first upstream.
CleanupFirst ==
    /\ server = "closing"
    /\ IF upstreams = <<>> \/ canceled[upstreams[1]]
       THEN server' = outcome /\ UNCHANGED upstreamVars
       ELSE Close(upstreams[1]) /\ UNCHANGED server
    /\ UNCHANGED <<outcome, upstreams, incomplete>>

\* cleanup closes the upstreams in order, then New or main returns.
Cleanup ==
    LET left == {i \in DOMAIN upstreams : ~canceled[upstreams[i]]} IN
    /\ server = "closing"
    /\ IF left = {}
       THEN server' = outcome /\ UNCHANGED upstreamVars
       ELSE LET i == CHOOSE k \in left : \A j \in left : k <= j
            IN Close(upstreams[i]) /\ UNCHANGED server
    /\ UNCHANGED <<outcome, upstreams, incomplete>>

LoopStep(u) ==
    /\ NextShows(u) \/ Apply(u) \/ NextFails(u)
    /\ UNCHANGED <<server, outcome, upstreams, incomplete>>

RegistryChange == Change /\ UNCHANGED <<server, outcome, upstreams, incomplete>>

ServerNext ==
    \/ OpenRoute \/ RefuseRoute \/ Serve \/ Shutdown \/ Cleanup
    \/ RegistryChange
    \/ \E u \in Routes : LoopStep(u)

\* New and cleanup run on, and so do the loops.  Nobody has to stop the server.
ServerSpec ==
    /\ ServerInit /\ [][ServerNext]_serverVars
    /\ WF_serverVars(OpenRoute) /\ WF_serverVars(RefuseRoute) /\ WF_serverVars(Serve) /\ WF_serverVars(Cleanup)
    /\ \A u \in Routes :
         /\ WF_serverVars(LoopStep(u))
         /\ SF_serverVars(canceled[u] /\ NextFails(u) /\ UNCHANGED <<server, outcome, upstreams, incomplete>>)

-----------------------------------------------------------------------------
(* Properties.                                                             *)

\* Every variable has its type.
ServerTypeOK ==
    /\ registry \in [Service -> SUBSET Instance]
    /\ nodes \in [Routes -> SUBSET Addresses]
    /\ phase \in [Routes -> {"new", "primed", "next", "apply", "exited", "failed"}]
    /\ shown \in [Routes -> {{}} \cup {{ins} : ins \in SUBSET Instance}]
    /\ canceled \in [Routes -> BOOLEAN]
    /\ changes \in 0 .. MaxChanges
    /\ lookupErrors \in 0 .. MaxLookupErrors
    /\ watchErrors \in 0 .. MaxWatchErrors
    /\ server \in {"building", "serving", "closing", "failed", "stopped"}
    /\ outcome \in {"none", "failed", "stopped"}
    /\ upstreams \in Seq(Routes) /\ Len(upstreams) <= Len(RouteList)
    /\ incomplete \subseteq MayLack

\* Once New has failed or the server is stopped, no upstream is left open: not
\* the earlier ones when a later route fails, nor the one whose Watch failed.
NothingLeftOpen ==
    server \in {"failed", "stopped"} =>
        \A u \in Routes : phase[u] \in {"new", "primed"} \/ canceled[u]

\* Closing an upstream ends its goroutine, whatever its loop is doing.
LoopsEnd == \A u \in Routes :
    canceled[u] /\ Opened(u) ~> phase[u] = "exited"

\* upstream.go:43-45: "NewUpstream resolves the current instances of the service,
\* then keeps them fresh through a registry watcher": when the registry comes to
\* rest, every upstream that is open picks from exactly the live endpoints.
KeepsFresh == \A u \in Routes :
    <>[](Opened(u) /\ ~canceled[u] => nodes[u] = NodesOf(registry[ServiceOf[u]]))

\* The same for every upstream whose loop has not exited, whatever lookup failed
\* before and wherever between lookup, subscription and apply a change fell.
FreshWhileLooping == \A u \in Routes :
    <>[](phase[u] \in {"next", "apply"} /\ ~canceled[u]
            => nodes[u] = NodesOf(registry[ServiceOf[u]]))

=============================================================================
