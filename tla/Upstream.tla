----------------------------- MODULE Upstream -----------------------------
(***************************************************************************)
(* app/gateway/internal/proxy/upstream.go: the gateway's view of the       *)
(* backends.  Every route opens an upstream of its own, which primes its   *)
(* node list from the registry and then feeds it from a registry watcher   *)
(* in a goroutine of its own.  The registry (Nacos) changes at any time.   *)
(***************************************************************************)
EXTENDS Integers

CONSTANTS
    Routes,          \* each opens one upstream
    Service,         \* names in the registry
    ServiceOf,       \* [Routes -> Service]
    Instance,        \* instances a service can have
    EndpointsOf,     \* [Instance -> SUBSET Endpoint]: what each one registers
    Malformed,       \* endpoints url.Parse refuses
    MaxChanges,      \* bound on changes of the registry
    MaxLookupErrors, \* bound on failures of GetService and of Watch
    MaxWatchErrors   \* bound on failures of a watcher's Next

ASSUME UpstreamAssumption ==
    /\ ServiceOf \in [Routes -> Service]
    /\ MaxChanges \in Nat /\ MaxLookupErrors \in Nat /\ MaxWatchErrors \in Nat

VARIABLES
    registry,   \* [Service -> SUBSET Instance]
    nodes,      \* [Routes -> node addresses]: what the selector picks from
    phase,      \* [Routes -> where NewUpstream, and then the loop, is]
    shown,      \* [Routes -> {the list the watcher last returned}, or {}]
    canceled,   \* [Routes -> BOOLEAN]: the upstream's context
    changes, lookupErrors, watchErrors  \* history: how often so far

environment == <<registry, changes>>
failures == <<lookupErrors, watchErrors>>
upstreamVars == <<environment, nodes, phase, shown, canceled, failures>>

Addresses == UNION {EndpointsOf[i] : i \in Instance} \ Malformed

\* Mutant: an endpoint that does not parse is not skipped.
NodesOfUnchecked(ins) == UNION {EndpointsOf[i] : i \in ins}

\* apply: every endpoint of every instance that parses.
NodesOf(ins) == UNION {EndpointsOf[i] : i \in ins} \ Malformed

UpstreamInit ==
    /\ registry \in [Service -> SUBSET Instance]
    /\ nodes = [u \in Routes |-> {}]
    /\ phase = [u \in Routes |-> "new"]
    /\ shown = [u \in Routes |-> {}]
    /\ canceled = [u \in Routes |-> FALSE]
    /\ changes = 0
    /\ lookupErrors = 0
    /\ watchErrors = 0

-----------------------------------------------------------------------------
\* Instances come, go and crash.
Change ==
    /\ changes < MaxChanges
    /\ \E s \in Service, ins \in SUBSET Instance :
         /\ ins # registry[s]
         /\ registry' = [registry EXCEPT ![s] = ins]
    /\ changes' = changes + 1
    /\ UNCHANGED <<nodes, phase, shown, canceled, failures>>

(* NewUpstream. *)

\* refresh: an error is logged and leaves the node list empty.
Prime(u) ==
    /\ phase[u] = "new"
    /\ phase' = [phase EXCEPT ![u] = "primed"]
    /\ \/ /\ nodes' = [nodes EXCEPT ![u] = NodesOf(registry[ServiceOf[u]])]
          /\ UNCHANGED lookupErrors
       \/ /\ lookupErrors < MaxLookupErrors
          /\ lookupErrors' = lookupErrors + 1
          /\ UNCHANGED nodes
    /\ UNCHANGED <<environment, shown, canceled, watchErrors>>

WatchSucceeds(u) ==
    /\ phase[u] = "primed"
    /\ phase' = [phase EXCEPT ![u] = "next"]
    /\ UNCHANGED <<environment, nodes, shown, canceled, failures>>

\* The context is canceled, and NewUpstream returns the error.
WatchFails(u) ==
    /\ phase[u] = "primed"
    /\ lookupErrors < MaxLookupErrors
    /\ lookupErrors' = lookupErrors + 1
    /\ phase' = [phase EXCEPT ![u] = "failed"]
    /\ canceled' = [canceled EXCEPT ![u] = TRUE]
    /\ UNCHANGED <<environment, nodes, shown, watchErrors>>

(* loop. *)

\* watcher.Next shows the instances when they differ from what it last showed;
\* the first time it shows them whatever they are.
NextShows(u) ==
    /\ phase[u] = "next"
    /\ shown[u] # {registry[ServiceOf[u]]}
    /\ shown' = [shown EXCEPT ![u] = {registry[ServiceOf[u]]}]
    /\ phase' = [phase EXCEPT ![u] = "apply"]
    /\ UNCHANGED <<environment, nodes, canceled, failures>>

\* Mutant: instances are added and never taken away.
ApplyAdds(u) ==
    /\ phase[u] = "apply"
    /\ nodes' = [nodes EXCEPT ![u] = @ \cup NodesOf(UNION shown[u])]
    /\ phase' = [phase EXCEPT ![u] = "next"]
    /\ UNCHANGED <<environment, shown, canceled, failures>>

Apply(u) ==
    /\ phase[u] = "apply"
    /\ nodes' = [nodes EXCEPT ![u] = NodesOf(UNION shown[u])]
    /\ phase' = [phase EXCEPT ![u] = "next"]
    /\ UNCHANGED <<environment, shown, canceled, failures>>

\* Mutant: the loop calls Next again after any error.
NextFailsRetries(u) ==
    /\ phase[u] = "next"
    /\ watchErrors < MaxWatchErrors
    /\ watchErrors' = watchErrors + 1
    /\ UNCHANGED <<environment, nodes, phase, shown, canceled, lookupErrors>>

\* Next fails for good when the context is canceled, and possibly before: the
\* loop does not tell the one from the other and exits.
NextFails(u) ==
    /\ phase[u] = "next"
    /\ \/ canceled[u] /\ UNCHANGED watchErrors
       \/ /\ watchErrors < MaxWatchErrors
          /\ watchErrors' = watchErrors + 1
    /\ phase' = [phase EXCEPT ![u] = "exited"]
    /\ UNCHANGED <<environment, nodes, shown, canceled, lookupErrors>>

\* NewUpstream has returned an upstream.
Opened(u) == phase[u] \in {"next", "apply", "exited"}

\* cancel and watcher.Stop; the loop notices at its next call of Next.
Close(u) ==
    /\ Opened(u)
    /\ canceled' = [canceled EXCEPT ![u] = TRUE]
    /\ UNCHANGED <<environment, nodes, phase, shown, failures>>

=============================================================================
