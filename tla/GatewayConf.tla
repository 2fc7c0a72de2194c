----------------------------- MODULE GatewayConf -----------------------------
(***************************************************************************)
(* What the gateway makes of its configuration: the schema of              *)
(* internal/conf, pkg/log and pkg/nacos.  A configuration is a function    *)
(* from the fields that are set to their values; a getter of a field that  *)
(* is not set, or whose message is not, returns the zero value.  A setting *)
(* that is normalised before it is used is a word, and whether it is       *)
(* written just so or with white space or in another case.                 *)
(***************************************************************************)
EXTENDS Integers, Sequences, TLC

Word(w) == [word |-> w, exact |-> TRUE]
Loose(w) == [word |-> w, exact |-> FALSE]

\* Getters of the messages, and what they return for fields that are not set.  A
\* duration is its seconds.
RegistryDefaults ==
    "registry.address" :> <<>> @@ "registry.namespace_id" :> "" @@ "registry.group" :> Word("")
    @@ "registry.username" :> "" @@ "registry.password" :> ""

LogDefaults ==
    "log.level" :> Word("") @@ "log.output" :> Word("") @@ "log.file_path" :> Word("")
    @@ "log.format" :> Word("") @@ "log.add_source" :> FALSE @@ "log.no_color" :> FALSE

RotationDefaults ==
    "log.rotation.max_size" :> 0 @@ "log.rotation.max_backups" :> 0
    @@ "log.rotation.max_age" :> 0 @@ "log.rotation.compress" :> FALSE

\* Whether there are cors settings is told apart from what they say.
GatewayDefaults == "gateway.routes" :> <<>> @@ "gateway.cors" :> FALSE

CorsDefaults ==
    "gateway.cors.allow_origins" :> {} @@ "gateway.cors.allow_methods" :> <<>>
    @@ "gateway.cors.allow_headers" :> <<>> @@ "gateway.cors.allow_credentials" :> FALSE
    @@ "gateway.cors.max_age" :> 0

RateLimitDefaults ==
    "middleware.ratelimit.enabled" :> FALSE @@ "middleware.ratelimit.qps" :> 0
    @@ "middleware.ratelimit.burst" :> 0

BreakerDefaults ==
    "middleware.circuit_breaker.enabled" :> FALSE
    @@ "middleware.circuit_breaker.max_requests" :> 0
    @@ "middleware.circuit_breaker.interval" :> 0
    @@ "middleware.circuit_breaker.timeout" :> 0
    @@ "middleware.circuit_breaker.failure_ratio" :> 0
    @@ "middleware.circuit_breaker.min_requests" :> 0

HTTPDefaults ==
    "server.http.network" :> "" @@ "server.http.addr" :> "" @@ "server.http.timeout" :> 0

Defaults ==
    RegistryDefaults @@ LogDefaults @@ RotationDefaults @@ GatewayDefaults @@ CorsDefaults
    @@ RateLimitDefaults @@ BreakerDefaults @@ HTTPDefaults

Get(c, field) == (c @@ Defaults)[field]

\* A route's own fields.
Route(prefix, service) ==
    [path_prefix |-> prefix, service |-> service, rewrite_prefix |-> ""]

-----------------------------------------------------------------------------
(* pkg/log.                                                                *)

ParseLevel(s) ==
    CASE s.word = "debug" -> -4
      [] s.word \in {"warn", "warning"} -> 4
      [] s.word = "error" -> 8
      [] OTHER -> 0

\* Options.Writer: the path goes to lumberjack as it is written, white space
\* included; where lumberjack goes without one is up to lumberjack.
Lumberjacks == Word("a default of lumberjack's")

Writer(o) ==
    CASE o.output.word = "stderr" -> [to |-> "stderr"]
      [] o.output.word = "file" ->
           [to |-> "file", rotation |-> o.rotation,
            path |-> IF o.file_path = Word("") THEN Lumberjacks ELSE o.file_path]
      [] OTHER -> [to |-> "stdout"]

Handler(format) ==
    CASE format.word = "json" -> "json" [] format.word = "color" -> "color" [] OTHER -> "text"

\* Mutant: the output is not normalised before it is compared.
RefusesLiterally(o) == o.output = Word("file") /\ o.file_path.word = ""

\* New refuses output to a file without a path.
Refuses(o) == o.output.word = "file" /\ o.file_path.word = ""

\* isColorCapable: no colours in a file, nor from the standard handlers.
LogNew(o) ==
    [writer |-> Writer(o), level |-> ParseLevel(o.level), handler |-> Handler(o.format),
     add_source |-> o.add_source,
     color |-> Handler(o.format) = "color" /\ ~o.no_color /\ Writer(o).to # "file"]

\* newLogger's translation of the log section.
LogOptions(c) ==
    [level |-> Get(c, "log.level"), format |-> Get(c, "log.format"),
     output |-> Get(c, "log.output"), file_path |-> Get(c, "log.file_path"),
     add_source |-> Get(c, "log.add_source"), no_color |-> Get(c, "log.no_color"),
     rotation |-> [max_size |-> Get(c, "log.rotation.max_size"),
                   max_backups |-> Get(c, "log.rotation.max_backups"),
                   max_age |-> Get(c, "log.rotation.max_age"),
                   compress |-> Get(c, "log.rotation.compress")]]

-----------------------------------------------------------------------------
(* pkg/nacos.                                                              *)

\* A group that is not blank is taken as it is written.
GroupName(group) == IF group.word = "" THEN Word("DEFAULT_GROUP") ELSE group

\* serverConfigs: an address is a list of endpoints, each "host:port" or not.
\* One that does not parse fails them all.
Parses(address) == \A i \in DOMAIN address : address[i] = "host:port"

NacosOptions(c) ==
    [address |-> Get(c, "registry.address"), group |-> GroupName(Get(c, "registry.group")),
     namespace |-> Get(c, "registry.namespace_id"),
     username |-> Get(c, "registry.username"), password |-> Get(c, "registry.password")]

-----------------------------------------------------------------------------
(* internal/server.                                                        *)

\* The breaker's settings, if there are any.
breakerSettings(c) ==
    IF ~Get(c, "middleware.circuit_breaker.enabled") THEN {}
    ELSE {[max_requests |-> Get(c, "middleware.circuit_breaker.max_requests"),
           interval |-> Get(c, "middleware.circuit_breaker.interval"),
           timeout |-> Get(c, "middleware.circuit_breaker.timeout"),
           failure_ratio |-> Get(c, "middleware.circuit_breaker.failure_ratio"),
           min_requests |-> Get(c, "middleware.circuit_breaker.min_requests")]}

\* The server before it has routes, its filters from the outermost in.
Edge(c) ==
    [addr |-> Get(c, "server.http.addr"), timeout |-> Get(c, "server.http.timeout"),
     filters |-> (IF Get(c, "gateway.cors") THEN <<"cors">> ELSE <<>>)
                 \o (IF Get(c, "middleware.ratelimit.enabled") THEN <<"ratelimit">> ELSE <<>>),
     breaker |-> breakerSettings(c)]

Complete(route) == route.path_prefix # "" /\ route.service # ""

RoutesComplete(c) ==
    LET routes == Get(c, "gateway.routes") IN \A i \in DOMAIN routes : Complete(routes[i])

=============================================================================
