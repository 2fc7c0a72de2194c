# Verification of kratos-micro-layout

TLA+ models of the gateway and the shared packages of this repository, the TLC
runs that check them on small instances, and TLAPS proofs of the results that
hold for every instance. `PROJECT.json` is the index: which definition models
which source lines, which run checks which property, and which change to the
code each property would notice (the definitions commented "Mutant").

Run a model with `tlc -config X.cfg M`, check proofs with `tlapm MProofs.tla`.

## Inventory

The repository is a template for a Go microservice system on kratos v3: an HTTP
gateway (`app/gateway`), the packages every service shares (`pkg/`), the
generated API of the user service (`api/user/v1`). The user service itself
(`app/user_center`) is a git submodule and not part of the tree.

| Component | Source | State | Operations | What makes it correct | Status |
|---|---|---|---|---|---|
| Snowflake ids | `pkg/snowflake`, `pkg/idgen` | mutex, last-issued millisecond, sequence | NewNode, Generate | ids unique in the cluster, growing per node, decodable; no call stuck | modelled, proved |
| Config watcher | `pkg/nacos/source.go` | one-slot channel, `listening`, `stop` | Load, Watch, Next, OnChange, Stop | the last published config is eventually in use; Stop ends Next | modelled, proved in part |
| Gateway process | `app/gateway/cmd/gateway/main.go` | merged config, what was built from it, deferred calls | loadConfig, main, deferred calls | what serves was built from one Bootstrap; remote values win over local ones; every exit cleans up, in order | modelled, proved but for liveness |
| Configuration schema | `.../conf/v1/gateway.proto`, `gateway.pb.go` | none | getters | an absent section behaves as its zero values | modelled |
| Nacos clients | `pkg/nacos/nacos.go` | none | options, address parsing, NewRegistry, Registrar | addresses parsed or refused | modelled as `main` uses them; no caller of Registrar |
| Upstream | `.../proxy/upstream.go` | node list, watcher, context | NewUpstream, Select, loop, apply, Close | the node list follows the registry; Close ends the loop | modelled |
| Gateway server | `.../server/server.go` | upstreams opened so far | New, cleanup | nothing stays open when a later route fails | modelled, proved |
| Proxy handler, breaker | `.../proxy/handler.go` | a gobreaker per route, status per request | ServeHTTP, forward, errorHandler, director | calls accounted for once; a sick backend shed, a healthy one used again | modelled but for path rewriting, proved but for liveness |
| Envelope | `pkg/middleware/codec.go` | none | decode, encode, errors | a caller can tell success from failure | modelled |
| Edge filters | `server.go`, `pkg/middleware/ratelimit.go` | token bucket | CORS filter, rate-limit filter | burst + qps * t admissions in any window, no fewer; a 429 is readable | modelled, proved |
| JWT and bearer auth | `pkg/jwt/jwt.go`, `pkg/middleware/auth.go` | secret, lifetimes | Generate, Parse, TokenAuth | a token is good for its lifetime, no more and no less, at every service with the secret | modelled, proved |
| Service middleware | `pkg/middleware/{logging,validate,auth,ratelimit}.go` | none across requests | log, authenticate, validate | the same answer on both transports, and the log line that goes with it | modelled, proved |
| Generated API | `api/user/v1` | none | clients, routes, descriptors, request rules | clients and servers meet; requests are validated alike | requests modelled, replies opaque |
| API docs | `pkg/docs` | the spliced document | Register, handleSpec | each key once, the reader's own origin, all else as generated | modelled, proved |
| Logging | `pkg/log` | writer, mutex, attributes of derived handlers | New, Handle, WithAttrs, WithGroup | lines do not mix; a handler's attributes are its own and keep their group | modelled, proved |
| User service | `app/user_center` | | | | a submodule, not in the tree |

### How the components interact

`main` loads the local files, then the config center through the config watcher,
scans the merged config once, and builds logger, registry client and server from
it; each source of that config goes on being watched and merged. `server.New`
opens one upstream per route; each primes its node list from the Nacos registry
and follows it in a goroutine. A request passes the CORS filter, the rate
limiter, and the handler of its route: the handler's circuit breaker admits or
sheds it, the upstream's selector picks a node, and the reverse proxy forwards
it. On a stop signal, the deferred calls close upstreams, log and config, in
that order.

The backend, if it is a service of this repository, is bound by the generated
handlers, goes through recovery, logging, rate limit, authentication and
validation, and answers with the envelope of `codec.go` or a gRPC status; the
gateway's breaker judges it by its HTTP status. Its documentation is served
beside that chain. Services draw ids from snowflake, log through one handler and
those derived from it, and share a secret, by which each accepts the tokens any
of them has minted.

### What is hard

* Clocks: snowflake depends on a wall clock that can be set back while calls
  wait for it and while the process is down; tokens are dated by one clock and
  judged by another.
* A callback of the SDK, a loop and a Stop meet in the config watcher over a
  channel of one slot and a flag.
* The registry changes between lookup, subscription and every delivery; a
  watcher fails while the server runs, or a later route fails while it starts.
* Results reach a breaker after it has changed state; calls end by an answer, a
  failed connection, a client that goes away, or a panic.
* The start of the process can fail at every step, between resources that must
  be closed in an order; meanwhile the config loop already runs.
* Log handlers share a slice's array with the handlers they were derived from,
  and a mutex with all of them.
* One chain serves two transports that bind, encode and report errors in ways of
  their own; some outcomes never reach a layer that ought to see them.
* Limits at their boundary: sequence and timestamp fields, the probes of a
  half-open breaker, its minimum sample, the token bucket.

## Modules

| Module | Models | Composes / used by |
|---|---|---|
| `UniqueIds` | abstract: identifiers new in the cluster, growing per instance | implemented by `Snowflake` |
| `Snowflake` | nodes, goroutines, clocks, crashes | `MCSnowflake`, `SnowflakeProofs` |
| `ConfigWatcher` | watcher, SDK, config loop, Stop | `GatewayProcessProofs`, extended by `GatewayProcess` |
| `GatewayConf` | the schema, its defaults, and what is built from a configuration, as functions | extended by `GatewayProcess` |
| `GatewayProcess` | the life of the process, with the config watcher running beside it | extends both; `MCGatewayProcess`, `GatewayProcessProofs` |
| `Upstream` | one upstream per route over a changing registry | extended by `GatewayServer` |
| `GatewayServer` | `New`, serving, cleanup | `MCGatewayServer`, `GatewayServerProofs` |
| `Breaker` | one gobreaker with this gateway's settings, as functions | extended by `ProxyHandler` |
| `Envelope` | the envelope and the status it travels under | extended by `ProxyHandler` and `Service` |
| `ProxyHandler` | concurrent requests through handlers and breakers | `MCProxyHandler`, `ProxyHandlerProofs` |
| `EdgeFilters` | CORS around the token bucket | `MCEdgeFilters`, `GatewayServerProofs` |
| `Tokens` | access and refresh tokens between services | `MCTokens`, `TokensProofs` |
| `LogHandler` | derived handlers, goroutines, one writer | `MCLogHandler`, `LogHandlerProofs` |
| `UserApi` | operations, addresses, messages and rules of the generated API | extended by `Service` |
| `ApiDocs` | the splicing of documents, as functions | extended by `Service` |
| `SequenceFacts` | no code: lemmas about `FlattenSeq`, maps and parts of sequences, by induction | `LogHandlerProofs`, `ServiceProofs` |
| `ServiceApi` | abstract: one answer and its log line, by the first thing wrong | implemented by `Service` |
| `Service` | one request over both transports through the chain; the documentation | `MCService`, `ServiceProofs` |

### Snowflake

State: per instance `clock`, `time` and `step` (the fields of `Node`), `mu`
(holder of the mutex), `up`; per goroutine `pc`, which says where its `Generate`
call is. `Generate`, `RefuseDrift` and `BeginDriftWait` are what a call does on
getting the mutex, split by the first reading of the clock; everything up to the
next spin or return runs under the mutex and is one step. `EndDriftWait` and
`EndExhaustedWait` are the exits of the two spin loops, which hold the mutex
while the clock moves. `NewNode` is the construction, refusing a node id out of
range. The environment ticks, sets clocks either way (`SetClock`), and crashes
processes, which forget `time` and `step`. `Pack` is the shift-and-or layout
as arithmetic, with the int64 wrap when the timestamp outgrows its field.
`issued`, `count` and `floor` are history.

Assumed: configured node ids are distinct; a process takes more than a
millisecond to come back; the shared epoch. `SteppedWhileDown` says whether a
clock may be set back behind a restart.

### ConfigWatcher, GatewayConf and GatewayProcess

`CallNext` is `Next` up to `ListenConfig` (with the flag set), `ListenSucceeds`
and `ListenFails` its outcome, `NextReturns` and `NextCanceled` the cases of the
`select`, `Apply` the merge, `Retry` the loop's pause after an error. `OnChange`
is the SDK's callback with its three-way select: with the channel free and
`stop` closed, either ready case may be taken. `Stop` and `CancelListener` are
the two halves of `Stop`, which holds no lock. Versions of the document are
numbered; `Blank` ones are white space, which neither `Load` nor `Next` lets
shadow what is in use.

`GatewayConf` takes a configuration as a function from the fields that are set;
`Get` is the getters. Settings the code trims or lower-cases (output, format,
level, file path, group) are a word and whether it is spelled exactly so, since
some code paths normalise a setting and others do not: `Refuses` trims a file path
before it asks whether it is blank (log.go:104), `Writer` hands it to lumberjack as
it is written (log.go:85). `Refuses`, `LogNew`,
`NacosOptions`, `Parses`, `Edge` and `RoutesComplete` are what the constructors
make of it.

`GatewayProcess` is `main`, by `stage`. `ReadLocal`, `Append2`, `LoadLocal`,
`LoadRemote` and `Scan` are the phases of `loadConfig`; `values` is the kratos
config, to which `Apply` goes on merging while `main` proceeds, and `bc` the
Bootstrap scanned from it. `Load` starts a watcher for every source it merges, so
the local file (`local`) has one too: `EditLocal` is whoever edits the file, at any
time, and `ApplyLocal` its watcher, which reads the whole file again and merges it
over whatever is there, remote values included. The env source only fills the
`${...}` of the file (configs/gateway.yaml:8-13) and cannot change in a running
process, so file and env are one source. An edit between the file's `Load` and the
start of its watcher, which would go unnoticed until the next one, and one while
the loop holds what it has read before, are not modelled.
`NewLogger`, `Discover` and `NewServer` build from `bc`, each with its failure;
`NoRegistry` is `os.Exit`, without the deferred calls. `deferred` is the stack of
deferred calls that `CleanupServer`, `CleanupLog` and `CloseConfig` pop, the last
running the two halves of `Stop`; `open`, `boot`, `overlaid`, `shadowed` and `ending`
are history. `overlaid` has the fields merged from the file since a version set
them, `shadowed` those of them at `Scan`: they are what `RemoteWins` excepts.

### Upstream and GatewayServer

`Prime`, `WatchSucceeds` and `WatchFails` are `NewUpstream`; `NextShows`,
`Apply` and `NextFails` the loop; `Close` cancels. `GatewayServer` opens routes
in order (`OpenRoute`), refuses an incomplete one when its turn comes
(`RefuseRoute`), serves, and closes (`Cleanup`), the loops and the registry
running all the time. Which routes are incomplete is chosen at the start.

### Breaker, Envelope and ProxyHandler

A request is cut where others can come between: `Enter` (or `Shed`),
`SelectNode` (or `NoNode`), then one of `Answer`, `Refused` (connection),
`Abandon` (the client), `Abort` (ReverseProxy's panic). `Leave` is the end of
gobreaker's `Execute` with what `forward` returned. `stale` marks calls
admitted in an older generation, which gobreaker does not count. Time enters
as `Expire`: the interval or timeout has passed, which gobreaker notices at the
next call. `seen` is history: what the backend really did in this generation,
apart from the status it put on it. `enveloped` says which backends are services
of this repository, whose failures arrive under 200 (`Envelope`); any choice of
them is an initial state. `Visible` counts what the breaker can know of either
kind.

### EdgeFilters

Time is cut in ticks and the bucket counted in fractions of a token, so the
arithmetic is exact. A request is answered in one step: `Preflight` by
`corsFilter`, `Admit` or `Reject` by the limiter, which `rate.Limiter` decides
under its own lock. `before` records how many requests had been admitted at the
start of each tick, so that the quota can be stated for every window of time.

### Tokens

A service has a wall clock of its own, off true time by at most `MaxOffset`, and
a secret. `Claims` is what `generate` signs, with the dates cut to seconds
(`Second` ticks each); `minted` and `clock` in a token are history.
`ParseToken` compares the secret and the dates and not the kind; `Verify` adds
the kind, as jwt.go:118-120 leaves to the caller. `Anonymous` and `Authenticate` are
the paths of `TokenAuth`, `Refresh` the use of a refresh token. `Rekey` is a
restart with another secret. `answer` holds the last outcome until anything
moves, so that the properties compare it with the state it was given in.

### LogHandler

A slice is a length and an array of `heap`, so that appending in place shows in
whoever shares the array. `WithAttrs` and `WithGroup` derive a handler from any
other; `Handle` renders, then `Lock`, `WriteFront`, `WriteRest` or `WriteFails`,
and the deferred `Unlock` are steps of their own: bytes of one line may reach a
pipe in two pieces. `appendColorAttr` and `writeColorAttr` are recursive
functions over attributes, as in the code; that attributes nest finitely, as Go's
values do, is the constant `Nesting`. `LinesFaithful` compares them with
`Promised`, which goes by the nesting of calls and groups alone. A derived
handler's `made` and the records in `logged` are history.

### UserApi, ApiDocs, ServiceApi and Service

`Send` takes a call from the generated client's address to the operation served
there. `BindQuery`, `BindBody` and `Decode` bind it; an error while binding is the
answer, and the chain does not see it. Each layer is an action on the way in and
one on the way out: `Enter`, `Limit`, `TokenAuth`, `Validator`; `Serve` is the
operation; `RequestLogger`, `Recover`, `Leave`. A panic passes the logger and
stops at `Recover`. `Answer` encodes the result, by `ErrorEncoder` or
`ResponseEncoder` over HTTP (an encoding that fails goes back to the former) and
by kratos' mapping to a gRPC status; `Receive` is the client. The order of the
layers is the constant `Chain`, README.md:241 without tracing, which changes
nothing here.

`UserApi` has the addresses of clients and servers side by side and the rules of
each request message as the set of fields that violate them. `ServiceApi` is the
promise, as the comments of `pkg/middleware` have it and not as the code does it:
the answer is a function of the first thing that is wrong, and one log line tells
it. Where the code does not keep its comments, `Service` names the cause and what
it does instead (`Deviations` for answers, `LogDeviations` for the log), and
`Implements` allows exactly these beside the promise: three answers and three
logs, each listed under the findings below. Without any one of the six,
`Implements` fails. `ApiDocs` splices documents as sequences of lines; `Mount` and
`HandleSpec` use it.

### External code

Modelled from how this repository uses it: gobreaker (generations, counts, a
panic counted as a failure), `httputil.ReverseProxy` (`ErrAbortHandler` when
copying the body fails, the error handler otherwise), `x/time/rate` (refill up
to the burst, a token when there is a whole one), the Nacos SDK (calls
`OnChange` in order, with the newest content), kratos' config loop (one caller
of `Next`, a pause after an error, ends on `context.Canceled`), the registry
watcher (shows the whole list when it differs; fails when its context is
canceled, and possibly before), `khttp.Filter` (appends), kratos' config (watches
each source from its Load on; what comes in overrides field by field, and what a
change no longer sets stays), its router, recovery and selector
middleware and its mapping of codes to gRPC statuses and back, grpc-go (a payload
it cannot unmarshal is Internal), protovalidate (checks the rules, fails when they
do not compile), log/slog (asks `Enabled` first; passes attributes on in order),
lumberjack (a default path of its own), golang-jwt (dates cut to seconds; valid
from `nbf`, before `exp`, no leeway). Where the external
code could do worse, the models take its better behaviour, so that violations
are the fault of this code.

## Runs

| Run | Expect | Instance | Shows |
|---|---|---|---|
| `snowflake_cluster` | pass | two instances and one with an id that does not fit; 2 ids each, one clock adjustment each | `Implements`: refinement of `UniqueIds`, hence ids unique in the cluster and growing per instance |
| `snowflake_threads` | pass | two goroutines on one node, 4 ids, 2 adjustments, clocks from before the epoch into the sign bit | `TypeOK`, `IInv`, `Unique`, `Decodes`, `CallsReturn` |
| `config_watcher` | pass | the process with 7 local files, 1 edit of the file, 4 versions of the data ID, one blank, 2 listen errors | `TypeOK`, `Converged`, `BuiltFromOne`, `CleanExit`, `RemoteWins`, `CurrentWhileUp`, `LoopEnds` |
| `config_drop` | violation | the watcher alone, no listen errors | `EventuallyCurrent` |
| `process_hot_reload` | violation | the process, 1 publication, no edits, no listen errors | `HotReloads` |
| `gateway_routes` | pass | 2 routes to one service, 2 instances, one endpoint malformed, 2 registry changes, 2 lookup and 1 watcher failures | `ServerTypeOK`, `NothingLeftOpen`, `LoopsEnd`, `FreshWhileLooping` |
| `gateway_watch_error` | violation | one watcher failure | `KeepsFresh` |
| `proxy_breaker` | pass | 3 requests, 3 faults, plain and enveloped backends | `TypeOK`, `CountsMatch`, `ProbesProceed`, `GapsDoNotTrip`, `FailureTrips`, `Recovers` |
| `edge_filters` | pass | burst 2, 1.5 tokens a tick, 5 ticks, two origins | `TypeOK`, `Quota`, `RejectionJustified`, `RejectionReadable` |
| `tokens` | pass | 2 services, 2 secrets, 2 ticks a second, lifetimes of 7 and 9 ticks, clocks off by 1 | `TypeOK`, `NeverOutlived`, `WorksMeanwhile`, `ExpiresInHonoured` |
| `log` | pass | 3 handlers, 2 goroutines, 2 records, nested, inlined and empty groups | `TypeOK`, `WholeLines`, `LinesFaithful`, `CallsEnd` |
| `service` | pass | 7 operations, over HTTP and gRPC at once, each request with one or two things wrong; 4 documents, 3 readers | `TypeOK`, `Implements`, `Agree`, `IdentityFirst`, `SpecSound` |

### Bounds

* Snowflake: fields of two values each make the sequence wrap on the second id of
  a millisecond, the timestamp reach the sign bit (`TimeSpan = 2`,
  `MaxClock = 3`) and one id in excess collide with a neighbour. Two goroutines
  suffice for one spinning and one waiting. Four ids and two adjustments reach
  every branch and a second set-back during a wait. The bounds `MaxClock`,
  `MaxAdjust` and `MaxIds` are in the guards of `Tick`, `SetClock`, `Call`. The
  proofs take them all away but `MaxClock < 2 * TimeSpan`, some 139 years.
* ConfigWatcher: three publications (`MaxVersion`) are one in use, one queued and
  one dropped; one of them is blank. Two failures of ListenConfig
  (`MaxListenErrors`): one on the first call, and one that must not happen
  because the flag is set.
* GatewayProcess: a local file that is complete, and one each that lacks the
  address, mistypes it, has an incomplete route, logs to a file, or to a file
  without a path in two spellings; versions that set the routes, direct the log
  to a file, are blank, and lose the address and blank the path. Together they make
  every step of the start succeed and fail for a reason in the configuration. One
  edit (`MaxEdits`) of the file takes fields back that two versions set, at every
  point before, between and after them; the proofs have no such bound.
* GatewayServer: two routes are one open when the other fails; two changes and
  one failure put a change between any two steps of an upstream.
* ProxyHandler: a half-open breaker with two probes needs three requests to shed
  one; the minimum sample of 2 with the default ratio of 3/5 trips on two failures or on 2
  of 3, and not on 1 of 2. `MaxCount` bounds what a generation counts (in
  `Enter`), `MaxFaults` how often backends, clients and connections get worse.
* EdgeFilters: a burst smaller than one tick's refill and a bucket larger,
  fractions of a token, and enough ticks to fill the bucket after emptying it.
* Tokens: they share no state, so one at a time (`MaxTokens`) shows what any of
  them does; the proofs have no such bound. The lifetimes are no whole number
  of seconds and exceed the second and the clocks' error (`4 * MaxOffset`), so
  the times at which a token must be accepted are not empty; `MaxTime` is past
  the longer one. One adjustment takes a clock from one extreme to the other
  between minting and parsing.

* LogHandler: three handlers are a parent and two siblings, or a chain of three, so
  a shared array has a second writer and a group a later one; two goroutines and
  two records put one line in the middle of another (`MaxHandlers`, `MaxLines`).
* Service: requests do not share state but for the limiter, which turns any of
  them away at will; so one request at a time shows what any of them does. It
  comes with each thing wrong that the chain tells apart, alone and together
  with a missing token, and with each rule of its message broken at its boundary.
  The documents are those with and without a list of servers, of one and of two, and
  with and without components, and none; `ServiceAssumption` has TLC check that
  each is a `Document`.

Every bound ends somewhere, so deadlock checking is off where a model simply
runs out of publications, changes, ticks, records or identifiers, or where the
program or the call ends (`CHECK_DEADLOCK FALSE`); it is on for the proxy, which never stops.

### Fairness

* Snowflake: clocks tick, a spinning goroutine is scheduled, and `sync.Mutex`
  hands itself to the longest waiter in starvation mode (strong fairness of
  entering). `CallsReturn` excuses a call only when the model's clock has run out.
* ConfigWatcher: the SDK polls, the loop's goroutine runs, a started `Stop`
  finishes. A select with both cases ready picks at random, so the stop case is
  strongly fair. Nobody has to publish or to stop.
* GatewayProcess: the same for the watcher, and `main` starts up and runs its
  deferred calls. Nobody has to stop the process; and `MainReturns` is not fair,
  on purpose: were it, the process might be gone before the loop has ended, and
  `LoopEnds` would show nothing. Nobody has to edit the file, and no property
  waits for its watcher.
* GatewayServer: construction, cleanup and loops run; a canceled watcher's `Next`
  fails even if the registry keeps changing (strong). Nobody has to stop the
  server, and the registry need not change.
* ProxyHandler: clocks run, requests keep coming on every route, and every call
  ends, since the server's timeout cancels it at the latest. Nothing obliges
  backends to recover: `Recovers` has that as its premise.
* LogHandler: a goroutine gets the mutex when it keeps finding it free (strong:
  `sync.Mutex` hands itself over after a millisecond), and writes return, with or
  without success. Nobody has to log.

## Findings

Each is a violation run; the quotation of the code's own words is in
`PROJECT.json`.

1. `config_drop`: the newer of two notifications is dropped, and nothing
   delivers it later.
2. `process_hot_reload`: the config is scanned once and no observer is
   registered; a publication changes nothing in a serving gateway.
3. `gateway_watch_error`: any watcher error ends the loop for ever, and the
   route goes on with its last node list.

Met while modelling, without a run of their own:

* The last-issued millisecond does not survive a restart, so ids repeat when the
  clock is set back while the process is down: with `SteppedWhileDown = TRUE` in
  `snowflake_threads.cfg`, `IInv` holds and `Unique`, still listed, fails.
  snowflake.go:169 says Generate returns the next unique id.
* A failed `ListenConfig` leaves `listening` set; the retried `Next` waits with no
  listener (`CurrentWhileUp` makes this exception explicit).
* `Stop` during the registration cancels a listener that is registered
  afterwards, and stays.
* A client that goes away, like any failed round trip, is recorded as 502 and
  counts against the backend, while handler.go:124 says only a backend 5xx does.
* A discovery gap counts as a successful probe of a half-open breaker.
* A failure ratio above one is accepted, and such a breaker never opens from
  closed: handler.go:104-107 replaces only what is not positive.
* gateway.proto:140 says one breaker per backend service, README.md:633 one per
  route. The code has one per route.
* The drift of the clock is measured once (snowflake.go:182-190): a second
  set-back during the spin makes the call hold the mutex for as long as that
  set-back, beyond the tolerance of snowflake.go:94-97 and 185-186.
* gateway.proto:140-142 and README.md:583 have the breaker open on a backend that
  keeps answering 5xx. handler.go:218 reads HTTP statuses, and services of this
  repository put every failure under 200 (codec.go:150): only failed connections
  can open their circuit. `Visible` in `ProxyHandler` says so.
* main.go:67 and configs/gateway.yaml:6 say remote values override local ones. An
  edit of the local file while the gateway runs is merged over them by the watcher
  that `c.Load` starts for the file (main.go:71, 103-104), and the fields it sets
  stay local until a version sets them again (`RemoteWins` excepts these, in
  `overlaid`, and no others).
* log.go:104 trims the file path to see whether it is blank, and log.go:85 uses it
  untrimmed: " gateway.log " is a file of that name (`BuiltFromOne`).
* auth.go:48-49 says a verification error is answered with `unauthorizedErr`; line
  62 returns the verifier's error, so an expired token is its `AUTH_TOKEN_EXPIRED`
  and an error that is no kratos error a 500 (both in `Deviations`).
* auth.go:32-34: `BearerFrom` returns any other header as it is, trimmed.
* The envelope carries no reason, so only gRPC clients learn which 401 they got.
  Generated HTTP clients see failures under status 200 as success (`Agree`).
* README.md documents the reason as `AUTH_UNAUTHORIZED` where the generated enum
  has `ERROR_REASON_AUTH_UNAUTHORIZED`.
* logging.go:13-16 promises one line per RPC that tracks the outcome. A request that
  does not decode, or whose handler panics, leaves none, and a reply that cannot be
  encoded has been logged as a success (`LogDeviations`).
* A malformed body is a 400 over HTTP and a 500 over gRPC.
* `os.Exit(1)` (main.go:142) skips the deferred calls, and `loadConfig` leaves the
  config open when its last `Scan` fails; both ends of the process are outside
  `CleanExit`.
* `apply` may still log after the log is closed, since `Close` does not wait for
  the loop; lumberjack then opens the file again.
* nacos.go reads a port with `Sscanf("%d")`, which accepts what follows the digits.
* README.md:578 promises a match of path prefixes, and both the router and the
  director go by the text of the path: a route for /api/user takes /api/users.
* jwt.go:105 cuts the expiry to seconds, so a token lives up to a second less
  than `AccessTokenTTL` says, and is refused before `nbf` by a service whose
  clock is behind: the two ends of `WorksMeanwhile`.
* validate.go:31-32 says an internal failure of protovalidate is passed through
  to surface as a 500; `Validator` (89-90) turns it into a 400 (`Deviations`).

## Proofs

| Theorem | Statement | Argument |
|---|---|---|
| `SnowflakeProofs!Invariance` | `Spec => []IInv` | below |
| `SnowflakeProofs!TypeCorrect` | `Spec => []TypeOK` | part of `IInv` |
| `SnowflakeProofs!UniqueHolds` | `~SteppedWhileDown => (Spec => []Unique)` | `Pack` is injective on legal fields (`PackInjective`); ids of one node differ in their stamp, of two in the node field |
| `SnowflakeProofs!DecodesHolds` | `Spec => []Decodes` | division and remainder of the mixed-radix sum |
| `SnowflakeProofs!Implementation` | `Spec` implements `UniqueIds`, while `MaxClock < TimeSpan` | `PackOrder`: a later stamp of a node packs to a larger id |
| `GatewayProcessProofs!TypeCorrect` | `Spec => []TypeOK` | |
| `GatewayProcessProofs!ConvergedHolds` | `Spec => []Converged` | from `InFlight` |
| `GatewayServerProofs!Invariance` | `Spec => []IInv` | below |
| `GatewayServerProofs!TypeCorrect`, `QuotaHolds`, `RejectionJustifiedHolds` | `Spec => []TypeOK`, `[]Quota`, `[]RejectionJustified` | from `IInv` |
| `GatewayServerProofs!RejectionReadableHolds` | `Spec => []RejectionReadable` | inductive by itself |
| `TokensProofs!Invariance` | `Spec => []IInv` | below |
| `TokensProofs!TypeCorrect`, `NeverOutlivedHolds`, `WorksMeanwhileHolds`, `ExpiresInHonouredHolds` | `Spec => []` of each | from `IInv` |
| `GatewayProcessProofs!ProcessInvariance` | `ProcessSpec => []ProcessInv` | below |
| `GatewayProcessProofs!ProcessConverged` | `ProcessSpec => [](TypeOK /\ Converged)` | every step of the process is a step of the watcher or leaves it alone (`WatcherView`) |
| `GatewayProcessProofs!BuiltFromOneHolds`, `CleanExitHolds`, `RemoteWinsHolds` | `ProcessSpec => []` of each | from `Accepted`, `Stacked`, `Layered` |
| `GatewayServerProofs!ServerTypeCorrect`, `NothingLeftOpenHolds` | `ServerSpec => []ServerTypeOK`, `[]NothingLeftOpen` | from `ServerInv` |
| `ProxyHandlerProofs!HandlerInvariance` | `Spec => []HandlerInv` | below |
| `ProxyHandlerProofs!HandlerTypeCorrect`, `CountsMatchHolds`, `ProbesProceedHolds`, `GapsDoNotTripHolds` | `Spec => []` of each | from `HandlerInv` |
| `ProxyHandlerProofs!FailureTripsHolds` | `Spec => []FailureTrips`, while `RatioNum <= RatioDen` | from `HandlerInv` |
| `LogHandlerProofs!WholeLinesHolds` | `Spec => []WholeLines` | from `LogInv` |
| `LogHandlerProofs!RenderInvariance` | `Spec => []RenderInv` | below |
| `LogHandlerProofs!LinesFaithfulHolds`, `TypeCorrect` | `Spec => []LinesFaithful`, `[]TypeOK` | from `RenderInv` |
| `LogHandlerProofs!MutexReleased` | `Spec => []Owned` | a locked mutex is held by a call that is under way |
| `ServiceProofs!TypeCorrect` | `Spec => []TypeOK` | from `TravelInv`, for any chain |
| `ServiceProofs!IdentityFirstHolds` | `AuthFirst => (Spec => []IdentityFirst)` | from `TravelInv` |
| `ServiceProofs!AgreeHolds` | `Ordered => (Spec => []Agree)` | from `TellInv`; `OneCause` |
| `ServiceProofs!Implementation` | `Ordered => (Spec => Implements)`: refinement of `ServiceApi` | from `TellInv`, below |
| `ServiceProofs!DocumentSound` | `Sound` of what is served, for every `Document` and reader | below |
| `ServiceProofs!SpecSoundHolds` | `Spec => []SpecSound` | from `DocsInv` and `DocumentSound` |

**Snowflake.** `Unique` is not inductive: a new id must be compared with what the
node will stamp next, not only with what it has stamped. `IInv` says that
everything an instance has handed out lies at or before its current `(time,
step)`, or before the crash that lost them (`Behind`), that a spinning goroutine
holds the mutex (`LockHeld`), so that no other moves `time` under it, and
that the clock of a running instance is past everything an earlier incarnation
has used (`ClockPastFloor`). While a goroutine waits out an exhausted sequence,
`step` is already 0 and the comparison of steps is void; the mutex is what
keeps others away. Then a stamp is always fresh (`FreshStamp`).

**ConfigWatcher.** `Converged` speaks of quiet states only. `InFlight` says where
the newest version is in all the others: in the channel, in the hands of `Next`,
or in use. A drop is the only step that breaks it, and `dropped` records it.

**EdgeFilters.** The quota of a window is not inductive without the bucket: what a window
has used and what is left in the bucket together stay within the window's grant
(`BucketWithin`), and for one window they make up all of it (`BucketExact`):
the one that began when the bucket was last full, or the whole run. The first
gives `Quota`, because the bucket is never overdrawn; the second
`RejectionJustified`, because a bucket without a whole token leaves that window
no room for one.

**Tokens.** `IInv` says what the dates of every token in the world are
(`WellMinted`), how far its issuer's clock was off, and that the last answer is
still what the service would say (`Current`). The bounds follow by adding up
two clock errors and at most one second lost in cutting (`Cut`); that a date
already cut stays as it is (`CutTwice`) needs `Second * q` to divide back
exactly, which takes an argument of its own, `Second` being a constant.

**GatewayProcess.** `CleanExit` says nothing of what is deferred, and so is not
inductive. `Stacked` says, stage by stage, that the stack of deferred calls holds
exactly what is open, in the order in which it was opened; unwinding pops it.
`Layered` says that the config and the Bootstrap scanned from it hold the values
of one version, but for the fields the file has set since (`Overridden`). A version
that arrives between Load and Scan, or later, keeps it, since `Merged` overrides
field by field and takes its fields out of `overlaid` (`MergedOverrides`, where a
blank version sets nothing); so does an edit of the file, which adds the fields it
sets (`EditedOverrides`). `Accepted` says, stage by stage, what has been built and
that it was built from `bc`, and that `bc` has no log without a path, because `bc` is
scanned once. The watcher's
own `IInv` is used as it stands: the process only adds steps that stutter for it.

**GatewayServer.** Everything that was opened is in the list New closes (`Kept`),
the one whose Watch failed has been canceled already (`FailedCanceled`), and
cleanup returns when the whole list is (`Cleaned`).

**ProxyHandler.** `Accounted` is the account of one breaker: its requests are its
results and the calls of its generation still in flight; its failures are those
of the backend that can be seen; a half-open one has no failure, and fewer
successes than close it; an open one has counted nothing. Calls of an older
generation are `stale`, so a new generation starts with none in flight
(`EnterPending`, `LeavePending`), whatever is on its way. The lemmas about the
breaker alone (`AdmittedAccount`, `ToldAccount`) are arithmetic; those about calls
in flight are about cardinalities; `EnterInv` and `LeaveInv` join them.
`FailureTrips` needs a configured ratio of at most one, as handler.go:56
documents and nothing checks.

**LogHandler.** Every derived handler has the first one's mutex (`OneMutex`), so at
most one goroutine is between `Lock` and `Unlock` (`Exclusive`). Every call writes a
line of its own (`OwnLine`); nothing of it is out before its turn, and while it is
half out it is the last thing in the output (`Written`).

`LinesFaithful` is about lines that are out; `RenderInv` says what was true before.
Every handler's slice is all of an array that nobody writes to again, and what the
array renders to, with no group, is what the handler's history gives (`Faithful`);
a call carries a line that is right (`Texts`), and no piece goes out twice
(`Pieces`), which bounds the output. What keeps `Faithful` when a handler is derived
is a fact about data alone: to qualify an attribute by the group of the moment,
store it flat and write it later with no group comes to the same pairs as to write it
under that group at once, and both to its leaves put under that group (`Right`).
It is proved of attributes nested to any depth (`AllRight`), of lists of them
(`ListsRight`) and of whole histories (`GivenAppend`, `OpenedAppend`). The library's
induction theorems take an operator, which the provers cannot instantiate; a
predicate can as well be a set. `Least`, in `SequenceFacts`, takes from the library
that a set of numbers has a least one, and `Induct`, `SeqInduct` and, along the
nesting, `NestInduct` follow from it. `FollowsExists` then builds a function along the nesting, so that the recursive
functions of the model are known to satisfy their own equations (`AppendIs`,
`WriteIs`, `LeavesIs`), and `FlatOfIs` of
`SequenceFacts` does it for `FlattenSeq`.

**Service.** A chain is any sequence of layers, and the theorems say what they need of
its order: `AuthFirst`, that auth is outside of every validate; `Ordered`, README.md:241
(`MCService` has TLC check it of the chain of the run). `Traveling` holds of a call in
any chain: its message is the decoded one, and it is past an auth layer only if it may
be. Nothing in the properties says what a result on its way out is due to, so `Told`
does: at every depth the result is what one `cause` out of `Causes` makes of it
(`Made`), `Recovered` outside of the recovery layer, and the log is empty inside of the
logging layer and outside what `Noted` says. `AnswerOf` and `Noted` are the promise but
for the deviations, and `ServiceApi` allows both (`Allowed`). `FoundIsCause` is where the order of the chain
is used: whichever layer refuses, nothing before it would have, so what it found is
the first thing wrong; and it is inside of logging and recovery. `Outgoing`,
`EnvelopeArrives` and `StatusArrives` take a result over the wire, cause by cause, and
`OneCause` says that a well-formed request has, but for a limit, one cause on both
transports. The receipt of an answer is then `ServiceApi`'s step, and all others
stutter (`ReceivedAnswers`, `UnansweredStutters`).

**ApiDocs.** What is mounted and what was read last are functions of the embedded
document (`DocsInv`), so `SpecSound` is a fact about these functions for documents
of any length. A document falls into five parts: what is before, between and behind the
openapi line and the components line, if there is one (`Parts`). The other lines are
`Ordinary`, and splicing leaves them alone; with a components line or without, the
result is the same `Spliced` (`SplicedIs`), since a document that the first block went into
has become longer. `handleSpec` treats parts one by one where no list of servers
is cut (`Apart`, `HandleConcat`): the blocks stay as they are (`BlocksServed`), the rest of
the lines can only show the reader's origin as a url (`HandleShown`) and loses nothing
but urls (`HandleRest`). So the three lines of either block are where `FiveLaid` says, and
`Sound` can be read off (`LaidSound`). What this assumes of the generator is `Document`: one
openapi key, before a components key that is there once at most; no security scheme
yet; and urls in the one list of servers only. A url key anywhere else would
be left as it is, and a server under a path too, as `serversBlock` is anchored at the
first column.

Only model-checked: all liveness (`CallsReturn`, `CurrentWhileUp`, `LoopEnds`,
`LoopsEnd`, `FreshWhileLooping`, `Recovers`, `CallsEnd`), which is beyond the
prover. Every invariant and both refinements are theorems too; what the runs add is
that the models do reach the states these are about.

## Not modelled

* `app/user_center`: a submodule that is not part of the tree.
* Text: the encodings of an id (base 32, 36, 58, 64), path prefixes and their
  rewriting, colours, time stamps and quoting in log lines, the wording of errors.
  They are functions of one string, without state.
* `NewNodeFromHostname` and the panicking `Must` constructors, `Registrar`, which has
  no caller in the tree, and the BBR limiter of services, which is kratos'.
* Reply messages, the values of access-control headers, the Swagger UI.

## Plan

Done, in this order: Snowflake with its abstract specification and proofs; the
config watcher; upstreams and server; handler and breaker; edge filters; tokens;
the whole process with its configuration; log; service, API and documentation; proofs
of the process, the server, the handler, the log, the service with its refinement of
`ServiceApi`, and the documents.

Next:

1. *Prove.* The safety halves of the liveness properties: that an upstream whose loop
   has nothing left to do has the registry's nodes, and that a snowflake call waits
   only for a mutex somebody holds.
2. *Extend.* `Upstream` composed with `ProxyHandler`, so that an empty node list is
   the registry's doing, and two routes to one service; the choice of a route by
   prefix.
3. *Abstract specifications.* A config register that only moves forward for
   `ConfigWatcher`; a windowed quota for `EdgeFilters`.

Runs planned for these take the place of the simpler ones they subsume.
