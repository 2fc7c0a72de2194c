--------------------------- MODULE GatewayProcess ---------------------------
(***************************************************************************)
(* app/gateway/cmd/gateway/main.go: the life of the gateway process.       *)
(* loadConfig reads the local sources to learn where Nacos is, then loads  *)
(* local and remote together, which starts a watcher of the local file and *)
(* the config loop of ConfigWatcher, and scans the result once into bc;    *)
(* logger, discovery and server are built from bc; what was built is       *)
(* cleaned up by deferred calls, last first, when main returns or panics.  *)
(* Composes ConfigWatcher with GatewayConf.                                *)
(***************************************************************************)
EXTENDS ConfigWatcher, GatewayConf, FiniteSets

CONSTANTS
    LocalConf,    \* what the local sources may hold when the process starts
    EditedConf,   \* what an edit may make of them
    MaxEdits,     \* bounds the edits of the local file
    RemoteConf    \* [Version -> the fields that version of the data ID sets]

ASSUME ProcessAssumption ==
    /\ MaxEdits \in Nat
    /\ \A v \in Version : v \in Blank => DOMAIN RemoteConf[v] = {}

VARIABLES
    local,     \* what the local sources hold: the file, its ${...} filled in from env
    edits,     \* how often the file was edited
    reread,    \* has the file's watcher seen an edit that is not merged yet?
    overlaid,  \* history: the fields merged from the file since a version set them
    stage,     \* "start", "local", "load", "loading", "loaded", "logger", "discovery",
               \* "server", "serving", "unwinding", "exited"
    remote,    \* is the Nacos source among the sources?
    values,    \* what the kratos config holds: local and remote merged
    bc,        \* the Bootstrap scanned
    boot,      \* history: the version of the data ID it was scanned from
    shadowed,  \* history: overlaid as of that Scan
    built,     \* what was built from it: logger, nacos options, edge
    deferred,  \* the deferred calls, first to last
    open,      \* history: what is open of "config", "log" and "server"
    ending     \* history: how the process ends

sources == <<local, edits, reread, overlaid>>
scanned == <<bc, boot, shadowed>>
made == <<remote, values, scanned, built>>
processVars == <<vars, sources, stage, made, deferred, open, ending>>

ProcessInit ==
    /\ Init
    /\ local \in LocalConf /\ edits = 0 /\ reread = FALSE /\ overlaid = {}
    /\ stage = "start"
    /\ remote = FALSE
    /\ values = <<>> /\ bc = <<>> /\ boot = Local /\ shadowed = {} /\ built = <<>>
    /\ deferred = <<>> /\ open = {}
    /\ ending = "none"

Moves(from, to) == stage = from /\ stage' = to

\* A panic before anything was deferred.
DieLoading(from) ==
    /\ Moves(from, "exited")
    /\ ending' = "load failed"
    /\ UNCHANGED <<vars, sources, made, deferred, open>>

-----------------------------------------------------------------------------
(* loadConfig.                                                             *)

\* Phase 1: load and scan the local sources, and close them.
ReadLocal ==
    /\ Moves("start", "local")
    /\ bc' = local
    /\ UNCHANGED <<vars, sources, remote, values, boot, shadowed, built, deferred, open, ending>>

\* Phase 2: the Nacos source is appended when the address is set.
Append2 ==
    /\ Moves("local", "load")
    /\ Parses(Get(bc, "registry.address"))
    /\ remote' = (Get(bc, "registry.address") # <<>>)
    /\ UNCHANGED <<vars, sources, values, scanned, built, deferred, open, ending>>

\* What comes in overrides field by field; what it does not set stays.
Over(new, current) ==
    [f \in DOMAIN new \cup DOMAIN current |->
        IF f \in DOMAIN new THEN new[f] ELSE current[f]]

\* Mutant: what was there before overrides what comes in.
MergedBeneath(v, current) == Over(current, RemoteConf[v])

Merged(v, current) == Over(RemoteConf[v], current)

\* c.Load takes the sources in their order: it merges one and starts its watcher,
\* then the next.  The variables of env can only change with the process.
LoadLocal ==
    /\ Moves("load", "loading")
    /\ values' = local /\ overlaid' = DOMAIN local
    /\ open' = {"config"}
    /\ UNCHANGED <<vars, local, edits, reread, remote, scanned, built, deferred, ending>>

LoadRemote ==
    /\ Moves("loading", "loaded")
    /\ IF remote /\ applied # Local
       THEN /\ values' = Merged(applied, values)
            /\ overlaid' = overlaid \ DOMAIN RemoteConf[applied]
       ELSE UNCHANGED <<values, overlaid>>
    /\ UNCHANGED <<vars, local, edits, reread, remote, scanned, built, deferred, open, ending>>

\* The second Scan, into a fresh Bootstrap; main defers c.Close.
Scan ==
    /\ Moves("loaded", "logger")
    /\ bc' = values
    /\ boot' = (IF remote THEN applied ELSE Local) /\ shadowed' = overlaid
    /\ deferred' = <<"config">>
    /\ UNCHANGED <<vars, sources, remote, values, built, open, ending>>

\* Load or Scan fails, the address does not parse or the client cannot be made:
\* loadConfig returns the error and leaves the config as it is, and main panics.
LoadFails == \E from \in {"start", "local", "load", "loading", "loaded"} : DieLoading(from)

-----------------------------------------------------------------------------
(* main.                                                                   *)

\* Something fails: main panics, and the deferred calls run.
Fail(from) ==
    /\ Moves(from, "unwinding")
    /\ ending' = "panic"
    /\ UNCHANGED <<vars, sources, made, deferred, open>>

NewLogger ==
    /\ Moves("logger", "discovery")
    /\ ~Refuses(LogOptions(bc))
    /\ built' = <<LogNew(LogOptions(bc))>>
    /\ deferred' = Append(deferred, "log") /\ open' = open \cup {"log"}
    /\ UNCHANGED <<vars, sources, remote, values, scanned, ending>>

LoggerFails == Refuses(LogOptions(bc)) /\ Fail("logger")

\* os.Exit(1) runs no deferred call.
NoRegistry ==
    /\ Get(bc, "registry.address") = <<>>
    /\ Moves("discovery", "exited")
    /\ ending' = "os.Exit"
    /\ UNCHANGED <<vars, sources, made, deferred, open>>

\* NewRegistry; NewNamingClient may fail for reasons of its own.
Discover ==
    /\ Get(bc, "registry.address") # <<>> /\ Parses(Get(bc, "registry.address"))
    /\ Moves("discovery", "server")
    /\ built' = Append(built, NacosOptions(bc))
    /\ UNCHANGED <<vars, sources, remote, values, scanned, deferred, open, ending>>

DiscoverFails == Get(bc, "registry.address") # <<>> /\ Fail("discovery")

\* Mutant: the server is cleaned up by the first call deferred, the last to run.
NewServerDeferredFirst ==
    /\ Moves("server", "serving")
    /\ RoutesComplete(bc)
    /\ built' = Append(built, Edge(bc))
    /\ deferred' = <<"server">> \o deferred /\ open' = open \cup {"server"}
    /\ UNCHANGED <<vars, sources, remote, values, scanned, ending>>

\* Mutant: the server is built from what the config holds by then.
NewServerFromLive ==
    /\ Moves("server", "serving")
    /\ RoutesComplete(bc)
    /\ built' = Append(built, Edge(values))
    /\ deferred' = Append(deferred, "server") /\ open' = open \cup {"server"}
    /\ UNCHANGED <<vars, sources, remote, values, scanned, ending>>

\* server.New, of which GatewayServer has the details; it cleans up after itself
\* when it fails.
NewServer ==
    /\ Moves("server", "serving")
    /\ RoutesComplete(bc)
    /\ built' = Append(built, Edge(bc))
    /\ deferred' = Append(deferred, "server") /\ open' = open \cup {"server"}
    /\ UNCHANGED <<vars, sources, remote, values, scanned, ending>>

ServerFails == Fail("server")

\* A signal ends app.Run, or it fails and main panics.
RunEnds ==
    /\ Moves("serving", "unwinding")
    /\ ending' \in {"signal", "panic"}
    /\ UNCHANGED <<vars, sources, made, deferred, open>>

-----------------------------------------------------------------------------
(* The deferred calls.                                                     *)

Deferred(call) == stage = "unwinding" /\ deferred # <<>> /\ deferred[Len(deferred)] = call

Done(call) ==
    /\ deferred' = SubSeq(deferred, 1, Len(deferred) - 1)
    /\ open' = open \ {call}

CleanupServer ==
    /\ Deferred("server") /\ Done("server")
    /\ UNCHANGED <<vars, sources, stage, made, ending>>

CleanupLog ==
    /\ Deferred("log") /\ Done("log")
    /\ UNCHANGED <<vars, sources, stage, made, ending>>

\* c.Close stops the watchers, the file's first, then that of Nacos, if there is one.
CloseConfig ==
    /\ Deferred("config")
    /\ IF remote /\ stopper # "returned"
       THEN (Stop \/ CancelListener) /\ UNCHANGED <<deferred, open>>
       ELSE Done("config") /\ UNCHANGED vars
    /\ UNCHANGED <<sources, stage, made, ending>>

MainReturns ==
    /\ deferred = <<>> /\ Moves("unwinding", "exited")
    /\ UNCHANGED <<vars, sources, made, deferred, open, ending>>

-----------------------------------------------------------------------------
(* Meanwhile the config center, its SDK, the config loop and whoever edits *)
(* the local file go on.                                                   *)

\* What the loop applies is merged into the kratos config.
WatcherStep ==
    /\ remote /\ stage \notin {"start", "local", "load", "loading", "exited"}
    /\ \/ (Publish \/ OnChange \/ CallNext \/ Listen \/ Select \/ Retry)
            /\ UNCHANGED <<values, overlaid>>
       \/ /\ Apply
          /\ values' = Merged(got, values)
          /\ overlaid' = overlaid \ DOMAIN RemoteConf[got]
    /\ UNCHANGED <<local, edits, reread, stage, remote, scanned, built, deferred, open, ending>>

\* From LoadLocal until c.Close, the file has a watcher of its own.
EditLocal ==
    /\ edits < MaxEdits /\ stage # "exited"
    /\ edits' = edits + 1
    /\ local' \in EditedConf \ {local}
    /\ reread' = (reread \/ ("config" \in open /\ stopper = "none"))
    /\ UNCHANGED <<vars, overlaid, stage, made, deferred, open, ending>>

\* It reads the file again, whole, and its loop merges what it read.
ApplyLocal ==
    /\ reread /\ "config" \in open /\ stage # "exited"
    /\ reread' = FALSE
    /\ values' = Over(local, values)
    /\ overlaid' = overlaid \cup DOMAIN local
    /\ UNCHANGED <<vars, local, edits, stage, remote, scanned, built, deferred, open, ending>>

Starting ==
    \/ ReadLocal \/ Append2 \/ LoadLocal \/ LoadRemote \/ Scan \/ LoadFails
    \/ NewLogger \/ LoggerFails \/ NoRegistry \/ Discover \/ DiscoverFails
    \/ NewServer \/ ServerFails

Unwinding == CleanupServer \/ CleanupLog \/ CloseConfig

ProcessNext ==
    \/ Starting \/ RunEnds \/ Unwinding \/ MainReturns
    \/ WatcherStep \/ EditLocal \/ ApplyLocal

\* main and the goroutines run on; nobody has to publish, to edit the file or to
\* stop the process, and main may take its time to return, so that the loop is seen to end.
ProcessSpec ==
    /\ ProcessInit /\ [][ProcessNext]_processVars
    /\ WF_processVars(Starting) /\ WF_processVars(Unwinding)
    /\ WF_processVars(WatcherStep /\ OnChange)
    /\ WF_processVars(WatcherStep /\ (CallNext \/ Listen \/ Retry \/ Apply \/ Select))
    /\ SF_processVars(WatcherStep /\ NextCanceled)

-----------------------------------------------------------------------------
(* Properties.                                                             *)

\* What serves was built from the one Bootstrap scanned, though publications and
\* edits of the file go on between the constructors; and a log that goes to a file,
\* however the output is spelled and whichever source set it, goes to the file the
\* configuration names, character by character, which is never a blank one (log.go:
\* 101: never "silently" at a default of lumberjack's), even when one source sets
\* the output and another the path.
BuiltFromOne ==
    stage = "serving" =>
        /\ built = <<LogNew(LogOptions(bc)), NacosOptions(bc), Edge(bc)>>
        /\ Get(bc, "log.output").word = "file" =>
             /\ built[1].writer.to = "file"
             /\ built[1].writer.path = Get(bc, "log.file_path")
             /\ Get(bc, "log.file_path").word # ""

\* The server's clean-up logs, so the log outlives the server, and the config
\* outlives both; and a main that returns or panics after loadConfig leaves
\* nothing open, at whichever step of the start it failed.
CleanExit ==
    /\ "server" \in open => "log" \in open
    /\ "log" \in open => "config" \in open
    /\ stage = "exited" /\ ending \in {"panic", "signal"} => open = {}

\* main.go:67: "remote values override local ones", in the Bootstrap that
\* everything is built from and in the config that changes are merged into, also
\* when a change arrives between Load and Scan, but not for the fields of an edit
\* of the local file, which its watcher merges over whatever is there: an edit
\* takes back the fields it sets, those only, and only until a version is applied
\* that sets them.
RemoteWins ==
    /\ remote /\ boot # Local =>
         \A f \in DOMAIN RemoteConf[boot] \ shadowed : bc[f] = RemoteConf[boot][f]
    /\ remote /\ "config" \in open /\ stage \notin {"loading", "exited"} /\ applied # Local =>
         \A f \in DOMAIN RemoteConf[applied] \ overlaid : values[f] = RemoteConf[applied][f]

\* While the gateway is up, what the config center holds ends up merged into the
\* kratos config, but for what the watcher can lose: a notification OnChange dropped, and
\* every one after ListenConfig failed.  No gap between Load, the registration
\* and two calls of Next loses content.
CurrentWhileUp ==
    <>[](\/ stage \in {"unwinding", "exited"} \/ ~remote
         \/ dropped \/ errors > 0 \/ center \in Blank \/ applied = center)

\* source.go: "Stop [...] unblocks Next".  However main comes to its deferred
\* calls, c.Close is reached and the config loop ends, unless the process is
\* gone first.
LoopEnds == (remote /\ stage = "unwinding") ~> (pc = "done" \/ stage = "exited")

\* main.go:67-68: "remote values override local ones and hot-reload": a serving
\* gateway ends up with the values the config center holds, but for what the
\* watcher can lose.
HotReloads ==
    <>[](\/ stage # "serving" \/ ~remote \/ dropped \/ errors > 0
         \/ center \in Blank \/ boot = center)

=============================================================================
