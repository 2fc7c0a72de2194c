------------------------ MODULE GatewayProcessProofs ------------------------
(***************************************************************************)
(* Proofs about ConfigWatcher: what the program uses can differ from what  *)
(* the config center holds only after OnChange has dropped a notification. *)
(*                                                                         *)
(* Proofs about GatewayProcess: for any configuration, local and remote,   *)
(* any number of publications and of edits of the local file and any       *)
(* failure on the way up, what serves was built from the one Bootstrap,    *)
(* remote values override local ones but those of a later edit, and a      *)
(* process that gets past loadConfig leaves nothing open.                  *)
(***************************************************************************)
EXTENDS GatewayProcess, SequenceTheorems, TLAPS

-----------------------------------------------------------------------------
(* The watcher alone.                                                      *)

IInv == TypeOK /\ InFlight

LEMMA UseType ==
    ASSUME NEW v \in Version \cup {Local}, NEW w \in Version \cup {Local}
    PROVE  Use(v, w) \in Version \cup {Local}
  BY DEF Use

LEMMA InitInv == Init => IInv
<1> SUFFICES ASSUME Init PROVE IInv
  OBVIOUS
<1>1. center \in Version
  <2>1. CASE MaxVersion > 0
    BY <2>1, ConfigAssumption DEF Init, Version
  <2>2. CASE MaxVersion = 0
    BY <2>2 DEF Init, Version
  <2> QED
    BY <2>1, <2>2, ConfigAssumption
<1>2. TypeOK
  <2>1. applied \in Version \cup {Local}
    BY <1>1 DEF Init, Use
  <2>2. errors \in 0 .. MaxListenErrors
    BY ConfigAssumption DEF Init
  <2> QED
    BY <1>1, <2>1, <2>2 DEF Init, TypeOK
<1>3. InFlight
  BY DEF Init, InFlight, Use
<1> QED
  BY <1>2, <1>3 DEF IInv

\* One step per action.
LEMMA StepInv == IInv /\ [Next]_vars => IInv'
<1> SUFFICES ASSUME TypeOK, InFlight, [Next]_vars PROVE TypeOK' /\ InFlight'
  BY DEF IInv
<1> USE DEF TypeOK, InFlight, watcher, history
<1>1. CASE Publish
  <2>1. center' \in Version
    BY <1>1, ConfigAssumption DEF Publish, Version
  <2> QED
    BY <1>1, <2>1 DEF Publish
<1>2. CASE OnChange
  <2>1. CASE NotifyRoom /\ notify' = Append(notify, center) /\ dropped' = dropped
    <3>1. notify = <<>>
      BY <2>1 DEF NotifyRoom
    <3>2. notify' = <<center>>
      BY <2>1, <3>1
    <3> QED
      BY <1>2, <2>1, <3>1, <3>2 DEF OnChange
  <2>2. CASE stop /\ UNCHANGED <<notify, dropped>>
    BY <1>2, <2>2 DEF OnChange
  <2>3. CASE notify' = notify /\ dropped' = TRUE
    BY <1>2, <2>3 DEF OnChange
  <2> QED
    BY <1>2, <2>1, <2>2, <2>3 DEF OnChange
<1>3. CASE CallNext
  BY <1>3 DEF CallNext
<1>4. CASE ListenSucceeds
  BY <1>4 DEF ListenSucceeds
<1>5. CASE ListenFails
  <2>1. errors' \in 0 .. MaxListenErrors
    BY <1>5, ConfigAssumption DEF ListenFails
  <2> QED
    BY <1>5, <2>1 DEF ListenFails
<1>6. CASE Retry
  BY <1>6 DEF Retry
<1>7. CASE NextReturns
  <2>1. PICK v \in Version : notify = <<v>>
    BY <1>7 DEF NextReturns
  <2>2. got' = v /\ notify' = <<>>
    BY <1>7, <2>1 DEF NextReturns
  <2>3. notify # <<>> /\ (notify = <<seen>> => v = seen)
    BY <1>7, <2>1 DEF NextReturns
  <2> QED
    BY <1>7, <2>2, <2>3 DEF NextReturns
<1>8. CASE Apply
  <2>1. applied' \in Version \cup {Local}
    BY <1>8, UseType DEF Apply
  <2>2. got \in Blank \/ applied' = got
    BY <1>8 DEF Apply, Use
  <2> QED
    BY <1>8, <2>1, <2>2 DEF Apply
<1>9. CASE NextCanceled
  BY <1>9 DEF NextCanceled
<1>10. CASE Stop
  BY <1>10 DEF Stop
<1>11. CASE CancelListener
  BY <1>11 DEF CancelListener
<1>12. CASE UNCHANGED vars
  BY <1>12 DEF vars
<1> QED
  BY <1>1, <1>2, <1>3, <1>4, <1>5, <1>6, <1>7, <1>8, <1>9, <1>10, <1>11, <1>12
  DEF Next, Listen, Select

\* Every variable keeps its type: the channel never holds more than one item,
\* however OnChange, Next and Stop interleave.
THEOREM TypeCorrect == Spec => []TypeOK
<1>1. IInv => TypeOK
  BY DEF IInv
<1> QED
  BY <1>1, InitInv, StepInv, PTL DEF Spec

\* With any number of publications and of failures of ListenConfig, the program
\* uses what the config center holds once everything shown to it is applied,
\* unless OnChange has dropped a notification.
THEOREM ConvergedHolds == Spec => []Converged
<1>1. IInv => Converged
  BY DEF IInv, InFlight, Converged, Settled
<1> QED
  BY <1>1, InitInv, StepInv, PTL DEF Spec

-----------------------------------------------------------------------------
(* The process: the inductive invariant.                                   *)

\* How much of the process is up, with what is deferred for it.
Resource == {"config", "log", "server"}
Nothing0 == Len(deferred) = 0 /\ open = {}
ConfigUp == Len(deferred) = 1 /\ deferred[1] = "config" /\ open = {"config"}
LogUp ==
    /\ Len(deferred) = 2 /\ deferred[1] = "config" /\ deferred[2] = "log"
    /\ open = {"config", "log"}
ServerUp ==
    /\ Len(deferred) = 3
    /\ deferred[1] = "config" /\ deferred[2] = "log" /\ deferred[3] = "server"
    /\ open = {"config", "log", "server"}

Stacked ==
    /\ deferred \in Seq(Resource)
    /\ \/ stage \in {"start", "local", "load"} /\ Nothing0
       \/ stage \in {"loading", "loaded"} /\ Len(deferred) = 0 /\ open = {"config"}
       \/ stage = "logger" /\ ConfigUp
       \/ stage \in {"discovery", "server"} /\ LogUp
       \/ stage = "serving" /\ ServerUp
       \/ stage = "unwinding" /\ (Nothing0 \/ ConfigUp \/ LogUp \/ ServerUp)
       \/ stage = "exited" /\ open = {}
       \/ stage = "exited" /\ ending \in {"load failed", "os.Exit"}
            /\ open \in {{"config"}, {"config", "log"}}

\* c has all the values of version v but for the fields over.
Overridden(c, v, over) ==
    v # Local => \A f \in DOMAIN RemoteConf[v] \ over : f \in DOMAIN c /\ c[f] = RemoteConf[v][f]

\* The config has what was applied from LoadRemote on; so does the Bootstrap, as of
\* its Scan.
Layered ==
    /\ stage \notin {"start", "local", "load", "loading", "exited"} /\ remote
         => Overridden(values, applied, overlaid)
    /\ remote => Overridden(bc, boot, shadowed)
    /\ stage \in {"start", "local", "load", "loading", "loaded"} => boot = Local
    /\ pc = "apply" => got \in Version

\* What each constructor has accepted by the time the next one runs.
Accepted ==
    /\ stage \in {"discovery", "server", "serving"} => ~Refuses(LogOptions(bc))
    /\ stage = "discovery" => built = <<LogNew(LogOptions(bc))>>
    /\ stage = "server" => built = <<LogNew(LogOptions(bc)), NacosOptions(bc)>>
    /\ stage = "serving" => built = <<LogNew(LogOptions(bc)), NacosOptions(bc), Edge(bc)>>

ProcessInv == IInv /\ Stacked /\ Layered /\ Accepted

-----------------------------------------------------------------------------
(* Merging.                                                                *)

\* What comes in is there, and what it does not set stays.
LEMMA OverValues ==
    ASSUME NEW new, NEW c
    PROVE  /\ \A f \in DOMAIN new : f \in DOMAIN Over(new, c) /\ Over(new, c)[f] = new[f]
           /\ \A f \in DOMAIN c \ DOMAIN new :
                f \in DOMAIN Over(new, c) /\ Over(new, c)[f] = c[f]
  BY DEF Over

\* Merging a version leaves the values of the one then in use in place, and of the
\* file only what that version does not set.
LEMMA MergedOverrides ==
    ASSUME NEW v \in Version, NEW c, NEW w \in Version \cup {Local}, NEW over,
           Overridden(c, w, over)
    PROVE  Overridden(Merged(v, c), Use(v, w), over \ DOMAIN RemoteConf[v])
<1> SUFFICES ASSUME Use(v, w) # Local,
                    NEW f \in DOMAIN RemoteConf[Use(v, w)] \ (over \ DOMAIN RemoteConf[v])
             PROVE  /\ f \in DOMAIN Merged(v, c)
                    /\ Merged(v, c)[f] = RemoteConf[Use(v, w)][f]
  BY DEF Overridden
<1>1. CASE v \in Blank
  <2>1. Use(v, w) = w /\ DOMAIN RemoteConf[v] = {}
    BY <1>1, ProcessAssumption DEF Use
  <2>2. f \in DOMAIN c /\ c[f] = RemoteConf[w][f]
    BY <2>1 DEF Overridden
  <2> QED
    BY <2>1, <2>2, OverValues DEF Merged
<1>2. CASE v \notin Blank
  <2>1. Use(v, w) = v
    BY <1>2 DEF Use
  <2> QED
    BY <2>1, OverValues DEF Merged
<1> QED
  BY <1>1, <1>2

\* Merging the file leaves every value of a version but its own fields.
LEMMA EditedOverrides ==
    ASSUME NEW c, NEW w, NEW over, Overridden(c, w, over)
    PROVE  Overridden(Over(local, c), w, over \cup DOMAIN local)
<1> SUFFICES ASSUME w # Local, NEW f \in DOMAIN RemoteConf[w] \ (over \cup DOMAIN local)
             PROVE  f \in DOMAIN Over(local, c) /\ Over(local, c)[f] = RemoteConf[w][f]
  BY DEF Overridden
<1>1. f \in DOMAIN c /\ c[f] = RemoteConf[w][f]
  BY DEF Overridden
<1> QED
  BY <1>1, OverValues

-----------------------------------------------------------------------------
(* Invariance.                                                             *)

\* Seen from the watcher, every step of the process is one of its own or none.
LEMMA WatcherView == [ProcessNext]_processVars => [Next]_vars
<1> SUFFICES ASSUME [ProcessNext]_processVars PROVE [Next]_vars
  OBVIOUS
<1>1. CASE Starting
  BY <1>1 DEF Starting, ReadLocal, Append2, LoadLocal, LoadRemote, Scan, LoadFails, DieLoading, NewLogger,
     LoggerFails, NoRegistry, Discover, DiscoverFails, NewServer, ServerFails, Fail
<1>2. CASE RunEnds
  BY <1>2 DEF RunEnds
<1>3. CASE Unwinding
  BY <1>3 DEF Unwinding, CleanupServer, CleanupLog, CloseConfig, Next
<1>4. CASE MainReturns
  BY <1>4 DEF MainReturns
<1>5. CASE WatcherStep
  BY <1>5 DEF WatcherStep, Next
<1>6. CASE EditLocal \/ ApplyLocal
  BY <1>6 DEF EditLocal, ApplyLocal
<1>7. CASE UNCHANGED processVars
  BY <1>7 DEF processVars
<1> QED
  BY <1>1, <1>2, <1>3, <1>4, <1>5, <1>6, <1>7 DEF ProcessNext

LEMMA ProcessInitInv == ProcessInit => ProcessInv
<1> SUFFICES ASSUME ProcessInit PROVE ProcessInv
  OBVIOUS
<1>1. IInv
  BY InitInv DEF ProcessInit
<1>2. Stacked /\ Layered /\ Accepted
  BY DEF ProcessInit, Init, Stacked, Nothing0, Layered, Overridden, Accepted
<1> QED
  BY <1>1, <1>2 DEF ProcessInv

LEMMA Pushed ==
    ASSUME NEW s \in Seq(Resource), NEW call \in Resource
    PROVE  /\ Append(s, call) \in Seq(Resource)
           /\ Len(Append(s, call)) = Len(s) + 1
           /\ \A i \in 1 .. Len(s) : Append(s, call)[i] = s[i]
           /\ Append(s, call)[Len(s) + 1] = call
  BY AppendProperties

LEMMA AppendToOne ==
    ASSUME NEW a, NEW b
    PROVE  Append(<<a>>, b) = <<a, b>>
<1> DEFINE S == {a, b}
<1>1. a \in S /\ b \in S
  OBVIOUS
<1> HIDE DEF S
<1>2. <<a>> \in Seq(S) /\ <<a, b>> \in Seq(S)
  BY <1>1
<1>3. Append(<<a>>, b) \in Seq(S) /\ Len(Append(<<a>>, b)) = 2
  BY <1>1, <1>2
<1>4. \A i \in 1 .. 2 : Append(<<a>>, b)[i] = <<a, b>>[i]
  BY <1>1, <1>2
<1> QED
  BY <1>2, <1>3, <1>4, SeqEqual

LEMMA AppendToTwo ==
    ASSUME NEW a, NEW b, NEW c
    PROVE  Append(<<a, b>>, c) = <<a, b, c>>
<1> DEFINE S == {a, b, c}
<1>1. a \in S /\ b \in S /\ c \in S
  OBVIOUS
<1> HIDE DEF S
<1>2. <<a, b>> \in Seq(S) /\ <<a, b, c>> \in Seq(S)
  BY <1>1
<1>3. Append(<<a, b>>, c) \in Seq(S) /\ Len(Append(<<a, b>>, c)) = 3
  BY <1>1, <1>2
<1>4. \A i \in 1 .. 3 : Append(<<a, b>>, c)[i] = <<a, b, c>>[i]
  BY <1>1, <1>2
<1> QED
  BY <1>2, <1>3, <1>4, SeqEqual

\* main never touches what the watcher has in hand.
LEMMA LocalSteps ==
    ASSUME ProcessInv, Starting \/ RunEnds \/ MainReturns
    PROVE  Stacked' /\ Layered' /\ Accepted'
<1> USE DEF ProcessInv, Moves, made, scanned, sources, vars, Resource
<1>1. CASE ReadLocal
  <2>1. Overridden(bc, boot, shadowed)'
    BY <1>1 DEF ReadLocal, Layered, Overridden
  <2> QED
    BY <1>1, <2>1 DEF ReadLocal, Stacked, Nothing0, Layered, Accepted
<1>2. CASE Append2
  <2>1. Overridden(bc, boot, shadowed)'
    BY <1>2 DEF Append2, Layered, Overridden
  <2> QED
    BY <1>2, <2>1 DEF Append2, Stacked, Nothing0, Layered, Accepted
<1>3. CASE LoadLocal
  BY <1>3 DEF LoadLocal, Stacked, Nothing0, Layered, Overridden, Accepted
<1>3a. CASE LoadRemote
  <2>1. remote => Overridden(values, applied, overlaid)'
    <3>1. CASE remote /\ applied # Local
      BY <1>3a, <3>1, OverValues DEF LoadRemote, Merged, Overridden
    <3>2. CASE ~(remote /\ applied # Local)
      BY <1>3a, <3>2 DEF LoadRemote, Overridden
    <3> QED
      BY <3>1, <3>2
  <2> QED
    BY <1>3a, <2>1 DEF LoadRemote, Stacked, Layered, Overridden, Accepted
<1>4. CASE Scan
  BY <1>4 DEF Scan, Stacked, ConfigUp, Layered, Overridden, Accepted
<1>5. CASE LoadFails
  <2>1. /\ stage \in {"start", "local", "load", "loading", "loaded"}
        /\ stage' = "exited" /\ ending' = "load failed"
        /\ UNCHANGED <<sources, made, deferred, open, vars>>
    BY <1>5 DEF LoadFails, DieLoading
  <2>2. open = {} \/ open = {"config"}
    BY <2>1 DEF Stacked, Nothing0
  <2>3. Stacked'
    BY <2>1, <2>2 DEF Stacked
  <2>4. Layered'
    BY <2>1 DEF Layered, Overridden
  <2> QED
    BY <2>1, <2>3, <2>4 DEF Accepted
<1>6. CASE \E from \in {"logger", "discovery", "server"} : Fail(from)
  <2>1. /\ stage \in {"logger", "discovery", "server"}
        /\ stage' = "unwinding"
        /\ UNCHANGED <<sources, made, deferred, open, vars>>
    BY <1>6 DEF Fail
  <2>2. Stacked'
    BY <2>1 DEF Stacked, Nothing0, ConfigUp, LogUp, ServerUp
  <2>3. Layered'
    BY <2>1 DEF Layered, Overridden
  <2> QED
    BY <2>1, <2>2, <2>3 DEF Accepted
<1>7. CASE NewLogger
  <2>1. Stacked'
    <3>1. ConfigUp /\ deferred \in Seq(Resource)
      BY <1>7 DEF NewLogger, Stacked
    <3>2. deferred' = Append(deferred, "log") /\ open' = {"config", "log"}
      BY <1>7, <3>1 DEF NewLogger, ConfigUp
    <3>3. LogUp' /\ deferred' \in Seq(Resource)
      BY <3>1, <3>2, Pushed DEF ConfigUp, LogUp
    <3> QED
      BY <1>7, <3>3 DEF NewLogger, Stacked
  <2>2. Layered'
    BY <1>7 DEF NewLogger, Stacked, ConfigUp, Layered, Overridden
  <2> QED
    BY <1>7, <2>1, <2>2 DEF NewLogger, Accepted
<1>8. CASE NoRegistry
  BY <1>8 DEF NoRegistry, Stacked, LogUp, Layered, Overridden,
     Accepted
<1>9. CASE Discover
  <2>1. Stacked'
    BY <1>9 DEF Discover, Stacked, LogUp
  <2>2. Layered'
    BY <1>9 DEF Discover, Layered, Overridden
  <2>3. built' = <<LogNew(LogOptions(bc)), NacosOptions(bc)>>
    BY <1>9, AppendToOne DEF Discover, Accepted
  <2> QED
    BY <1>9, <2>1, <2>2, <2>3 DEF Discover, Accepted
<1>10. CASE NewServer
  <2>1. Stacked'
    <3>1. LogUp /\ deferred \in Seq(Resource)
      BY <1>10 DEF NewServer, Stacked
    <3>2. deferred' = Append(deferred, "server") /\ open' = {"config", "log", "server"}
      BY <1>10, <3>1 DEF NewServer, LogUp
    <3>3. /\ deferred' \in Seq(Resource) /\ Len(deferred') = 3
          /\ deferred'[1] = deferred[1] /\ deferred'[2] = deferred[2]
          /\ deferred'[3] = "server"
      <4>1. Len(deferred) = 2
        BY <3>1 DEF LogUp
      <4>2. /\ deferred' \in Seq(Resource) /\ Len(deferred') = Len(deferred) + 1
            /\ \A i \in 1 .. Len(deferred) : deferred'[i] = deferred[i]
            /\ deferred'[Len(deferred) + 1] = "server"
        <5>1. "server" \in Resource
          OBVIOUS
        <5> HIDE DEF Resource
        <5> QED
          BY <3>1, <3>2, <5>1, Pushed
      <4> QED
        BY <4>1, <4>2
    <3>4. ServerUp'
      BY <3>1, <3>2, <3>3 DEF LogUp, ServerUp
    <3> QED
      BY <1>10, <3>3, <3>4 DEF NewServer, Stacked
  <2>2. Layered'
    BY <1>10 DEF NewServer, Stacked, LogUp, Layered, Overridden
  <2>3. built' = <<LogNew(LogOptions(bc)), NacosOptions(bc), Edge(bc)>>
    BY <1>10, AppendToTwo DEF NewServer, Accepted
  <2> QED
    BY <1>10, <2>1, <2>2, <2>3 DEF NewServer, Accepted
<1>11. CASE RunEnds
  BY <1>11 DEF RunEnds, Stacked, ServerUp, Layered, Overridden,
     Accepted
<1>12. CASE MainReturns
  <2>1. open = {}
    BY <1>12 DEF MainReturns, Stacked, Nothing0, ConfigUp, LogUp, ServerUp
  <2>2. Stacked'
    BY <1>12, <2>1 DEF MainReturns, Stacked
  <2>3. Layered'
    BY <1>12 DEF MainReturns, Layered, Overridden
  <2> QED
    BY <1>12, <2>2, <2>3 DEF MainReturns, Accepted
<1> QED
  BY <1>1, <1>2, <1>3, <1>4, <1>5, <1>6, <1>7, <1>8, <1>9, <1>10, <1>11, <1>12, <1>3a
  DEF Starting, LoggerFails, DiscoverFails, ServerFails

\* What is closed is the last that was deferred.
LEMMA Popped ==
    ASSUME deferred \in Seq(Resource), Nothing0 \/ ConfigUp \/ LogUp \/ ServerUp,
           NEW call, deferred # <<>>, deferred[Len(deferred)] = call, Done(call)
    PROVE  deferred' \in Seq(Resource) /\ (Nothing0' \/ ConfigUp' \/ LogUp')
<1>1. /\ deferred' \in Seq(Resource) /\ Len(deferred') = Len(deferred) - 1
      /\ \A i \in 1 .. Len(deferred) - 1 : deferred'[i] = deferred[i]
  <2>1. deferred' = SubSeq(deferred, 1, Len(deferred) - 1)
    BY DEF Done
  <2>2. Len(deferred) \in Nat /\ Len(deferred) # 0
    BY EmptySeq
  <2>3. \A i \in 1 .. Len(deferred) - 1 : deferred[i] \in Resource
    BY <2>2, ElementOfSeq
  <2> DEFINE n == Len(deferred) - 1
  <2>4. n \in Nat /\ n - 1 + 1 = n
    BY <2>2
  <2>5. /\ SubSeq(deferred, 1, n) \in Seq(Resource)
        /\ Len(SubSeq(deferred, 1, n)) = IF 1 <= n THEN n - 1 + 1 ELSE 0
        /\ \A i \in 1 .. n - 1 + 1 : SubSeq(deferred, 1, n)[i] = deferred[1 + i - 1]
    BY <2>3, <2>4, SubSeqProperties
  <2>6. (IF 1 <= n THEN n - 1 + 1 ELSE 0) = n /\ \A i \in 1 .. n : 1 + i - 1 = i
    <3> HIDE DEF n
    <3> QED
      BY <2>4
  <2> QED
    BY <2>1, <2>4, <2>5, <2>6
<1>2. CASE Nothing0
  BY <1>2, EmptySeq DEF Nothing0
<1>3. CASE ConfigUp
  BY <1>1, <1>3 DEF ConfigUp, Nothing0, Done
<1>4. CASE LogUp
  <2>1. open' = {"config"}
    BY <1>4 DEF LogUp, Done
  <2> QED
    BY <1>1, <1>4, <2>1 DEF LogUp, ConfigUp
<1>5. CASE ServerUp
  <2>1. open' = {"config", "log"}
    BY <1>5 DEF ServerUp, Done
  <2> QED
    BY <1>1, <1>5, <2>1 DEF ServerUp, LogUp
<1> QED
  BY <1>2, <1>3, <1>4, <1>5

LEMMA UnwindingStep ==
    ASSUME ProcessInv, Unwinding
    PROVE  Stacked' /\ Layered' /\ Accepted'
<1> USE DEF ProcessInv, made, scanned, sources
<1>1. /\ stage = "unwinding" /\ stage' = stage
      /\ UNCHANGED <<sources, made, pc, got, applied>>
  BY DEF Unwinding, CleanupServer, CleanupLog, CloseConfig, Deferred, vars, Stop,
     CancelListener, history, watcher
<1>2. Nothing0 \/ ConfigUp \/ LogUp \/ ServerUp
  BY <1>1 DEF Stacked
<1>3. /\ deferred' \in Seq(Resource)
      /\ Nothing0' \/ ConfigUp' \/ LogUp' \/ ServerUp'
      /\ "config" \in open' => "config" \in open
  <2>1. CASE UNCHANGED <<deferred, open>>
    BY <1>2, <2>1 DEF Stacked, Nothing0, ConfigUp, LogUp, ServerUp
  <2>2. CASE \E call \in Resource : Deferred(call) /\ Done(call)
    <3>1. PICK call \in Resource : Deferred(call) /\ Done(call)
      BY <2>2
    <3>2. deferred \in Seq(Resource)
      BY DEF Stacked
    <3>3. deferred # <<>> /\ deferred[Len(deferred)] = call
      BY <3>1 DEF Deferred
    <3>4. deferred' \in Seq(Resource) /\ (Nothing0' \/ ConfigUp' \/ LogUp')
      BY <1>2, <3>1, <3>2, <3>3, Popped
    <3> QED
      BY <3>1, <3>4 DEF Done
  <2> QED
    BY <2>1, <2>2 DEF Unwinding, CleanupServer, CleanupLog, CloseConfig, Resource
<1>4. Stacked'
  BY <1>1, <1>3 DEF Stacked
<1>5. Layered'
  BY <1>1, <1>3 DEF Layered, Overridden
<1> QED
  BY <1>1, <1>4, <1>5 DEF Accepted

\* The config loop merges into the config that main scans, whatever main does.
LEMMA WatcherStepInv ==
    ASSUME ProcessInv, WatcherStep
    PROVE  Stacked' /\ Layered' /\ Accepted'
<1> USE DEF ProcessInv, scanned
<1>1. UNCHANGED <<stage, remote, bc, boot, shadowed, built, deferred, open, ending>>
  BY DEF WatcherStep
<1>2. Stacked' /\ Accepted'
  BY <1>1 DEF Stacked, Nothing0, ConfigUp, LogUp, ServerUp, Accepted
<1>3. CASE /\ Publish \/ OnChange \/ CallNext \/ Listen \/ Select \/ Retry
           /\ UNCHANGED <<values, overlaid>>
  <2>1. applied' = applied
    BY <1>3 DEF Publish, OnChange, CallNext, Listen, ListenSucceeds, ListenFails, Select,
       NextReturns, NextCanceled, Retry
  <2>2. pc' = "apply" => got' \in Version
    <3>1. CASE NextReturns
      BY <3>1 DEF NextReturns, IInv, TypeOK
    <3>2. CASE ~NextReturns
      BY <1>3, <3>2 DEF Publish, OnChange, CallNext, Listen, ListenSucceeds, ListenFails,
         Select, NextCanceled, Retry, Layered
    <3> QED
      BY <3>1, <3>2
  <2> QED
    BY <1>1, <1>2, <1>3, <2>1, <2>2 DEF Layered, Overridden
<1>4. CASE /\ Apply /\ values' = Merged(got, values)
           /\ overlaid' = overlaid \ DOMAIN RemoteConf[got]
  <2>1. got \in Version /\ applied \in Version \cup {Local}
    BY <1>4 DEF Apply, Layered, IInv, TypeOK
  <2>2. applied' = Use(got, applied) /\ pc' = "idle"
    BY <1>4 DEF Apply
  <2>3. Overridden(values, applied, overlaid)
    BY DEF WatcherStep, Layered
  <2>4. Overridden(values', applied', overlaid')
    BY <1>4, <2>1, <2>2, <2>3, MergedOverrides
  <2>5. Overridden(values, applied, overlaid)'
    BY <2>4 DEF Overridden
  <2>6. (remote => Overridden(bc, boot, shadowed))'
    BY <1>1 DEF Layered, Overridden
  <2>7. (stage \in {"start", "local", "load", "loading", "loaded"} => boot = Local)'
    BY <1>1 DEF Layered
  <2> QED
    BY <1>2, <2>2, <2>5, <2>6, <2>7 DEF Layered
<1> QED
  BY <1>3, <1>4 DEF WatcherStep

\* An edit changes the config once it is merged, and then no field it does not set.
LEMMA EditStepInv ==
    ASSUME ProcessInv, EditLocal \/ ApplyLocal
    PROVE  Stacked' /\ Layered' /\ Accepted'
<1> USE DEF ProcessInv, scanned, made, vars
<1>1. UNCHANGED <<vars, stage, remote, scanned, built, deferred, open, ending>>
  BY DEF EditLocal, ApplyLocal
<1>2. Stacked' /\ Accepted'
  BY <1>1 DEF Stacked, Nothing0, ConfigUp, LogUp, ServerUp, Accepted
<1>3. CASE EditLocal
  BY <1>1, <1>2, <1>3 DEF EditLocal, Layered, Overridden
<1>4. CASE ApplyLocal
  <2>1. values' = Over(local, values) /\ overlaid' = overlaid \cup DOMAIN local
    BY <1>4 DEF ApplyLocal
  <2>2. Overridden(values, applied, overlaid) => Overridden(values', applied, overlaid')
    BY <2>1, EditedOverrides
  <2>3. Overridden(values, applied, overlaid) => Overridden(values, applied, overlaid)'
    BY <1>1, <2>2 DEF Overridden
  <2>4. (remote => Overridden(bc, boot, shadowed))'
    BY <1>1 DEF Layered, Overridden
  <2> QED
    BY <1>1, <1>2, <2>3, <2>4 DEF Layered
<1> QED
  BY <1>3, <1>4

LEMMA ProcessStepInv == ProcessInv /\ [ProcessNext]_processVars => ProcessInv'
<1> SUFFICES ASSUME ProcessInv, [ProcessNext]_processVars PROVE ProcessInv'
  OBVIOUS
<1>1. IInv'
  BY WatcherView, StepInv DEF ProcessInv
<1>2. Stacked' /\ Layered' /\ Accepted'
  <2>1. CASE Starting \/ RunEnds \/ MainReturns
    BY <2>1, LocalSteps
  <2>2. CASE Unwinding
    BY <2>2, UnwindingStep
  <2>3. CASE WatcherStep
    BY <2>3, WatcherStepInv
  <2>4. CASE EditLocal \/ ApplyLocal
    BY <2>4, EditStepInv
  <2>5. CASE UNCHANGED processVars
    BY <2>5 DEF processVars, sources, made, scanned, vars, ProcessInv, Stacked, Nothing0, ConfigUp, LogUp, ServerUp,
       Layered, Overridden, Accepted
  <2> QED
    BY <2>1, <2>2, <2>3, <2>4, <2>5 DEF ProcessNext
<1> QED
  BY <1>1, <1>2 DEF ProcessInv

THEOREM ProcessInvariance == ProcessSpec => []ProcessInv
  BY ProcessInitInv, ProcessStepInv, PTL DEF ProcessSpec

-----------------------------------------------------------------------------
(* The properties.                                                         *)

\* Within the process, too, the watcher keeps its types, and only a dropped
\* notification makes what is in use differ from what the config center holds.
THEOREM ProcessConverged == ProcessSpec => [](TypeOK /\ Converged)
<1>1. ProcessInv => TypeOK /\ Converged
  BY DEF ProcessInv, IInv, InFlight, Converged, Settled
<1> QED
  BY <1>1, ProcessInvariance, PTL

\* Whatever the sources hold and however often they change during the start, a
\* gateway that serves was built from the one Bootstrap, and logs to the very file
\* that Bootstrap names, white space included, when it says so.
THEOREM BuiltFromOneHolds == ProcessSpec => []BuiltFromOne
<1>1. ProcessInv => BuiltFromOne
  <2> SUFFICES ASSUME ProcessInv, stage = "serving" PROVE BuiltFromOne
    BY DEF BuiltFromOne
  <2>1. /\ ~Refuses(LogOptions(bc))
        /\ built = <<LogNew(LogOptions(bc)), NacosOptions(bc), Edge(bc)>>
    BY DEF ProcessInv, Accepted
  <2>2. built[1].writer = Writer(LogOptions(bc))
    BY <2>1 DEF LogNew
  <2>3. /\ LogOptions(bc).file_path = Get(bc, "log.file_path")
        /\ LogOptions(bc).output = Get(bc, "log.output")
    BY DEF LogOptions
  <2>4. ASSUME Get(bc, "log.output").word = "file"
        PROVE  /\ Writer(LogOptions(bc)).to = "file"
               /\ Writer(LogOptions(bc)).path = Get(bc, "log.file_path")
               /\ Get(bc, "log.file_path").word # ""
    <3>1. Get(bc, "log.file_path").word # ""
      BY <2>1, <2>3, <2>4 DEF Refuses
    <3>2. Get(bc, "log.file_path") # Word("")
      <4>1. Word("").word = ""
        BY DEF Word
      <4> QED
        BY <3>1, <4>1
    <3> QED
      BY <2>3, <2>4, <3>1, <3>2 DEF Writer
  <2> QED
    BY <2>1, <2>2, <2>4 DEF BuiltFromOne
<1> QED
  BY <1>1, ProcessInvariance, PTL

\* However the start fails and whenever the stop comes, what was opened first is
\* closed last, and a main that gets past loadConfig leaves nothing open.
THEOREM CleanExitHolds == ProcessSpec => []CleanExit
<1>1. ProcessInv => CleanExit
  BY DEF ProcessInv, Stacked, Nothing0, ConfigUp, LogUp, ServerUp, CleanExit
<1> QED
  BY <1>1, ProcessInvariance, PTL

\* With any number of publications and of edits of the local file, at any time of
\* the start and after, the Bootstrap and the config hold the remote values of one
\* version in every field that no edit was merged over since.
THEOREM RemoteWinsHolds == ProcessSpec => []RemoteWins
<1>1. ProcessInv => RemoteWins
  <2> SUFFICES ASSUME ProcessInv PROVE RemoteWins
    OBVIOUS
  <2>1. remote /\ boot # Local =>
          \A f \in DOMAIN RemoteConf[boot] \ shadowed : bc[f] = RemoteConf[boot][f]
    BY DEF ProcessInv, Layered, Overridden
  <2>2. "config" \in open /\ stage \notin {"loading", "exited"}
          => stage \notin {"start", "local", "load", "loading", "exited"}
    BY DEF ProcessInv, Stacked, Nothing0
  <2>3. remote /\ "config" \in open /\ stage \notin {"loading", "exited"} /\ applied # Local =>
          \A f \in DOMAIN RemoteConf[applied] \ overlaid : values[f] = RemoteConf[applied][f]
    BY <2>2 DEF ProcessInv, Layered, Overridden
  <2> QED
    BY <2>1, <2>3 DEF RemoteWins
<1> QED
  BY <1>1, ProcessInvariance, PTL

=============================================================================
