---------------------------- MODULE Snowflake ----------------------------
(***************************************************************************)
(* pkg/snowflake (and its adapter pkg/idgen): a cluster of instances, each *)
(* with one shared snowflake node, a wall clock that ticks and that NTP    *)
(* may set, and goroutines that call Generate concurrently.                *)
(*                                                                         *)
(* All times are milliseconds since the epoch the cluster shares, so       *)
(* clock[n] stands for nowMillis() - n.epoch.  A Generate call is cut at   *)
(* the points where another actor can be observed: the wait for the mutex, *)
(* the read of the clock together with the branch it decides (everything   *)
(* in between is local or guarded by the mutex), and the two spin loops,   *)
(* which hold the mutex while the clock moves on.                          *)
(***************************************************************************)
EXTENDS Integers

CONSTANTS
    Node,        \* instances of the service
    Thread,      \* goroutines; Host says where each one runs
    Host,        \* [Thread -> Node]
    NodeId,      \* [Node -> Int], the configured snowflake.node_id
    TimeSpan,    \* 2^41: values of the timestamp field
    NodeSpan,    \* 2^10: nodeMax + 1
    StepSpan,    \* 2^12: stepMask + 1
    Tolerance,   \* driftTolerance in milliseconds
    SteppedWhileDown, \* may a clock be set back behind a restart's back?
    MinClock, MaxClock, \* bounds on what a clock shows
    MaxAdjust,   \* bound on how often a clock is set
    MaxIds,      \* bound on the identifiers one instance hands out
    NoThread

ASSUME SpanAssumption ==
    /\ TimeSpan \in Nat \ {0}
    /\ NodeSpan \in Nat \ {0}
    /\ StepSpan \in Nat \ {0}

ASSUME HostAssumption ==
    /\ Host \in [Thread -> Node]
    /\ NoThread \notin Thread

\* Operators own the allocation of node ids: configured ids are distinct.
ASSUME NodeIdAssumption ==
    /\ NodeId \in [Node -> Int]
    /\ \A m, n \in Node : NodeId[m] = NodeId[n] => m = n

\* An instance is started after the epoch; 2 * TimeSpan is where the shifted
\* timestamp leaves 64 bits altogether.
ASSUME ClockAssumption ==
    /\ MinClock \in Int /\ MinClock <= 0
    /\ MaxClock \in Nat \ {0} /\ MaxClock < 2 * TimeSpan
    /\ Tolerance \in Nat
    /\ MaxAdjust \in Nat
    /\ MaxIds \in Nat
    /\ SteppedWhileDown \in BOOLEAN

VARIABLES
    clock,    \* [Node -> Int]: the instance's wall clock
    adjusted, \* [Node -> Nat]: how often the clock was set
    up,       \* [Node -> BOOLEAN]: NewNode succeeded and the process runs
    mu,       \* [Node -> Thread or NoThread]: holder of Node.mu
    time,     \* [Node -> Nat]: Node.time, the last-issued millisecond
    step,     \* [Node -> Nat]: Node.step, the sequence within it
    pc,       \* [Thread -> where its Generate call is]
    issued,   \* history: every identifier returned
    count,    \* history: how many of them, per instance
    floor     \* history: last millisecond used by a crashed incarnation

vars == <<clock, adjusted, up, mu, time, step, pc, issued, count, floor>>
nodeVars == <<mu, time, step>>
history == <<issued, count, floor>>

-----------------------------------------------------------------------------
(* The bit layout.  The fields of a legal ID do not overlap, so the code's *)
(* shifts and ors are a mixed-radix sum.  The sum is an int64.             *)

SignBit == TimeSpan * NodeSpan * StepSpan
IdSpace == -SignBit .. (SignBit - 1)
Int64(v) == IF v >= SignBit THEN v - 2 * SignBit ELSE v

\* Mutant: step and node change places.
PackStepFirst(t, n, s) == Int64((t * StepSpan + s) * NodeSpan + n)

Pack(t, n, s) == Int64((t * NodeSpan + n) * StepSpan + s)

\* ID.Time, ID.Node and ID.Step: arithmetic shift right, and mask.
TimeOf(id) == (id \div StepSpan) \div NodeSpan
NodeOf(id) == (id \div StepSpan) % NodeSpan
StepOf(id) == id % StepSpan

-----------------------------------------------------------------------------
Init ==
    /\ clock \in [Node -> 0 .. 1]
    /\ adjusted = [n \in Node |-> 0]
    /\ up = [n \in Node |-> FALSE]
    /\ mu = [n \in Node |-> NoThread]
    /\ time = [n \in Node |-> 0]
    /\ step = [n \in Node |-> 0]
    /\ pc = [t \in Thread |-> "idle"]
    /\ issued = {}
    /\ count = [n \in Node |-> 0]
    /\ floor = [n \in Node |-> MinClock - 1]

-----------------------------------------------------------------------------
(* The environment: clocks and process starts and crashes.                 *)

\* Unless SteppedWhileDown, a clock never again shows a millisecond that an
\* earlier incarnation of the instance has used.
ClockMaySetTo(n, c) == SteppedWhileDown \/ c > floor[n]

Tick(n) ==
    /\ clock[n] < MaxClock
    /\ clock' = [clock EXCEPT ![n] = @ + 1]
    /\ UNCHANGED <<adjusted, up, nodeVars, pc, history>>

\* NTP steps the clock, or the VM is migrated, either way.
SetClock(n) ==
    /\ adjusted[n] < MaxAdjust
    /\ \E c \in MinClock .. MaxClock :
         /\ ClockMaySetTo(n, c)
         /\ clock' = [clock EXCEPT ![n] = c]
    /\ adjusted' = [adjusted EXCEPT ![n] = @ + 1]
    /\ UNCHANGED <<up, nodeVars, pc, history>>

\* Mutant: nodeMax is one too large.
NewNodeAcceptsOneMore(n) ==
    /\ NodeId[n] \in 0 .. NodeSpan
    /\ clock[n] >= 0

\* The checks of NewNodeWithEpoch: the id is in range and the epoch is not in
\* the future (the epoch is a constant of the cluster, never the zero time).
NewNodeAccepts(n) ==
    /\ NodeId[n] \in 0 .. (NodeSpan - 1)
    /\ clock[n] >= 0

\* idgen.NewSnowflake -> NewNode: nothing is remembered from before a crash.
NewNode(n) ==
    /\ ~up[n]
    /\ NewNodeAccepts(n)
    /\ ClockMaySetTo(n, clock[n])
    /\ up' = [up EXCEPT ![n] = TRUE]
    /\ time' = [time EXCEPT ![n] = 0]
    /\ step' = [step EXCEPT ![n] = 0]
    /\ mu' = [mu EXCEPT ![n] = NoThread]
    /\ UNCHANGED <<clock, adjusted, pc, history>>

\* The process dies.  It takes more than a millisecond to come back.
Crash(n) ==
    /\ up[n]
    /\ clock[n] < MaxClock
    /\ up' = [up EXCEPT ![n] = FALSE]
    /\ clock' = [clock EXCEPT ![n] = @ + 1]
    /\ pc' = [t \in Thread |-> IF Host[t] = n THEN "idle" ELSE pc[t]]
    /\ floor' = [floor EXCEPT ![n] = IF time[n] > @ THEN time[n] ELSE @]
    /\ UNCHANGED <<adjusted, nodeVars, issued, count>>

-----------------------------------------------------------------------------
(* Generate.                                                               *)

\* A goroutine calls Generate and queues on the mutex.  The bounds: no call is
\* started once the instance has handed out MaxIds identifiers.
Call(t) ==
    LET n == Host[t] IN
    /\ up[n]
    /\ pc[t] = "idle"
    /\ count[n] < MaxIds
    /\ pc' = [pc EXCEPT ![t] = "lock"]
    /\ UNCHANGED <<clock, adjusted, up, nodeVars, history>>

\* The return of an ID from millisecond now with sequence s; defer Unlock.
Return(t, now, s) ==
    LET n == Host[t] IN
    /\ time' = [time EXCEPT ![n] = now]
    /\ step' = [step EXCEPT ![n] = s]
    /\ mu' = [mu EXCEPT ![n] = NoThread]
    /\ pc' = [pc EXCEPT ![t] = "idle"]
    /\ count' = [count EXCEPT ![n] = @ + 1]
    /\ issued' = issued \cup
         {[inst |-> n, serial |-> count[n] + 1, time |-> now, step |-> s,
           id |-> Pack(now, NodeId[n], s)]}
    /\ UNCHANGED <<clock, adjusted, up, floor>>

\* Mutant: the sequence is not masked.
NextStepUnmasked(s) == s + 1

\* (n.step + 1) & stepMask
NextStep(s) == IF s + 1 = StepSpan THEN 0 ELSE s + 1

\* Lines 195-211 with a reading now that is not behind Node.time: the next
\* step of the same millisecond, or a wait for the clock when the sequence is
\* exhausted, or step 0 of a new millisecond.
Stamp(t, now) ==
    LET n == Host[t]
        s == NextStep(step[n])
    IN
    \/ /\ now = time[n]
       /\ s # 0
       /\ Return(t, now, s)
    \/ /\ now = time[n]
       /\ s = 0
       /\ step' = [step EXCEPT ![n] = 0]
       /\ mu' = [mu EXCEPT ![n] = t]
       /\ pc' = [pc EXCEPT ![t] = "exhausted"]
       /\ UNCHANGED <<clock, adjusted, up, time, history>>
    \/ /\ now > time[n]
       /\ Return(t, now, 0)

\* mu.Lock() succeeds, and the clock is read for the first time.
Locks(t) ==
    /\ pc[t] = "lock"
    /\ mu[Host[t]] = NoThread

\* Mutant: a clock behind the last-issued millisecond goes unnoticed, and its
\* reading is taken for a new millisecond.
GenerateUnchecked(t) ==
    LET n == Host[t] IN
    /\ Locks(t)
    /\ IF clock[n] < time[n] THEN Return(t, clock[n], 0) ELSE Stamp(t, clock[n])

\* A reading not behind the last-issued millisecond.
Generate(t) ==
    LET n == Host[t] IN
    /\ Locks(t)
    /\ clock[n] >= time[n]
    /\ Stamp(t, clock[n])

\* Mutant: the error path forgets to unlock.
RefuseDriftLocked(t) ==
    LET n == Host[t] IN
    /\ Locks(t)
    /\ time[n] - clock[n] > Tolerance
    /\ mu' = [mu EXCEPT ![n] = t]
    /\ pc' = [pc EXCEPT ![t] = "idle"]
    /\ UNCHANGED <<clock, adjusted, up, time, step, history>>

\* Too far behind: return ErrClockBackwards and leave the node as it is.
RefuseDrift(t) ==
    LET n == Host[t] IN
    /\ Locks(t)
    /\ time[n] - clock[n] > Tolerance
    /\ pc' = [pc EXCEPT ![t] = "idle"]
    /\ UNCHANGED <<clock, adjusted, up, nodeVars, history>>

\* Mutant: the mutex is released while the drift is waited out.
BeginDriftWaitUnlocked(t) ==
    LET n == Host[t] IN
    /\ Locks(t)
    /\ clock[n] < time[n]
    /\ time[n] - clock[n] <= Tolerance
    /\ pc' = [pc EXCEPT ![t] = "drift"]
    /\ UNCHANGED <<clock, adjusted, up, nodeVars, history>>

\* A little behind: spin with the mutex held.
BeginDriftWait(t) ==
    LET n == Host[t] IN
    /\ Locks(t)
    /\ clock[n] < time[n]
    /\ time[n] - clock[n] <= Tolerance
    /\ mu' = [mu EXCEPT ![n] = t]
    /\ pc' = [pc EXCEPT ![t] = "drift"]
    /\ UNCHANGED <<clock, adjusted, up, time, step, history>>

\* The spin reads a clock that has caught up.  It never looks at the size of
\* the drift again.
EndDriftWait(t) ==
    LET n == Host[t] IN
    /\ pc[t] = "drift"
    /\ clock[n] >= time[n]
    /\ Stamp(t, clock[n])

\* Mutant: the spin ends in the exhausted millisecond itself.
EndExhaustedWaitEarly(t) ==
    LET n == Host[t] IN
    /\ pc[t] = "exhausted"
    /\ clock[n] >= time[n]
    /\ Return(t, clock[n], step[n])

\* The spin of an exhausted sequence reads a later millisecond.
EndExhaustedWait(t) ==
    LET n == Host[t] IN
    /\ pc[t] = "exhausted"
    /\ clock[n] > time[n]
    /\ Return(t, clock[n], step[n])

-----------------------------------------------------------------------------
EnterGenerate(t) == Generate(t) \/ RefuseDrift(t) \/ BeginDriftWait(t)

Next ==
    \/ \E n \in Node : Tick(n) \/ SetClock(n) \/ NewNode(n) \/ Crash(n)
    \/ \E t \in Thread :
         \/ Call(t)
         \/ EnterGenerate(t)
         \/ EndDriftWait(t)
         \/ EndExhaustedWait(t)

Spec == Init /\ [][Next]_vars

\* Time passes; a spinning goroutine is scheduled; and sync.Mutex hands itself
\* to the longest waiter in its starvation mode, so a waiter that finds it free
\* again and again gets it.
Fairness ==
    /\ \A n \in Node : WF_vars(Tick(n))
    /\ \A t \in Thread :
         /\ SF_vars(EnterGenerate(t))
         /\ WF_vars(EndDriftWait(t))
         /\ WF_vars(EndExhaustedWait(t))

FairSpec == Spec /\ Fairness

-----------------------------------------------------------------------------
(* Properties.                                                             *)

\* Every variable has its type.  A millisecond is recorded only once a clock
\* at or after the epoch has shown it, and a sequence never outgrows its mask.
TypeOK ==
    /\ clock \in [Node -> MinClock .. MaxClock]
    /\ adjusted \in [Node -> 0 .. MaxAdjust]
    /\ up \in [Node -> BOOLEAN]
    /\ mu \in [Node -> Thread \cup {NoThread}]
    /\ time \in [Node -> 0 .. MaxClock]
    /\ step \in [Node -> 0 .. (StepSpan - 1)]
    /\ pc \in [Thread -> {"idle", "lock", "drift", "exhausted"}]
    /\ issued \subseteq [inst : Node, serial : Nat, time : 0 .. MaxClock,
                        step : 0 .. (StepSpan - 1), id : Int]
    /\ count \in [Node -> Nat]
    /\ floor \in [Node -> Int]

\* No two calls of Generate anywhere in the cluster return the same ID, with
\* clocks set back and forth, nodes restarted and the sequence exhausted.
Unique == \A a, b \in issued : a.id = b.id => a = b

\* "A real ID always carries a positive timestamp offset": until the 41-bit
\* timestamp runs out, an ID is positive, and ID.Time, ID.Node and ID.Step
\* recover exactly what Generate packed.
Decodes ==
    \A r \in issued : r.time < TimeSpan =>
        /\ r.id > 0
        /\ TimeOf(r.id) = r.time
        /\ NodeOf(r.id) = NodeId[r.inst]
        /\ StepOf(r.id) = r.step

\* Seen by callers: who issued which identifier.
Handed == {[inst |-> r.inst, serial |-> r.serial, id |-> r.id] : r \in issued}

Abs == INSTANCE UniqueIds WITH issued <- Handed

\* The node implements UniqueIds: each step hands out at most one identifier,
\* new in the cluster and larger than all earlier ones of its instance.
Implements == Abs!Spec

\* The wait of Generate is finite: a call that was made returns, with an ID or
\* an error (or its process crashed), unless the model's clock has run out.
CallsReturn ==
    \A t \in Thread :
        pc[t] # "idle" ~> (pc[t] = "idle" \/ time[Host[t]] = MaxClock)

-----------------------------------------------------------------------------
(* The inductive invariant behind Unique and Implements.                   *)

Spinning(t) == pc[t] \in {"drift", "exhausted"}

\* A goroutine of n has wrapped the sequence and waits for the clock.
Exhausted(n) == \E t \in Thread : Host[t] = n /\ pc[t] = "exhausted"

\* Only a running instance with an id in range serves calls, and a goroutine
\* that spins holds the mutex of its node.
LockHeld ==
    /\ \A n \in Node : up[n] => NodeId[n] \in 0 .. (NodeSpan - 1)
    /\ \A t \in Thread :
         /\ pc[t] # "idle" => up[Host[t]]
         /\ Spinning(t) => mu[Host[t]] = t

\* A running clock shows nothing an earlier incarnation has used.
ClockPastFloor ==
    ~SteppedWhileDown => \A n \in Node : up[n] => clock[n] > floor[n]

\* What instance r.inst goes on from: everything it has handed out lies at or
\* before its (time, step), or before the crash that lost them.
Behind(r) ==
    LET n == r.inst IN
    \/ r.time <= floor[n]
    \/ /\ up[n]
       /\ \/ r.time < time[n]
          \/ r.time = time[n] /\ (r.step <= step[n] \/ Exhausted(n))

\* Every identifier is the packing of its issuer's fields, numbered within
\* the issuer's count, not stamped all zero, and behind where the issuer goes on.
IssuedBehind ==
    \A r \in issued :
        /\ NodeId[r.inst] \in 0 .. (NodeSpan - 1)
        /\ r.id = Pack(r.time, NodeId[r.inst], r.step)
        /\ r.serial <= count[r.inst]
        /\ r.time > 0 \/ r.step > 0
        /\ ~SteppedWhileDown => Behind(r)

\* One instance never stamps the same (time, step) twice.
StampsDiffer ==
    ~SteppedWhileDown =>
        \A a, b \in issued :
            a.inst = b.inst /\ a.time = b.time /\ a.step = b.step => a = b

IInv == TypeOK /\ LockHeld /\ ClockPastFloor /\ IssuedBehind /\ StampsDiffer

=============================================================================
