------------------------- MODULE SnowflakeProofs -------------------------
(***************************************************************************)
(* Proofs about Snowflake: the inductive invariant IInv for every cluster, *)
(* and from it, when no clock is set back behind a restart, Unique and the *)
(* implementation of UniqueIds.                                            *)
(***************************************************************************)
EXTENDS Snowflake, TLAPS

-----------------------------------------------------------------------------
(* Arithmetic of the packed fields.                                        *)

\* A carry-free digit: a larger high part outweighs any low digit.
LEMMA DigitOrder ==
    ASSUME NEW S \in Nat \ {0},
           NEW x \in Nat, NEW y \in Nat,
           NEW a \in 0 .. (S - 1), NEW b \in 0 .. (S - 1),
           x < y
    PROVE  x * S + a < y * S + b
<1>1. x + 1 <= y
  OBVIOUS
<1>2. (x + 1) * S <= y * S
  BY <1>1
<1>3. (x + 1) * S = x * S + S
  OBVIOUS
<1>4. x * S \in Nat /\ y * S \in Nat
  OBVIOUS
<1> QED
  BY <1>2, <1>3, <1>4

\* A packing grows strictly with (timestamp, node, step) in this order, and so
\* the raw sum of shifts is injective.
LEMMA RawOrder ==
    ASSUME NEW t \in Nat, NEW u \in Nat,
           NEW m \in 0 .. (NodeSpan - 1), NEW n \in 0 .. (NodeSpan - 1),
           NEW r \in 0 .. (StepSpan - 1), NEW s \in 0 .. (StepSpan - 1),
           \/ t < u
           \/ t = u /\ m < n
           \/ t = u /\ m = n /\ r < s
    PROVE  (t * NodeSpan + m) * StepSpan + r < (u * NodeSpan + n) * StepSpan + s
<1> DEFINE x == t * NodeSpan + m
           y == u * NodeSpan + n
<1>1. x \in Nat /\ y \in Nat
  BY SpanAssumption
<1>2. CASE t < u
  <2>1. x < y
    BY <1>2, DigitOrder, SpanAssumption
  <2> QED
    BY <2>1, <1>1, DigitOrder, SpanAssumption
<1>3. CASE t = u /\ m < n
  <2>1. x < y
    BY <1>3, SpanAssumption
  <2> QED
    BY <2>1, <1>1, DigitOrder, SpanAssumption
<1>4. CASE t = u /\ m = n /\ r < s
  <2>1. x * StepSpan \in Nat
    BY <1>1, SpanAssumption
  <2> QED
    BY <2>1, <1>4, SpanAssumption
<1> QED
  BY <1>2, <1>3, <1>4

Raw(t, n, s) == (t * NodeSpan + n) * StepSpan + s

\* Until the timestamp outgrows its field by more than the sign bit, the raw
\* sum is below 2 * SignBit; while it fits its field, below SignBit.
LEMMA RawBound ==
    ASSUME NEW t \in Nat, NEW T \in Nat, t < T,
           NEW n \in 0 .. (NodeSpan - 1), NEW s \in 0 .. (StepSpan - 1)
    PROVE  /\ Raw(t, n, s) \in Nat
           /\ Raw(t, n, s) < T * NodeSpan * StepSpan
<1> DEFINE x == t * NodeSpan + n
           y == T * NodeSpan
<1>1. x \in Nat /\ y \in Nat
  BY SpanAssumption
<1>2. 0 \in 0 .. (NodeSpan - 1) /\ 0 \in 0 .. (StepSpan - 1)
  BY SpanAssumption
<1>3. x < y + 0
  BY <1>2, DigitOrder, SpanAssumption
<1>4. x * StepSpan + s < y * StepSpan + 0
  BY <1>1, <1>2, <1>3, DigitOrder, SpanAssumption
<1>5. x * StepSpan \in Nat /\ y * StepSpan \in Nat
  BY <1>1, SpanAssumption
<1> QED
  BY <1>4, <1>5, SpanAssumption DEF Raw

LEMMA SignBitType == SignBit \in Nat
  BY SpanAssumption DEF SignBit

\* An ID determines its millisecond, node and step.
LEMMA PackInjective ==
    ASSUME NEW t \in 0 .. MaxClock, NEW u \in 0 .. MaxClock,
           NEW m \in 0 .. (NodeSpan - 1), NEW n \in 0 .. (NodeSpan - 1),
           NEW r \in 0 .. (StepSpan - 1), NEW s \in 0 .. (StepSpan - 1),
           Pack(t, m, r) = Pack(u, n, s)
    PROVE  t = u /\ m = n /\ r = s
<1>1. t \in Nat /\ u \in Nat /\ t < 2 * TimeSpan /\ u < 2 * TimeSpan
  BY ClockAssumption, SpanAssumption
<1>2. 2 * TimeSpan \in Nat
  BY SpanAssumption
<1>3. (2 * TimeSpan) * NodeSpan * StepSpan = 2 * SignBit
  BY SpanAssumption DEF SignBit
<1>4. /\ Raw(t, m, r) \in Nat /\ Raw(t, m, r) < 2 * SignBit
      /\ Raw(u, n, s) \in Nat /\ Raw(u, n, s) < 2 * SignBit
  BY <1>1, <1>2, <1>3, RawBound
<1>5. Raw(t, m, r) = Raw(u, n, s)
  BY <1>4, SignBitType DEF Pack, Int64, Raw
<1>6. \/ t < u \/ u < t
      \/ t = u /\ (m < n \/ n < m)
      \/ t = u /\ m = n /\ (r < s \/ s < r)
      \/ t = u /\ m = n /\ r = s
  BY <1>1, SpanAssumption
<1>7. ~ (Raw(t, m, r) < Raw(u, n, s)) /\ ~ (Raw(u, n, s) < Raw(t, m, r))
  BY <1>4, <1>5
<1> QED
  BY <1>1, <1>6, <1>7, RawOrder DEF Raw

\* Until the timestamp outgrows its field, an ID of one node is larger than
\* every ID of an earlier millisecond or of an earlier step of the same one.
LEMMA PackOrder ==
    ASSUME NEW t \in Nat, NEW u \in Nat, t < TimeSpan, u < TimeSpan,
           NEW n \in 0 .. (NodeSpan - 1),
           NEW r \in 0 .. (StepSpan - 1), NEW s \in 0 .. (StepSpan - 1),
           t < u \/ (t = u /\ r < s)
    PROVE  Pack(t, n, r) < Pack(u, n, s)
<1>1. /\ Raw(t, n, r) \in Nat /\ Raw(t, n, r) < SignBit
      /\ Raw(u, n, s) \in Nat /\ Raw(u, n, s) < SignBit
  BY RawBound, SpanAssumption DEF SignBit
<1>2. Raw(t, n, r) < Raw(u, n, s)
  BY RawOrder DEF Raw
<1> QED
  BY <1>1, <1>2, SignBitType DEF Pack, Int64, Raw

\* Every ID is an int64.
LEMMA PackType ==
    ASSUME NEW t \in 0 .. MaxClock, NEW n \in 0 .. (NodeSpan - 1),
           NEW s \in 0 .. (StepSpan - 1)
    PROVE  Pack(t, n, s) \in IdSpace
<1>1. t \in Nat /\ t < 2 * TimeSpan /\ 2 * TimeSpan \in Nat
  BY ClockAssumption, SpanAssumption
<1>2. (2 * TimeSpan) * NodeSpan * StepSpan = 2 * SignBit
  BY SpanAssumption DEF SignBit
<1>3. Raw(t, n, s) \in Nat /\ Raw(t, n, s) < 2 * SignBit
  BY <1>1, <1>2, RawBound
<1> QED
  BY <1>3, SignBitType DEF Pack, Int64, Raw, IdSpace

-----------------------------------------------------------------------------
(* The inductive invariant.                                                *)

\* When goroutine t may return an ID stamped (now, s): it has the mutex to
\* itself, and (now, s) lies past the node's (time, step) and past the crash.
MayReturn(t, now, s) ==
    LET n == Host[t] IN
    /\ pc[t] # "idle"
    /\ mu[n] \in {NoThread, t}
    /\ now = clock[n]
    /\ s \in 0 .. (StepSpan - 1)
    /\ \/ now > time[n]
       \/ now = time[n] /\ s > step[n] /\ ~Exhausted(n)

\* Such a stamp is later than every one its instance has used.
LEMMA FreshStamp ==
    ASSUME IInv, ~SteppedWhileDown,
           NEW t \in Thread, NEW now, NEW s, MayReturn(t, now, s),
           NEW r \in issued, r.inst = Host[t]
    PROVE  r.time < now \/ (r.time = now /\ r.step < s)
<1> DEFINE n == Host[t]
<1>1. n \in Node /\ up[n]
  BY HostAssumption DEF IInv, LockHeld, MayReturn
<1>2. now > floor[n]
  BY <1>1 DEF IInv, ClockPastFloor, MayReturn
<1>3. /\ now \in Int /\ s \in Int
      /\ time[n] \in Int /\ step[n] \in Int /\ floor[n] \in Int
      /\ r.time \in Int /\ r.step \in Int
  BY <1>1, ClockAssumption, SpanAssumption DEF IInv, TypeOK, MayReturn
<1>4. Behind(r)
  BY DEF IInv, IssuedBehind
<1>5. CASE r.time <= floor[n]
  BY <1>2, <1>3, <1>5
<1>6. CASE r.time < time[n]
  BY <1>3, <1>6 DEF MayReturn
<1>7. CASE r.time = time[n] /\ (r.step <= step[n] \/ Exhausted(n))
  BY <1>3, <1>7 DEF MayReturn
<1> QED
  BY <1>4, <1>5, <1>6, <1>7 DEF Behind

\* The record that the return adds.
Stamped(t, now, s) ==
    [inst |-> Host[t], serial |-> count[Host[t]] + 1, time |-> now, step |-> s,
     id |-> Pack(now, NodeId[Host[t]], s)]

\* A running clock that may return shows a millisecond of the timestamp field.
LEMMA StampedType ==
    ASSUME IInv, NEW t \in Thread, NEW now, NEW s, MayReturn(t, now, s)
    PROVE  /\ now \in 0 .. MaxClock
           /\ NodeId[Host[t]] \in 0 .. (NodeSpan - 1)
           /\ Pack(now, NodeId[Host[t]], s) \in IdSpace
           /\ Stamped(t, now, s) \in [inst : Node, serial : Nat,
                  time : 0 .. MaxClock, step : 0 .. (StepSpan - 1), id : Int]
<1>1. Host[t] \in Node /\ up[Host[t]]
  BY HostAssumption DEF IInv, LockHeld, MayReturn
<1>2. now \in 0 .. MaxClock
  BY <1>1, ClockAssumption DEF IInv, TypeOK, MayReturn
<1>3. NodeId[Host[t]] \in 0 .. (NodeSpan - 1)
  BY <1>1 DEF IInv, LockHeld
<1>4. Pack(now, NodeId[Host[t]], s) \in IdSpace
  BY <1>2, <1>3, PackType DEF MayReturn
<1>5. Pack(now, NodeId[Host[t]], s) \in Int
  BY <1>4, SignBitType DEF IdSpace
<1>6. count[Host[t]] + 1 \in Nat
  BY <1>1 DEF IInv, TypeOK
<1> QED
  BY <1>1, <1>2, <1>3, <1>4, <1>5, <1>6 DEF Stamped, MayReturn

LEMMA ReturnInv ==
    ASSUME IInv, NEW t \in Thread, NEW now, NEW s,
           MayReturn(t, now, s), Return(t, now, s)
    PROVE  IInv'
<1> DEFINE n == Host[t]
           new == Stamped(t, now, s)
<1> USE DEF Return
<1>1. n \in Node /\ up[n]
  BY HostAssumption DEF IInv, LockHeld, MayReturn
<1>2. issued' = issued \cup {new}
  BY DEF Stamped
<1>3. TypeOK'
  BY <1>1, <1>2, StampedType DEF IInv, TypeOK, MayReturn
<1>4. LockHeld'
  BY <1>1 DEF IInv, TypeOK, LockHeld, Spinning, MayReturn
<1>5. ClockPastFloor'
  BY DEF IInv, ClockPastFloor
<1>6. IssuedBehind'
  <2> SUFFICES ASSUME NEW r \in issued'
               PROVE  /\ NodeId[r.inst] \in 0 .. (NodeSpan - 1)
                      /\ r.id = Pack(r.time, NodeId[r.inst], r.step)
                      /\ r.serial <= count'[r.inst]
                      /\ r.time > 0 \/ r.step > 0
                      /\ ~SteppedWhileDown => Behind(r)'
    BY DEF IssuedBehind
  <2>1. CASE r = new
    <3>1. count[n] + 1 <= count'[n]
      BY <1>1 DEF IInv, TypeOK
    <3>2. /\ r.inst = n /\ r.serial = count[n] + 1 /\ r.time = now /\ r.step = s
          /\ r.id = Pack(now, NodeId[n], s)
      BY <2>1 DEF Stamped
    <3>3. Behind(r)'
      BY <1>1, <3>2, SpanAssumption DEF Behind, IInv, TypeOK, MayReturn
    <3>4. r.time > 0 \/ r.step > 0
      BY <1>1, <3>2, StampedType, ClockAssumption, SpanAssumption
      DEF IInv, TypeOK, MayReturn
    <3> QED
      BY <3>1, <3>2, <3>3, <3>4, StampedType
  <2>2. CASE r \in issued
    <3>1. r.inst \in Node /\ r.serial \in Nat
      BY <2>2 DEF IInv, TypeOK
    <3>2. r.serial <= count'[r.inst]
      BY <1>1, <2>2, <3>1 DEF IInv, TypeOK, IssuedBehind
    <3>3. ASSUME ~SteppedWhileDown, r.inst = n
          PROVE  Behind(r)'
      <4>1. r.time < now \/ (r.time = now /\ r.step < s)
        BY <2>2, <3>3, FreshStamp
      <4>2. r.step \in Int /\ s \in Int
        BY <2>2, SpanAssumption DEF IInv, TypeOK, MayReturn
      <4> QED
        BY <1>1, <3>3, <4>1, <4>2 DEF Behind, IInv, TypeOK
    <3>4. ASSUME ~SteppedWhileDown, r.inst # n
          PROVE  Behind(r)'
      <4>1. Behind(r)
        BY <2>2, <3>4 DEF IInv, IssuedBehind
      <4>2. Exhausted(r.inst) => Exhausted(r.inst)'
        BY <3>1, <3>4, HostAssumption
        DEF Exhausted, IInv, TypeOK, LockHeld, Spinning, MayReturn
      <4> QED
        BY <3>1, <3>4, <4>1, <4>2 DEF Behind, IInv, TypeOK
    <3> QED
      BY <2>2, <3>2, <3>3, <3>4 DEF IInv, IssuedBehind
  <2> QED
    BY <1>2, <2>1, <2>2
<1>7. StampsDiffer'
  <2>1. ASSUME ~SteppedWhileDown, NEW r \in issued,
               r.inst = n, r.time = now, r.step = s
        PROVE  FALSE
    <3>1. s \in Int /\ now \in Int
      BY StampedType, SpanAssumption, ClockAssumption DEF MayReturn
    <3> QED
      BY <2>1, <3>1, FreshStamp
  <2>2. new.inst = n /\ new.time = now /\ new.step = s
    BY DEF Stamped
  <2> QED
    BY <1>2, <2>1, <2>2 DEF IInv, StampsDiffer
<1> QED
  BY <1>3, <1>4, <1>5, <1>6, <1>7 DEF IInv

\* A goroutine that has just locked, or has just seen the clock catch up.
AtStamp(t) ==
    \/ Locks(t)
    \/ pc[t] = "drift"

\* Wrapping the sequence keeps the invariant although step falls back to 0: from
\* then on the node counts as exhausted in its millisecond.
LEMMA ExhaustInv ==
    ASSUME IInv, NEW t \in Thread, AtStamp(t),
           Stamp(t, clock[Host[t]]), ~ \E s : Return(t, clock[Host[t]], s)
    PROVE  IInv'
<1> DEFINE n == Host[t]
<1>1. /\ step' = [step EXCEPT ![n] = 0]
      /\ mu' = [mu EXCEPT ![n] = t]
      /\ pc' = [pc EXCEPT ![t] = "exhausted"]
      /\ UNCHANGED <<clock, adjusted, up, time, history>>
  BY DEF Stamp
<1>2. n \in Node /\ up[n]
  BY HostAssumption DEF IInv, LockHeld, AtStamp, Locks
<1>3. TypeOK'
  BY <1>1, <1>2, SpanAssumption DEF IInv, TypeOK, history
<1>4. LockHeld'
  BY <1>1, <1>2, HostAssumption
  DEF IInv, TypeOK, LockHeld, Spinning, AtStamp, Locks
<1>5. ClockPastFloor'
  BY <1>1 DEF IInv, ClockPastFloor, history
<1>6. IssuedBehind'
  <2> SUFFICES ASSUME NEW r \in issued, ~SteppedWhileDown
               PROVE  Behind(r)'
    BY <1>1 DEF IInv, IssuedBehind, history
  <2>1. r.inst \in Node /\ Behind(r)
    BY DEF IInv, TypeOK, IssuedBehind
  <2>2. Exhausted(n)'
    BY <1>1 DEF Exhausted, IInv, TypeOK
  <2>3. r.inst # n => step'[r.inst] = step[r.inst]
    BY <1>1, <2>1 DEF IInv, TypeOK
  <2>4. r.inst # n /\ Exhausted(r.inst) => Exhausted(r.inst)'
    BY <1>1, <2>1 DEF Exhausted, IInv, TypeOK
  <2>5. r.inst = n /\ r.time = time[n] => Behind(r)'
    BY <1>1, <1>2, <2>2 DEF Behind, history
  <2> QED
    BY <1>1, <2>1, <2>3, <2>4, <2>5 DEF Behind, history
<1>7. StampsDiffer'
  BY <1>1 DEF IInv, StampsDiffer, history
<1> QED
  BY <1>3, <1>4, <1>5, <1>6, <1>7 DEF IInv

\* Nobody else on the node waits out an exhausted sequence.
LEMMA StampAlone ==
    ASSUME IInv, NEW t \in Thread, AtStamp(t)
    PROVE  /\ pc[t] # "idle"
           /\ mu[Host[t]] \in {NoThread, t}
           /\ ~Exhausted(Host[t])
<1>1. mu[Host[t]] \in {NoThread, t}
  BY DEF IInv, LockHeld, Spinning, AtStamp, Locks
<1>2. ASSUME NEW u \in Thread, Host[u] = Host[t], pc[u] = "exhausted"
      PROVE  FALSE
  BY <1>1, <1>2, HostAssumption DEF IInv, LockHeld, Spinning, AtStamp, Locks
<1> QED
  BY <1>1, <1>2 DEF Exhausted, AtStamp, Locks

\* What Generate returns it may return.
LEMMA StampReturn ==
    ASSUME IInv, NEW t \in Thread, AtStamp(t), Stamp(t, clock[Host[t]])
    PROVE  \/ ~ \E s : Return(t, clock[Host[t]], s)
           \/ \E s : /\ MayReturn(t, clock[Host[t]], s)
                    /\ Return(t, clock[Host[t]], s)
<1> DEFINE n == Host[t]
<1>1. n \in Node
  BY HostAssumption
<1>2. step[n] \in 0 .. (StepSpan - 1) /\ 0 \in 0 .. (StepSpan - 1)
  BY <1>1, SpanAssumption DEF IInv, TypeOK
<1>3. CASE clock[n] = time[n] /\ NextStep(step[n]) # 0
           /\ Return(t, clock[n], NextStep(step[n]))
  <2>1. NextStep(step[n]) \in 0 .. (StepSpan - 1) /\ NextStep(step[n]) > step[n]
    BY <1>2, <1>3, SpanAssumption DEF NextStep
  <2> QED
    BY <1>3, <2>1, StampAlone DEF MayReturn
<1>4. CASE clock[n] > time[n] /\ Return(t, clock[n], 0)
  BY <1>2, <1>4, StampAlone DEF MayReturn
<1>5. CASE pc' = [pc EXCEPT ![t] = "exhausted"]
  <2>1. pc'[t] = "exhausted"
    BY <1>5 DEF IInv, TypeOK
  <2>2. ASSUME NEW s, Return(t, clock[n], s) PROVE pc'[t] = "idle"
    BY <2>2 DEF Return, IInv, TypeOK
  <2> QED
    BY <2>1, <2>2
<1> QED
  BY <1>3, <1>4, <1>5 DEF Stamp

LEMMA StampInv ==
    ASSUME IInv, NEW t \in Thread, AtStamp(t), Stamp(t, clock[Host[t]])
    PROVE  IInv'
  BY StampReturn, ReturnInv, ExhaustInv

LEMMA InitInv == Init => IInv
<1> SUFFICES ASSUME Init PROVE IInv
  OBVIOUS
<1>1. TypeOK
  BY ClockAssumption, SpanAssumption DEF Init, TypeOK
<1> QED
  BY <1>1 DEF Init, IInv, LockHeld, ClockPastFloor, IssuedBehind, StampsDiffer,
              Spinning

\* One step per action; the moves of a goroutine that leave the node's stamps
\* alone share <1>5.
LEMMA StepInv == IInv /\ [Next]_vars => IInv'
<1> SUFFICES ASSUME IInv, [Next]_vars PROVE IInv'
  OBVIOUS
<1> USE DEF history, nodeVars
<1>1. ASSUME NEW n \in Node, Tick(n) PROVE IInv'
  <2> USE <1>1 DEF Tick
  <2>1. TypeOK'
    BY ClockAssumption DEF IInv, TypeOK
  <2>2. LockHeld' /\ IssuedBehind' /\ StampsDiffer'
    BY DEF IInv, LockHeld, Spinning, IssuedBehind, Behind, Exhausted, StampsDiffer
  <2>3. ClockPastFloor'
    <3> SUFFICES ASSUME ~SteppedWhileDown, NEW m \in Node, up[m]
                 PROVE  clock'[m] > floor[m]
      BY DEF ClockPastFloor
    <3>1. clock[m] > floor[m] /\ clock[m] \in Int /\ floor[m] \in Int
      BY ClockAssumption DEF IInv, TypeOK, ClockPastFloor
    <3> QED
      BY <3>1 DEF IInv, TypeOK
  <2> QED
    BY <2>1, <2>2, <2>3 DEF IInv
<1>2. ASSUME NEW n \in Node, SetClock(n) PROVE IInv'
  <2>1. PICK c \in MinClock .. MaxClock :
          ClockMaySetTo(n, c) /\ clock' = [clock EXCEPT ![n] = c]
    BY <1>2 DEF SetClock
  <2> USE <1>2 DEF SetClock
  <2>2. TypeOK'
    BY <2>1, ClockAssumption DEF IInv, TypeOK
  <2>3. LockHeld' /\ IssuedBehind' /\ StampsDiffer'
    BY DEF IInv, LockHeld, Spinning, IssuedBehind, Behind, Exhausted, StampsDiffer
  <2>4. ClockPastFloor'
    BY <2>1 DEF IInv, TypeOK, ClockPastFloor, ClockMaySetTo
  <2> QED
    BY <2>2, <2>3, <2>4 DEF IInv
<1>3. ASSUME NEW n \in Node, NewNode(n) PROVE IInv'
  <2> USE <1>3 DEF NewNode
  <2>1. TypeOK'
    BY ClockAssumption, SpanAssumption DEF IInv, TypeOK
  <2>2. \A t \in Thread : Host[t] = n => pc[t] = "idle"
    BY DEF IInv, LockHeld
  <2>3. LockHeld'
    BY <2>2, HostAssumption
    DEF IInv, TypeOK, LockHeld, Spinning, NewNodeAccepts
  <2>4. ClockPastFloor'
    BY DEF IInv, TypeOK, ClockPastFloor, ClockMaySetTo
  <2>5. IssuedBehind'
    <3>1. ASSUME NEW r \in issued, Behind(r) PROVE Behind(r)'
      BY <3>1 DEF Behind, Exhausted, IInv, TypeOK
    <3> QED
      BY <3>1 DEF IInv, IssuedBehind
  <2>6. StampsDiffer'
    BY DEF IInv, StampsDiffer
  <2> QED
    BY <2>1, <2>3, <2>4, <2>5, <2>6 DEF IInv
<1>4. ASSUME NEW n \in Node, Crash(n) PROVE IInv'
  <2> USE <1>4 DEF Crash
  <2>1. TypeOK'
    BY ClockAssumption DEF IInv, TypeOK
  <2>2. LockHeld'
    BY HostAssumption DEF IInv, TypeOK, LockHeld, Spinning
  <2>3. ClockPastFloor'
    BY DEF IInv, TypeOK, ClockPastFloor
  <2>4. IssuedBehind'
    <3>1. time[n] \in Int /\ floor[n] \in Int
          /\ floor' = [floor EXCEPT ![n] = IF time[n] > @ THEN time[n] ELSE @]
      BY ClockAssumption DEF IInv, TypeOK
    <3>2. floor'[n] >= time[n] /\ floor'[n] >= floor[n] /\ floor'[n] \in Int
      BY <3>1 DEF IInv, TypeOK
    <3>3. ASSUME NEW r \in issued, Behind(r) PROVE Behind(r)'
      <4>1. r.inst \in Node /\ r.time \in Int
        BY ClockAssumption DEF IInv, TypeOK
      <4>2. CASE r.inst = n
        BY <3>1, <3>2, <3>3, <4>1, <4>2 DEF Behind
      <4>3. CASE r.inst # n
        <5>1. floor'[r.inst] = floor[r.inst] /\ up'[r.inst] = up[r.inst]
          BY <3>1, <4>1, <4>3 DEF IInv, TypeOK
        <5>2. Exhausted(r.inst) => Exhausted(r.inst)'
          BY <4>1, <4>3 DEF Exhausted
        <5> QED
          BY <3>3, <4>1, <5>1, <5>2 DEF Behind
      <4> QED
        BY <4>2, <4>3
    <3> QED
      BY <3>3 DEF IInv, IssuedBehind
  <2>5. StampsDiffer'
    BY DEF IInv, StampsDiffer
  <2> QED
    BY <2>1, <2>2, <2>3, <2>4, <2>5 DEF IInv
<1>5. ASSUME NEW t \in Thread, UNCHANGED <<clock, adjusted, up, time, step>>,
             UNCHANGED history, up[Host[t]],
             pc[t] # "exhausted",
             \/ /\ pc' = [pc EXCEPT ![t] = "idle"]
                /\ mu' = mu
             \/ /\ pc' = [pc EXCEPT ![t] = "lock"]
                /\ mu' = mu
             \/ /\ pc' = [pc EXCEPT ![t] = "drift"]
                /\ mu' = [mu EXCEPT ![Host[t]] = t]
                /\ mu[Host[t]] = NoThread
      PROVE  IInv'
  <2> USE <1>5
  <2>1. TypeOK'
    BY HostAssumption DEF IInv, TypeOK
  <2>2. LockHeld'
    BY HostAssumption DEF IInv, TypeOK, LockHeld, Spinning
  <2>3. ClockPastFloor' /\ StampsDiffer'
    BY DEF IInv, ClockPastFloor, StampsDiffer
  <2>4. ASSUME NEW n, Exhausted(n) PROVE Exhausted(n)'
    BY <2>4 DEF Exhausted, IInv, TypeOK
  <2>5. IssuedBehind'
    BY <2>4 DEF IInv, IssuedBehind, Behind
  <2> QED
    BY <2>1, <2>2, <2>3, <2>5 DEF IInv
<1>6. ASSUME NEW t \in Thread, Call(t) PROVE IInv'
  BY <1>5, <1>6 DEF Call
<1>7. ASSUME NEW t \in Thread, Generate(t) PROVE IInv'
  BY <1>7, StampInv DEF Generate, AtStamp
<1>8. ASSUME NEW t \in Thread, RefuseDrift(t) PROVE IInv'
  BY <1>5, <1>8 DEF RefuseDrift, Locks, IInv, LockHeld
<1>9. ASSUME NEW t \in Thread, BeginDriftWait(t) PROVE IInv'
  BY <1>5, <1>9 DEF BeginDriftWait, Locks, IInv, LockHeld
<1>10. ASSUME NEW t \in Thread, EndDriftWait(t) PROVE IInv'
  BY <1>10, StampInv DEF EndDriftWait, AtStamp
<1>11. ASSUME NEW t \in Thread, EndExhaustedWait(t) PROVE IInv'
  <2>1. MayReturn(t, clock[Host[t]], step[Host[t]])
    BY <1>11, HostAssumption
    DEF EndExhaustedWait, MayReturn, IInv, TypeOK, LockHeld, Spinning
  <2> QED
    BY <1>11, <2>1, ReturnInv DEF EndExhaustedWait
<1>12. CASE UNCHANGED vars
  BY <1>12 DEF vars, IInv, TypeOK, LockHeld, ClockPastFloor, IssuedBehind,
               StampsDiffer, Spinning, Behind, Exhausted
<1> QED
  BY <1>1, <1>2, <1>3, <1>4, <1>6, <1>7, <1>8, <1>9, <1>10, <1>11, <1>12
  DEF Next, EnterGenerate

-----------------------------------------------------------------------------
(* The theorems.                                                           *)

\* The inductive invariant holds in every cluster, whatever its clocks do.
THEOREM Invariance == Spec => []IInv
  BY InitInv, StepInv, PTL DEF Spec

\* Every variable keeps its type.
THEOREM TypeCorrect == Spec => []TypeOK
<1>1. IInv => TypeOK
  BY DEF IInv
<1> QED
  BY <1>1, Invariance, PTL

LEMMA UniqueFromInv == IInv /\ ~SteppedWhileDown => Unique
<1> SUFFICES ASSUME IInv, ~SteppedWhileDown,
                    NEW a \in issued, NEW b \in issued, a.id = b.id
             PROVE  a = b
  BY DEF Unique
<1>1. /\ a.inst \in Node /\ b.inst \in Node
      /\ a.time \in 0 .. MaxClock /\ b.time \in 0 .. MaxClock
      /\ a.step \in 0 .. (StepSpan - 1) /\ b.step \in 0 .. (StepSpan - 1)
  BY DEF IInv, TypeOK
<1>2. /\ NodeId[a.inst] \in 0 .. (NodeSpan - 1)
      /\ NodeId[b.inst] \in 0 .. (NodeSpan - 1)
      /\ Pack(a.time, NodeId[a.inst], a.step) = Pack(b.time, NodeId[b.inst], b.step)
  BY DEF IInv, IssuedBehind
<1>3. a.time = b.time /\ NodeId[a.inst] = NodeId[b.inst] /\ a.step = b.step
  BY <1>1, <1>2, PackInjective
<1>4. a.inst = b.inst
  BY <1>1, <1>3, NodeIdAssumption
<1> QED
  BY <1>3, <1>4 DEF IInv, StampsDiffer

\* No two calls of Generate return the same ID, in a cluster of any size with
\* distinct node ids, however its clocks are set and its processes crash, if
\* no clock is set back behind a restart.
THEOREM UniqueHolds ==
    ASSUME ~SteppedWhileDown
    PROVE  Spec => []Unique
<1>1. IInv => Unique
  BY UniqueFromInv
<1> QED
  BY <1>1, Invariance, PTL

LEMMA DecodesFromInv ==
    ASSUME NEW t \in Nat, t < TimeSpan,
           NEW n \in 0 .. (NodeSpan - 1), NEW s \in 0 .. (StepSpan - 1)
    PROVE  /\ TimeOf(Pack(t, n, s)) = t
           /\ NodeOf(Pack(t, n, s)) = n
           /\ StepOf(Pack(t, n, s)) = s
<1> DEFINE x == t * NodeSpan + n
<1>1. x \in Nat
  BY SpanAssumption
<1>2. Pack(t, n, s) = x * StepSpan + s
  BY RawBound, SpanAssumption, SignBitType DEF Pack, Int64, Raw, SignBit
<1>3. (x * StepSpan + s) \div StepSpan = x /\ (x * StepSpan + s) % StepSpan = s
  BY <1>1, SpanAssumption
<1>4. x \div NodeSpan = t /\ x % NodeSpan = n
  BY SpanAssumption
<1> QED
  BY <1>2, <1>3, <1>4 DEF TimeOf, NodeOf, StepOf

\* Until the timestamp field is exhausted, an ID is positive and decodes to
\* exactly the millisecond, node and step it was made of.
THEOREM DecodesHolds == Spec => []Decodes
<1>1. ASSUME IInv PROVE Decodes
  <2> SUFFICES ASSUME NEW r \in issued, r.time < TimeSpan
               PROVE  /\ r.id > 0
                      /\ TimeOf(r.id) = r.time
                      /\ NodeOf(r.id) = NodeId[r.inst]
                      /\ StepOf(r.id) = r.step
    BY DEF Decodes
  <2> DEFINE n == NodeId[r.inst]
  <2>1. /\ r.time \in Nat /\ n \in 0 .. (NodeSpan - 1)
        /\ r.step \in 0 .. (StepSpan - 1)
        /\ r.time > 0 \/ r.step > 0
        /\ r.id = Pack(r.time, n, r.step)
    BY <1>1 DEF IInv, TypeOK, IssuedBehind
  <2>2. r.id > 0
    <3>1. 0 \in 0 .. (NodeSpan - 1) /\ 0 \in 0 .. (StepSpan - 1)
      BY SpanAssumption
    <3>2. \/ 0 < r.time
          \/ 0 = r.time /\ 0 < n
          \/ 0 = r.time /\ 0 = n /\ 0 < r.step
      BY <2>1, SpanAssumption
    <3>3. Raw(0, 0, 0) < Raw(r.time, n, r.step)
      BY <2>1, <3>1, <3>2, RawOrder DEF Raw
    <3>4. Raw(r.time, n, r.step) \in Nat /\ Raw(r.time, n, r.step) < SignBit
      BY <2>1, RawBound, SpanAssumption DEF SignBit
    <3>5. Raw(0, 0, 0) = 0
      BY SpanAssumption DEF Raw
    <3> QED
      BY <2>1, <3>3, <3>4, <3>5, SignBitType DEF Pack, Int64, Raw
  <2> QED
    BY <2>1, <2>2, DecodesFromInv
<1> QED
  BY <1>1, Invariance, PTL

-----------------------------------------------------------------------------
(* Snowflake implements UniqueIds.                                         *)

\* A return hands out one identifier that is new, and the issuer's largest.
LEMMA ReturnImplements ==
    ASSUME IInv, ~SteppedWhileDown, MaxClock < TimeSpan,
           NEW t \in Thread, NEW now, NEW s,
           MayReturn(t, now, s), Return(t, now, s)
    PROVE  Abs!Next
<1> DEFINE n == Host[t]
           new == Stamped(t, now, s)
           id == Pack(now, NodeId[n], s)
<1>1. n \in Node
  BY HostAssumption
<1>2. /\ now \in 0 .. MaxClock /\ NodeId[n] \in 0 .. (NodeSpan - 1)
      /\ s \in 0 .. (StepSpan - 1) /\ id \in IdSpace
  BY StampedType DEF MayReturn
<1>3. issued' = issued \cup {new}
  BY DEF Return, Stamped
<1>4. Handed' = Handed \cup {[inst |-> n, serial |-> count[n] + 1, id |-> id]}
  <2> DEFINE view(r) == [inst |-> r.inst, serial |-> r.serial, id |-> r.id]
  <2>1. Handed = {view(r) : r \in issued} /\ Handed' = {view(r) : r \in issued'}
    BY DEF Handed
  <2>2. view(new) = [inst |-> n, serial |-> count[n] + 1, id |-> id]
    BY DEF Stamped
  <2> HIDE DEF view, new
  <2>3. {view(r) : r \in issued \cup {new}} = {view(r) : r \in issued} \cup {view(new)}
    OBVIOUS
  <2> QED
    BY <1>3, <2>1, <2>2, <2>3
<1>5. ASSUME NEW r \in issued
      PROVE  r.id # id /\ (r.inst = n => r.id < id)
  <2>1. /\ r.inst \in Node /\ r.time \in 0 .. MaxClock
        /\ r.step \in 0 .. (StepSpan - 1)
        /\ NodeId[r.inst] \in 0 .. (NodeSpan - 1)
        /\ r.id = Pack(r.time, NodeId[r.inst], r.step)
    BY DEF IInv, TypeOK, IssuedBehind
  <2>2. CASE r.inst = n
    <3>1. r.time < now \/ (r.time = now /\ r.step < s)
      BY <2>2, FreshStamp
    <3>2. /\ r.time \in Nat /\ r.time < TimeSpan
          /\ now \in Nat /\ now < TimeSpan
      BY <1>2, <2>1, ClockAssumption, SpanAssumption
    <3>3. r.id < id
      BY <1>2, <2>1, <2>2, <3>1, <3>2, PackOrder
    <3>4. r.id \in Int /\ id \in Int
      BY <1>2, SignBitType DEF IInv, TypeOK, IdSpace
    <3> QED
      BY <3>3, <3>4
  <2>3. CASE r.inst # n
    <3>1. NodeId[r.inst] # NodeId[n]
      BY <1>1, <2>1, <2>3, NodeIdAssumption
    <3> QED
      BY <1>2, <2>1, <2>3, <3>1, PackInjective
  <2> QED
    BY <2>2, <2>3
<1>6. \A r \in Handed : r.id # id /\ (r.inst = n => r.id < id)
  BY <1>5 DEF Handed
<1>7. count' = [count EXCEPT ![n] = @ + 1]
  BY DEF Return
<1>8. Abs!NextID(n, id)
  BY <1>4, <1>6, <1>7 DEF Abs!NextID
<1> QED
  BY <1>1, <1>2, <1>8 DEF Abs!Next

\* With no clock set back behind a restart, and until the timestamp field is
\* exhausted, the cluster hands out identifiers as UniqueIds describes.
THEOREM Implementation ==
    ASSUME ~SteppedWhileDown, MaxClock < TimeSpan
    PROVE  Spec => Implements
<1>1. Init => Abs!Init
  BY DEF Init, Abs!Init, Handed
<1>2. IInv /\ [Next]_vars => [Abs!Next]_(Abs!vars)
  <2> SUFFICES ASSUME IInv, [Next]_vars PROVE Abs!Next \/ UNCHANGED Abs!vars
    BY DEF Abs!vars
  <2>1. ASSUME UNCHANGED <<issued, count>> PROVE UNCHANGED Abs!vars
    BY <2>1 DEF Abs!vars, Handed
  <2>2. ASSUME NEW t \in Thread, AtStamp(t), Stamp(t, clock[Host[t]])
        PROVE  Abs!Next \/ UNCHANGED Abs!vars
    <3>1. CASE \E s : /\ MayReturn(t, clock[Host[t]], s)
                     /\ Return(t, clock[Host[t]], s)
      BY <3>1, ReturnImplements
    <3>2. CASE ~ \E s : Return(t, clock[Host[t]], s)
      BY <2>1, <2>2, <3>2 DEF Stamp, history
    <3> QED
      BY <2>2, <3>1, <3>2, StampReturn
  <2>3. ASSUME NEW t \in Thread, EndExhaustedWait(t) PROVE Abs!Next
    <3>1. MayReturn(t, clock[Host[t]], step[Host[t]])
      BY <2>3, HostAssumption
      DEF EndExhaustedWait, MayReturn, IInv, TypeOK, LockHeld, Spinning
    <3> QED
      BY <2>3, <3>1, ReturnImplements DEF EndExhaustedWait
  <2>4. ASSUME NEW t \in Thread, Generate(t) \/ EndDriftWait(t)
        PROVE  Abs!Next \/ UNCHANGED Abs!vars
    BY <2>2, <2>4 DEF Generate, EndDriftWait, AtStamp
  <2>5. ASSUME NEW n \in Node, Tick(n) \/ SetClock(n) \/ NewNode(n) \/ Crash(n)
        PROVE  UNCHANGED Abs!vars
    BY <2>1, <2>5 DEF Tick, SetClock, NewNode, Crash, history
  <2>6. ASSUME NEW t \in Thread, Call(t) \/ RefuseDrift(t) \/ BeginDriftWait(t)
        PROVE  UNCHANGED Abs!vars
    BY <2>1, <2>6 DEF Call, RefuseDrift, BeginDriftWait, history
  <2>7. CASE UNCHANGED vars
    BY <2>1, <2>7 DEF vars
  <2> QED
    BY <2>3, <2>4, <2>5, <2>6, <2>7 DEF Next, EnterGenerate
<1> QED
  BY <1>1, <1>2, Invariance, PTL DEF Spec, Implements, Abs!Spec

=============================================================================
