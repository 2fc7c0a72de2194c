----------------------------- MODULE LogHandler -----------------------------
(***************************************************************************)
(* pkg/log/color_log.go: the handler that renders records as single lines. *)
(* A service derives handlers from the first one with WithAttrs and        *)
(* WithGroup while other goroutines log through them; all of them share    *)
(* one writer.  Slices are modelled as Go has them, a length and an array  *)
(* on a heap that several slices may point to.  A key is the sequence of   *)
(* names that the dots of the rendered key separate, so the empty string   *)
(* is <<>>.  Values are given resolved; colours, times and quoting are     *)
(* left out.                                                               *)
(***************************************************************************)
EXTENDS Integers, Sequences, SequencesExt

CONSTANTS
    Goroutine,
    Name,         \* names of groups and keys
    Attr,         \* the attributes in use; closed under membership in a group
    Nesting,      \* [Attr -> Nat]: how many groups deep each of them goes
    AttrList,     \* the lists of them that calls are made with
    Level,        \* the levels records have
    MinLevel,     \* ColorHandlerOptions.Level
    MaxHandlers,  \* bound on the handlers derived
    MaxLines      \* bound on the records logged

NoAttr == [key |-> <<>>, kind |-> "any", value |-> "nil", members |-> <<>>]

ASSUME LogAssumption ==
    /\ \A a \in Attr :
         /\ a = [key |-> a.key, kind |-> a.kind, value |-> a.value, members |-> a.members]
         /\ a.key \in {<<>>} \cup {<<n>> : n \in Name}
         /\ a.members \in Seq(Attr) /\ (a.kind # "group" => a.members = <<>>)
    /\ Nesting \in [Attr -> Nat]
    /\ \A a \in Attr : \A i \in DOMAIN a.members : Nesting[a.members[i]] < Nesting[a]
    /\ AttrList \subseteq Seq(Attr)
    /\ MinLevel \in Int /\ Level \subseteq Int
    /\ MaxHandlers \in Nat \ {0} /\ MaxLines \in Nat

VARIABLES
    heap,      \* Seq(array): the arrays behind the handlers' slices
    handlers,  \* Seq(handler); made is its history of calls
    locked,    \* the mutexes that are held
    calls,     \* [Goroutine -> the call of Handle it is in]
    logged,    \* history: the records given to Handle, in order
    out        \* what has reached the writer, in pieces

vars == <<heap, handlers, locked, calls, logged, out>>

Idle == [pc |-> "idle", mu |-> 0, line |-> 0, text |-> <<>>]

-----------------------------------------------------------------------------
(* Attributes.                                                             *)

\* Mutant: the dot is put in front of the first name, too.
joinGroupDotted(prefix, name) == IF prefix = <<>> THEN <<"">> \o name ELSE prefix \o name

joinGroup(prefix, name) == prefix \o name

Segment == Name \cup {""}
Path == Seq(Segment)

\* appendColorAttr: what it appends, each key qualified by its groups.
appendColorAttr[a \in Attr] == [group \in Path |->
    IF a = NoAttr THEN <<>>
    ELSE IF a.kind = "group"
         THEN FlattenSeq([i \in DOMAIN a.members |->
                  appendColorAttr[a.members[i]][joinGroup(group, a.key)]])
         ELSE <<[a EXCEPT !.key = joinGroup(group, @)]>>]

IsEmptyString(a) == a.kind = "string" /\ a.value = ""

\* writeColorAttr: the pairs it writes.  Attributes of a handler come with
\* qualified keys and are not in Attr, hence no recursion for them.
WritePlain(a, group) ==
    IF a = NoAttr \/ IsEmptyString(a) THEN <<>>
    ELSE <<[key |-> joinGroup(group, a.key), value |-> a.value]>>

writeColorAttr[a \in Attr] == [group \in Path |->
    IF a.kind = "group"
    THEN FlattenSeq([i \in DOMAIN a.members |->
             writeColorAttr[a.members[i]][joinGroup(group, a.key)]])
    ELSE WritePlain(a, group)]

Concat(f(_), s) == FlattenSeq([i \in DOMAIN s |-> f(s[i])])

levelTag(level) ==
    CASE level >= 8 -> "ERROR"
      [] level >= 4 /\ level < 8 -> "WARN"
      [] level >= 0 /\ level < 4 -> "INFO"
      [] level < 0 -> "DEBUG"

\* The attributes a slice holds.
Slice(h) == SubSeq(heap[h.attrs.array], 1, h.attrs.len)

-----------------------------------------------------------------------------
(* Handlers.                                                               *)

\* NewColorHandler: no attributes, no group, a mutex of its own.
Init ==
    /\ heap = <<<<>>>>
    /\ handlers = <<[attrs |-> [array |-> 1, len |-> 0], group |-> <<>>,
                     mu |-> 1, made |-> <<>>]>>
    /\ locked = {}
    /\ calls = [g \in Goroutine |-> Idle]
    /\ logged = <<>>
    /\ out = <<>>

Derive(nh) ==
    /\ Len(handlers) < MaxHandlers
    /\ handlers' = Append(handlers, nh)
    /\ UNCHANGED <<locked, calls, logged, out>>

\* Mutant: the new attributes are appended to the parent's own slice.
WithAttrsInPlace(h, attrs) ==
    LET new == Slice(h) \o Concat(LAMBDA a : appendColorAttr[a][h.group], attrs)
    IN  /\ heap' = [heap EXCEPT ![h.attrs.array] =
                       new \o SubSeq(@, Len(new) + 1, Len(@))]
        /\ Derive([h EXCEPT !.attrs.len = Len(new),
                            !.made = Append(@, [op |-> "attrs", attrs |-> attrs])])

\* Mutant: the group in effect is left to be added when a record is rendered.
WithAttrsUnqualified(h, attrs) ==
    LET new == Slice(h) \o Concat(LAMBDA a : appendColorAttr[a][<<>>], attrs)
    IN  /\ heap' = Append(heap, new)
        /\ Derive([h EXCEPT !.attrs = [array |-> Len(heap) + 1, len |-> Len(new)],
                            !.made = Append(@, [op |-> "attrs", attrs |-> attrs])])

\* The attributes move to a fresh array, qualified by the group in effect now;
\* everything else, the mutex included, is shared with h.
WithAttrs(h, attrs) ==
    LET new == Slice(h) \o Concat(LAMBDA a : appendColorAttr[a][h.group], attrs)
    IN  /\ attrs # <<>>
        /\ heap' = Append(heap, new)
        /\ Derive([h EXCEPT !.attrs = [array |-> Len(heap) + 1, len |-> Len(new)],
                            !.made = Append(@, [op |-> "attrs", attrs |-> attrs])])

\* Mutant: the derived handler locks a mutex of its own.
WithGroupOwnMutex(h, name) ==
    /\ Derive([h EXCEPT !.group = joinGroup(@, <<name>>), !.mu = Len(handlers) + 1,
                        !.made = Append(@, [op |-> "group", name |-> name])])
    /\ UNCHANGED heap

\* The parent's slice is shared, and only read.
WithGroup(h, name) ==
    /\ Derive([h EXCEPT !.group = joinGroup(@, <<name>>),
                        !.made = Append(@, [op |-> "group", name |-> name])])
    /\ UNCHANGED heap

-----------------------------------------------------------------------------
(* Handle: render, lock, write, unlock.                                    *)

Enabled(level) == level >= MinLevel

Render(h, r) ==
    <<levelTag(r.level)>>
    \o Concat(LAMBDA a : WritePlain(a, <<>>), Slice(h))
    \o Concat(LAMBDA a : writeColorAttr[a][h.group], r.attrs)

\* A record reaches Handle only if its level is enabled.
Handle(g, h, r) ==
    /\ calls[g] = Idle
    /\ Len(logged) < MaxLines
    /\ Enabled(r.level)
    /\ logged' = Append(logged, [made |-> h.made, record |-> r])
    /\ calls' = [calls EXCEPT ![g] = [pc |-> "lock", mu |-> h.mu,
                                      line |-> Len(logged) + 1, text |-> Render(h, r)]]
    /\ UNCHANGED <<heap, handlers, locked, out>>

Lock(g) ==
    /\ calls[g].pc = "lock"
    /\ calls[g].mu \notin locked
    /\ locked' = locked \cup {calls[g].mu}
    /\ calls' = [calls EXCEPT ![g].pc = "write"]
    /\ UNCHANGED <<heap, handlers, logged, out>>

Piece(g, part) == [line |-> calls[g].line, part |-> part, text |-> calls[g].text]

\* io.WriteString on a file or a pipe: the bytes may go in more than one piece.
WriteFront(g) ==
    /\ calls[g].pc = "write"
    /\ out' = Append(out, Piece(g, "front"))
    /\ calls' = [calls EXCEPT ![g].pc = "rest"]
    /\ UNCHANGED <<heap, handlers, locked, logged>>

WriteRest(g) ==
    /\ calls[g].pc = "rest"
    /\ out' = Append(out, Piece(g, "rest"))
    /\ calls' = [calls EXCEPT ![g].pc = "unlock"]
    /\ UNCHANGED <<heap, handlers, locked, logged>>

\* A write may fail, with the front of the line out or before any of it.
WriteFails(g) ==
    /\ calls[g].pc \in {"write", "rest"}
    /\ calls' = [calls EXCEPT ![g].pc = "failed"]
    /\ UNCHANGED <<heap, handlers, locked, logged, out>>

\* Mutant: the mutex is released on the way that succeeds only.
UnlockOnSuccess(g) ==
    /\ calls[g].pc \in {"unlock", "failed"}
    /\ locked' = IF calls[g].pc = "unlock" THEN locked \ {calls[g].mu} ELSE locked
    /\ calls' = [calls EXCEPT ![g] = Idle]
    /\ UNCHANGED <<heap, handlers, logged, out>>

\* The deferred Unlock, whether or not the write succeeded.
Unlock(g) ==
    /\ calls[g].pc \in {"unlock", "failed"}
    /\ locked' = locked \ {calls[g].mu}
    /\ calls' = [calls EXCEPT ![g] = Idle]
    /\ UNCHANGED <<heap, handlers, logged, out>>

Next ==
    \/ \E i \in DOMAIN handlers :
         \/ \E attrs \in AttrList : WithAttrs(handlers[i], attrs)
         \/ \E name \in Name : WithGroup(handlers[i], name)
         \/ \E g \in Goroutine, attrs \in AttrList, level \in Level :
              Handle(g, handlers[i], [level |-> level, attrs |-> attrs])
    \/ \E g \in Goroutine :
         Lock(g) \/ WriteFront(g) \/ WriteRest(g) \/ WriteFails(g) \/ Unlock(g)

\* sync.Mutex hands itself to a goroutine that has waited for a millisecond, so
\* one that keeps finding it free gets it; writes return, one way or the other.
Fairness ==
    \A g \in Goroutine :
        /\ SF_vars(Lock(g))
        /\ WF_vars(WriteFront(g) \/ WriteRest(g)) /\ WF_vars(Unlock(g))

Spec == Init /\ [][Next]_vars /\ Fairness

-----------------------------------------------------------------------------
(* Properties.                                                             *)

\* Every variable has its type; a slice is within its array, and no key or group
\* has an empty name in it: "no leading or trailing dots are produced".
TypeOK ==
    /\ \A i \in DOMAIN handlers :
         /\ handlers[i].attrs.array \in DOMAIN heap
         /\ handlers[i].attrs.len \in 0 .. Len(heap[handlers[i].attrs.array])
         /\ handlers[i].group \in Seq(Name)
    /\ \A i \in DOMAIN heap : \A j \in DOMAIN heap[i] : heap[i][j].key \in Seq(Name)
    /\ calls \in [Goroutine -> [pc : {"idle", "lock", "write", "rest", "unlock", "failed"},
                                mu : 0 .. MaxHandlers, line : 0 .. Len(logged),
                                text : {calls[g].text : g \in Goroutine}]]
    /\ locked \subseteq 1 .. MaxHandlers
    /\ Len(logged) <= MaxLines /\ Len(out) <= 2 * MaxLines

\* color_log.go:100-102, "concurrent goroutines never interleave partial lines",
\* whichever handlers they log through: the rest of a line comes right after its
\* front, and what comes between the front of one line and the next is that
\* line's rest or nothing, if its write failed or is going on.
WholeLines ==
    \A i \in DOMAIN out :
        /\ out[i].part = "rest" =>
             i > 1 /\ out[i - 1].line = out[i].line /\ out[i - 1].part = "front"
        /\ out[i].part = "front" /\ i < Len(out) => \A g \in Goroutine :
             calls[g].line = out[i].line => calls[g].pc \in {"unlock", "failed"}

Qualify(prefix, pairs) == [i \in DOMAIN pairs |-> [pairs[i] EXCEPT !.key = prefix \o @]]

\* The pairs an attribute stands for, by its nesting alone.
Leaves[a \in Attr] ==
    IF a.kind = "group"
    THEN Qualify(a.key, FlattenSeq([i \in DOMAIN a.members |-> Leaves[a.members[i]]]))
    ELSE IF a = NoAttr \/ IsEmptyString(a) THEN <<>>
    ELSE <<[key |-> a.key, value |-> a.value]>>

\* The groups that the first n calls opened.
Opened(made, n) ==
    FlattenSeq([i \in 1 .. n |->
        IF made[i].op = "group" THEN <<made[i].name>> ELSE <<>>])

Under(prefix, attrs) == Qualify(prefix, Concat(LAMBDA a : Leaves[a], attrs))

Promised(made, attrs) ==
    FlattenSeq([n \in DOMAIN made |->
        IF made[n].op = "attrs" THEN Under(Opened(made, n), made[n].attrs) ELSE <<>>])
    \o Under(Opened(made, Len(made)), attrs)

\* color_log.go:17-19: "an attr added before a WithGroup stays at its original
\* level, only later attrs nest under the group"; empty ones are dropped.  A line
\* has the attributes of its own handler and record and of no other, in order.
LinesFaithful ==
    \A i \in DOMAIN out : LET l == logged[out[i].line] IN
        Tail(out[i].text) = Promised(l.made, l.record.attrs)

\* Every call of Handle returns, also when writes fail.
CallsEnd == \A g \in Goroutine : calls[g].pc # "idle" ~> calls[g].pc = "idle"

=============================================================================
