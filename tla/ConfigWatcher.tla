-------------------------- MODULE ConfigWatcher --------------------------
(***************************************************************************)
(* pkg/nacos/source.go: the kratos config source backed by Nacos.  A       *)
(* publisher changes the data ID; the Nacos SDK calls OnChange from its    *)
(* own goroutine; the watcher hands the content through a channel of one   *)
(* slot to the config loop of kratos, which calls Next, uses what it       *)
(* returns, and calls Next again; and the program may call Stop at any     *)
(* moment.  Versions of the content are numbered in order of publication.  *)
(***************************************************************************)
EXTENDS Integers, Sequences

CONSTANTS
    MaxVersion,      \* bound on publications
    Blank,           \* versions whose content is empty or white space
    MaxListenErrors  \* bound on failures of ListenConfig

ASSUME ConfigAssumption ==
    /\ MaxVersion \in Nat
    /\ Blank \subseteq 0 .. MaxVersion
    /\ MaxListenErrors \in Nat

Version == 0 .. MaxVersion
Local == -1     \* nothing remote in use: the local file alone

VARIABLES
    center,     \* version the config center holds
    seen,       \* version the SDK has last shown to the program
    listener,   \* is OnChange registered with the SDK?
    listening,  \* watcher.listening
    notify,     \* watcher.notify
    stop,       \* is watcher.stop closed?
    stopper,    \* the call of Stop: "none", "closed" or "returned"
    pc,         \* the config loop: where it is
    got,        \* what Next returned to it
    applied,    \* version in use
    dropped,    \* history: has OnChange dropped a notification?
    errors      \* history: failures of ListenConfig

vars == <<center, seen, listener, listening, notify, stop, stopper, pc, got,
          applied, dropped, errors>>
watcher == <<listening, notify, stop>>
history == <<dropped, errors>>

\* Load and Next: a missing or empty data ID does not shadow what is in use.
Use(v, current) == IF v \in Blank THEN current ELSE v

\* Load has fetched the content, and Watch has made a watcher.
Init ==
    /\ center \in 0 .. (IF MaxVersion > 0 THEN 1 ELSE 0)
    /\ seen = center
    /\ listener = FALSE
    /\ listening = FALSE
    /\ notify = <<>>
    /\ stop = FALSE
    /\ stopper = "none"
    /\ pc = "idle"
    /\ got = Local
    /\ applied = Use(center, Local)
    /\ dropped = FALSE
    /\ errors = 0

-----------------------------------------------------------------------------
(* The config center and its SDK.                                          *)

Settled == seen = center /\ notify = <<>>

Publish ==
    /\ center < MaxVersion
    /\ center' = center + 1
    /\ UNCHANGED <<seen, listener, watcher, stopper, pc, got, applied, history>>

\* Mutant: a channel of two slots.
NotifyRoomTwo == Len(notify) < 2

\* make(chan string, 1)
NotifyRoom == Len(notify) < 1

\* The SDK finds new content and calls OnChange, which never blocks: it queues
\* the data, or drops it when the slot is taken.  With stop closed as well,
\* select may take either ready case.
OnChange ==
    /\ listener
    /\ seen # center
    /\ seen' = center
    /\ \/ /\ NotifyRoom
          /\ notify' = Append(notify, center)
          /\ dropped' = dropped
       \/ /\ stop
          /\ UNCHANGED <<notify, dropped>>
       \/ /\ ~NotifyRoom /\ ~stop
          /\ notify' = notify
          /\ dropped' = TRUE
    /\ UNCHANGED <<center, listener, listening, stop, stopper, pc, got, applied,
                   errors>>

-----------------------------------------------------------------------------
(* Next, called by the config loop, which is its only caller.               *)

\* Mutant: the channel is emptied before Next waits on it.
CallNextDraining ==
    /\ pc = "idle"
    /\ pc' = IF listening THEN "waiting" ELSE "listen"
    /\ listening' = TRUE
    /\ notify' = <<>>
    /\ UNCHANGED <<center, seen, listener, stop, stopper, got, applied, history>>

\* Up to the call of ListenConfig, or up to the select when the flag is set.
CallNext ==
    /\ pc = "idle"
    /\ pc' = IF listening THEN "waiting" ELSE "listen"
    /\ listening' = TRUE
    /\ UNCHANGED <<center, seen, listener, notify, stop, stopper, got, applied,
                   history>>

ListenSucceeds ==
    /\ pc = "listen"
    /\ listener' = TRUE
    /\ pc' = "waiting"
    /\ UNCHANGED <<center, seen, watcher, stopper, got, applied, history>>

\* Next returns the error; the flag stays set.  The loop sleeps a second.
ListenFails ==
    /\ pc = "listen"
    /\ errors < MaxListenErrors
    /\ errors' = errors + 1
    /\ pc' = "retry"
    /\ UNCHANGED <<center, seen, listener, watcher, stopper, got, applied, dropped>>

Retry ==
    /\ pc = "retry"
    /\ pc' = "idle"
    /\ UNCHANGED <<center, seen, listener, watcher, stopper, got, applied, history>>

\* Next receives from notify and returns.
NextReturns ==
    /\ pc = "waiting"
    /\ notify # <<>>
    /\ got' = Head(notify)
    /\ notify' = Tail(notify)
    /\ pc' = "apply"
    /\ UNCHANGED <<center, seen, listener, listening, stop, stopper, applied,
                   history>>

\* The loop merges what Next returned; nil leaves everything as it is.
Apply ==
    /\ pc = "apply"
    /\ applied' = Use(got, applied)
    /\ got' = Local
    /\ pc' = "idle"
    /\ UNCHANGED <<center, seen, listener, watcher, stopper, history>>

\* Mutant: stop is looked at when Next is entered, and not while it waits.
NextCanceledEarly ==
    /\ pc = "idle"
    /\ stop
    /\ pc' = "done"
    /\ UNCHANGED <<center, seen, listener, watcher, stopper, got, applied, history>>

\* Next returns context.Canceled, which ends the loop.
NextCanceled ==
    /\ pc = "waiting"
    /\ stop
    /\ pc' = "done"
    /\ UNCHANGED <<center, seen, listener, watcher, stopper, got, applied, history>>

-----------------------------------------------------------------------------
(* Stop closes the channel and then cancels the listener, whatever Next is *)
(* doing: it does not take the mutex.                                      *)

Stop ==
    /\ stopper = "none"
    /\ stopper' = "closed"
    /\ stop' = TRUE
    /\ UNCHANGED <<center, seen, listener, listening, notify, pc, got, applied,
                   history>>

CancelListener ==
    /\ stopper = "closed"
    /\ stopper' = "returned"
    /\ listener' = FALSE
    /\ UNCHANGED <<center, seen, watcher, pc, got, applied, history>>

-----------------------------------------------------------------------------
Listen == ListenSucceeds \/ ListenFails
Select == NextReturns \/ NextCanceled

Next ==
    \/ Publish \/ OnChange
    \/ CallNext \/ Listen \/ Select \/ Apply \/ Retry
    \/ Stop \/ CancelListener

\* The SDK polls for ever, and the loop's goroutine and the caller of Stop are
\* scheduled.  Nobody has to publish or to stop.  A select with both cases
\* ready picks at random, so the stop case is strongly fair.
Fairness ==
    /\ WF_vars(OnChange)
    /\ WF_vars(CallNext) /\ WF_vars(Listen) /\ WF_vars(Retry) /\ WF_vars(Apply)
    /\ WF_vars(Select) /\ SF_vars(NextCanceled)
    /\ WF_vars(CancelListener)

Spec == Init /\ [][Next]_vars /\ Fairness

-----------------------------------------------------------------------------
(* Properties.                                                             *)

\* Every variable has its type; the channel never holds more than one item.
TypeOK ==
    /\ center \in Version /\ seen \in Version
    /\ listener \in BOOLEAN /\ listening \in BOOLEAN /\ stop \in BOOLEAN
    /\ notify \in {<<>>} \cup {<<v>> : v \in Version}
    /\ stopper \in {"none", "closed", "returned"}
    /\ pc \in {"idle", "listen", "waiting", "apply", "retry", "done"}
    /\ got \in Version \cup {Local} /\ applied \in Version \cup {Local}
    /\ dropped \in BOOLEAN
    /\ errors \in 0 .. MaxListenErrors

\* Only a drop in OnChange can lose content: with everything delivered, taken
\* and applied, and nothing ever dropped, the program uses what the config
\* center holds.
Converged ==
    (Settled /\ pc \in {"idle", "waiting"} /\ ~stop /\ ~dropped)
        => (center \in Blank \/ applied = center)

\* The invariant behind it: the version last shown to the program is the newest
\* one anywhere between the SDK and the configuration in use.
InFlight ==
    ~stop /\ ~dropped =>
        /\ notify # <<>> => notify = <<seen>>
        /\ notify = <<>> /\ pc = "apply" => got = seen
        /\ notify = <<>> /\ pc # "apply" => seen \in Blank \/ applied = seen

\* source.go:93: "Next blocks until the config changes in Nacos, then returns the
\* new content": once publication ends, the program uses the last version,
\* unless that is blank or the watcher was stopped.
EventuallyCurrent == <>[](stop \/ center \in Blank \/ applied = center)

=============================================================================
