---------------------------- MODULE CallRegistry ----------------------------
(***************************************************************************)
(* The CallRegistry of call.go: a map from call-id to a session and to the *)
(* cancel handle of the call's media task.  The integrator's goroutines    *)
(* share it.  Every method works on the map under one mutex and cancels    *)
(* the handles it took out of the map after it released the mutex, so a    *)
(* method is one locked action followed by Cancel steps of its goroutine.  *)
(***************************************************************************)
EXTENDS CallSession

CONSTANTS CallIDs,   \* call-ids
          Tasks,     \* cancel handles: one per media goroutine ever started
          Threads,   \* goroutines that use the registry
          NoTask     \* the nil handle

ASSUME NoTaskAssumption == NoTask \notin Tasks

VARIABLES
    known,      \* the call-ids in the map
    session,    \* per call-id: direction and phase of its session
    mediaTask,  \* per call-id: the entry's handle
    supplied,   \* the handles that SetMediaTask was ever called with
    cancelled,  \* the handles that were called
    toCancel    \* per goroutine: handles it holds and has not called yet

vars == <<known, session, mediaTask, supplied, cancelled, toCancel>>

Session == [dir : Directions, phase : Phases]

TypeOK ==
    /\ known \subseteq CallIDs
    /\ session \in [CallIDs -> Session]
    /\ mediaTask \in [CallIDs -> Tasks \cup {NoTask}]
    /\ supplied \subseteq Tasks
    /\ cancelled \subseteq Tasks
    /\ toCancel \in [Threads -> SUBSET Tasks]

\* The fields of an id outside the map are not part of the program's state;
\* they keep a fixed value.
Blank == [dir |-> "outgoing", phase |-> "Idle"]

Init ==
    /\ known = {}
    /\ session = [c \in CallIDs |-> Blank]
    /\ mediaTask = [c \in CallIDs |-> NoTask]
    /\ supplied = {}
    /\ cancelled = {}
    /\ toCancel = [t \in Threads |-> {}]

\* A goroutine may call a method when it is not inside another one.
Free(t) == toCancel[t] = {}

\* Variant of Insert: a call-id in use is not refused.
InsertOver(t, c, dir) ==
    /\ Free(t)
    /\ known' = known \cup {c}
    /\ session' = [session EXCEPT ![c] = [dir |-> dir, phase |-> InitialPhase(dir)]]
    /\ mediaTask' = [mediaTask EXCEPT ![c] = NoTask]
    /\ UNCHANGED <<supplied, cancelled, toCancel>>

\* A call-id in use is refused.
Insert(t, c, dir) ==
    /\ Free(t)
    /\ c \notin known
    /\ known' = known \cup {c}
    /\ session' = [session EXCEPT ![c] = [dir |-> dir, phase |-> InitialPhase(dir)]]
    /\ mediaTask' = [mediaTask EXCEPT ![c] = NoTask]
    /\ UNCHANGED <<supplied, cancelled, toCancel>>

\* Variant of SetMediaTaskFound: the old handle is not cancelled.
SetMediaTaskForgetting(t, c, k) ==
    /\ Free(t)
    /\ c \in known
    /\ k \notin supplied
    /\ supplied' = supplied \cup {k}
    /\ mediaTask' = [mediaTask EXCEPT ![c] = k]
    /\ UNCHANGED <<known, session, cancelled, toCancel>>

\* The handle of a known call replaces the old one, which is then cancelled.
SetMediaTaskFound(t, c, k) ==
    /\ Free(t)
    /\ c \in known
    /\ k \notin supplied
    /\ supplied' = supplied \cup {k}
    /\ mediaTask' = [mediaTask EXCEPT ![c] = k]
    /\ toCancel' = [toCancel EXCEPT ![t] = {mediaTask[c]} \ {NoTask}]
    /\ UNCHANGED <<known, session, cancelled>>

\* Variant of SetMediaTaskUnknown: the handle is dropped.
SetMediaTaskDropping(t, c, k) ==
    /\ Free(t)
    /\ c \notin known
    /\ k \notin supplied
    /\ supplied' = supplied \cup {k}
    /\ UNCHANGED <<known, session, mediaTask, cancelled, toCancel>>

\* The handle of an unknown call is cancelled instead of stored.
SetMediaTaskUnknown(t, c, k) ==
    /\ Free(t)
    /\ c \notin known
    /\ k \notin supplied
    /\ supplied' = supplied \cup {k}
    /\ toCancel' = [toCancel EXCEPT ![t] = {k}]
    /\ UNCHANGED <<known, session, mediaTask, cancelled>>

Transition(t, c, next) ==
    /\ Free(t)
    /\ c \in known
    /\ Legal(session[c].dir, session[c].phase, next)
    /\ session' = [session EXCEPT ![c].phase = next]
    /\ UNCHANGED <<known, mediaTask, supplied, cancelled, toCancel>>

\* Variant of TakeOut: a call without media has its nil handle called.
TakeOutNil(t, gone) ==
    /\ known' = known \ gone
    /\ toCancel' = [toCancel EXCEPT ![t] = {mediaTask[c] : c \in gone}]
    /\ mediaTask' = [c \in CallIDs |-> IF c \in gone THEN NoTask ELSE mediaTask[c]]
    /\ session' = [c \in CallIDs |-> IF c \in gone THEN Blank ELSE session[c]]
    /\ UNCHANGED <<supplied, cancelled>>

\* Take a set of calls out of the map, together with their handles.
TakeOut(t, gone) ==
    /\ known' = known \ gone
    /\ toCancel' = [toCancel EXCEPT ![t] = {mediaTask[c] : c \in gone} \ {NoTask}]
    /\ mediaTask' = [c \in CallIDs |-> IF c \in gone THEN NoTask ELSE mediaTask[c]]
    /\ session' = [c \in CallIDs |-> IF c \in gone THEN Blank ELSE session[c]]
    /\ UNCHANGED <<supplied, cancelled>>

Remove(t, c) ==
    /\ Free(t)
    /\ c \in known
    /\ TakeOut(t, {c})

AbortAll(t) ==
    /\ Free(t)
    /\ TakeOut(t, known)

\* One call of a handle the goroutine holds, outside the mutex.
Cancel(t, k) ==
    /\ k \in toCancel[t]
    /\ cancelled' = cancelled \cup {k}
    /\ toCancel' = [toCancel EXCEPT ![t] = @ \ {k}]
    /\ UNCHANGED <<known, session, mediaTask, supplied>>

Next ==
    \E t \in Threads :
        \/ AbortAll(t)
        \/ \E c \in CallIDs :
              \/ Remove(t, c)
              \/ \E dir \in Directions : Insert(t, c, dir)
              \/ \E p \in Phases : Transition(t, c, p)
              \/ \E k \in Tasks : SetMediaTaskFound(t, c, k) \/ SetMediaTaskUnknown(t, c, k)
        \/ \E k \in Tasks : Cancel(t, k)

SafetySpec == Init /\ [][Next]_vars

\* A goroutine that took handles out of the map goes on to call them: there
\* is nothing to wait for between the unlock and the calls.
Spec == SafetySpec /\ \A t \in Threads, k \in Tasks : WF_vars(Cancel(t, k))

-----------------------------------------------------------------------------
\* The tasks of the calls in the map.
Attached == {mediaTask[c] : c \in known} \ {NoTask}

\* The tasks some goroutine is about to cancel.
Held == UNION {toCancel[t] : t \in Threads}

\* A media task cannot outlive its call (call.go, SetMediaTask): a handle
\* once supplied is attached to a call in the map, or a goroutine is about
\* to call it, or it was called.
NoTaskOutlivesItsCall ==
    supplied \subseteq Attached \cup Held \cup cancelled

\* The task of a call in the map is never torn down under it: it is neither
\* cancelled nor in the hands of a goroutine that will cancel it.
AttachedTaskRuns ==
    Attached \cap (Held \cup cancelled) = {}

\* An incoming session never dials: the guard of Idle -> Calling on the
\* direction, together with the initial phase, keeps it out of both phases.
IncomingNeverDials ==
    \A c \in known : session[c].dir = "incoming" => session[c].phase \notin {"Idle", "Calling"}

\* A call that became active is only ever ended or removed: no order of
\* Insert, Transition and Remove by any goroutine sends it back to setup.
ActiveNeverRegresses ==
    [][\A c \in known \cap known' :
          session[c].phase = "Active" => session'[c].phase \in {"Active", "Ended"}]_vars

\* How far each task is in its life, for the abstract specification, which
\* has no place for a lost one.
Life == [k \in Tasks |->
    CASE k \in cancelled        -> "cancelled"
      [] k \in Held \ cancelled -> "doomed"
      [] k \in Attached         -> "running"
      [] k \notin supplied      -> "fresh"
      [] OTHER                  -> "lost"]

Lifetime == INSTANCE TaskLifetime WITH life <- Life

\* Every task lives as TaskLifetime promises: in particular one that was
\* replaced, refused, removed or aborted is eventually cancelled.
TasksLiveAsPromised == Lifetime!Spec
=============================================================================
