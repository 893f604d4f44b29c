------------------------ MODULE CallRegistry_proofs ------------------------
(***************************************************************************)
(* Proofs about CallRegistry, for every set of call-ids, tasks and         *)
(* goroutines.                                                             *)
(***************************************************************************)
EXTENDS CallRegistry, TLAPS

\* Every handle the registry or a goroutine has was supplied to it.
HandleOrigins == Attached \cup Held \cup cancelled \subseteq supplied

\* An id outside the map has no handle.
BlankOutside == \A c \in CallIDs \ known : mediaTask[c] = NoTask

\* Two calls never share a task, so that removing one cannot stop the other.
OneCallPerTask ==
    \A c, d \in known : c # d /\ mediaTask[c] # NoTask => mediaTask[c] # mediaTask[d]

\* The inductive invariant of the task handles: what the runs check, and
\* where handles come from.  OneCallPerTask is needed for AttachedTaskRuns
\* (a replaced handle must not be attached to another call), and
\* HandleOrigins because a fresh handle must not be held anywhere.
TaskInv ==
    /\ TypeOK
    /\ HandleOrigins
    /\ NoTaskOutlivesItsCall
    /\ AttachedTaskRuns
    /\ OneCallPerTask
    /\ BlankOutside

(***************************************************************************)
(* Type correctness.                                                       *)
(***************************************************************************)

\* The map, the sessions and the handle sets of CallRegistry keep their types.
THEOREM RegistryTypeOK == SafetySpec => []TypeOK
<1>1. Init => TypeOK
  BY DEF Init, TypeOK, Blank, Session, Directions, Phases
<1>2. TypeOK /\ [Next]_vars => TypeOK'
  <2> SUFFICES ASSUME TypeOK, [Next]_vars PROVE TypeOK'
    OBVIOUS
  <2> USE DEF TypeOK, Session
  <2>1. ASSUME NEW t \in Threads, AbortAll(t) PROVE TypeOK'
    BY <2>1 DEF AbortAll, TakeOut, Blank, Directions, Phases
  <2>2. ASSUME NEW t \in Threads, NEW c \in CallIDs, Remove(t, c) PROVE TypeOK'
    BY <2>2 DEF Remove, TakeOut, Blank, Directions, Phases
  <2>3. ASSUME NEW t \in Threads, NEW c \in CallIDs, NEW dir \in Directions, Insert(t, c, dir)
        PROVE TypeOK'
    <3>1. InitialPhase(dir) \in Phases
      BY DEF InitialPhase, Phases
    <3>2. QED
      BY <2>3, <3>1 DEF Insert
  <2>4. ASSUME NEW t \in Threads, NEW c \in CallIDs, NEW p \in Phases, Transition(t, c, p)
        PROVE TypeOK'
    BY <2>4 DEF Transition
  <2>5. ASSUME NEW t \in Threads, NEW c \in CallIDs, NEW k \in Tasks,
               SetMediaTaskFound(t, c, k)
        PROVE TypeOK'
    BY <2>5 DEF SetMediaTaskFound
  <2>6. ASSUME NEW t \in Threads, NEW c \in CallIDs, NEW k \in Tasks,
               SetMediaTaskUnknown(t, c, k)
        PROVE TypeOK'
    BY <2>6 DEF SetMediaTaskUnknown
  <2>7. ASSUME NEW t \in Threads, NEW k \in Tasks, Cancel(t, k) PROVE TypeOK'
    BY <2>7 DEF Cancel
  <2>8. CASE UNCHANGED vars
    BY <2>8 DEF vars
  <2>9. QED
    BY <2>1, <2>2, <2>3, <2>4, <2>5, <2>6, <2>7, <2>8 DEF Next
<1>3. QED
  BY <1>1, <1>2, PTL DEF SafetySpec

(***************************************************************************)
(* What each step does to the sets of attached and held tasks.             *)
(***************************************************************************)

\* A goroutine that was outside the registry takes the handles in S.
LEMMA HeldAfterTaking ==
    ASSUME TypeOK, NEW t \in Threads, Free(t), NEW S \in SUBSET Tasks,
           toCancel' = [toCancel EXCEPT ![t] = S]
    PROVE  Held' = Held \cup S
<1>1. toCancel[t] = {} /\ toCancel'[t] = S /\ \A s \in Threads : s # t => toCancel'[s] = toCancel[s]
  BY DEF TypeOK, Free
<1>2. QED
  BY <1>1 DEF Held

\* Calls taken out of the map pass their tasks to the goroutine.
LEMMA TakeOutMoves ==
    ASSUME TaskInv, NEW t \in Threads, NEW gone \in SUBSET known, Free(t), TakeOut(t, gone)
    PROVE  /\ Attached' \subseteq Attached
           /\ Held' = Held \cup (Attached \ Attached')
           /\ supplied' = supplied /\ cancelled' = cancelled
<1> USE NoTaskAssumption DEF TaskInv, TypeOK
<1> DEFINE S == {mediaTask[c] : c \in gone} \ {NoTask}
<1>1. S \in SUBSET Tasks /\ toCancel' = [toCancel EXCEPT ![t] = S]
  BY DEF TakeOut
<1>2. Held' = Held \cup S
  BY <1>1, HeldAfterTaking
<1>3. Attached' = Attached \ S
  BY DEF TakeOut, Attached, OneCallPerTask
<1>4. S \subseteq Attached
  BY DEF Attached
<1>5. QED
  BY <1>2, <1>3, <1>4 DEF TakeOut

\* A stored handle takes the place of the call's old one.
LEMMA FoundMoves ==
    ASSUME TaskInv, NEW t \in Threads, NEW c \in CallIDs, NEW k \in Tasks,
           SetMediaTaskFound(t, c, k)
    PROVE  /\ Attached' = (Attached \ {mediaTask[c]}) \cup {k}
           /\ Held' = Held \cup (Attached \cap {mediaTask[c]})
           /\ supplied' = supplied \cup {k} /\ cancelled' = cancelled
           /\ k \notin supplied
<1> USE NoTaskAssumption DEF TaskInv, TypeOK
<1>1. /\ c \in known /\ known' = known /\ Free(t)
      /\ mediaTask' = [mediaTask EXCEPT ![c] = k]
      /\ toCancel' = [toCancel EXCEPT ![t] = {mediaTask[c]} \ {NoTask}]
  BY DEF SetMediaTaskFound
<1>2. Held' = Held \cup ({mediaTask[c]} \ {NoTask})
  BY <1>1, HeldAfterTaking
<1>3. {mediaTask[c]} \ {NoTask} = Attached \cap {mediaTask[c]}
  BY <1>1 DEF Attached
<1>4. \A d \in known : d # c /\ mediaTask[d] # NoTask => mediaTask[d] # mediaTask[c]
  BY <1>1 DEF OneCallPerTask
<1>5. Attached' = (Attached \ {mediaTask[c]}) \cup {k}
  BY <1>1, <1>4 DEF Attached
<1>6. QED
  BY <1>2, <1>3, <1>5 DEF SetMediaTaskFound

\* A refused handle goes straight to the goroutine.
LEMMA UnknownMoves ==
    ASSUME TaskInv, NEW t \in Threads, NEW c \in CallIDs, NEW k \in Tasks,
           SetMediaTaskUnknown(t, c, k)
    PROVE  /\ Attached' = Attached /\ Held' = Held \cup {k}
           /\ supplied' = supplied \cup {k} /\ cancelled' = cancelled
           /\ k \notin supplied
<1>1. Held' = Held \cup {k}
  BY HeldAfterTaking DEF SetMediaTaskUnknown, TaskInv
<1>2. QED
  BY <1>1 DEF SetMediaTaskUnknown, Attached

\* Insert and Transition leave the tasks alone.
LEMMA SessionStepsMoveNothing ==
    ASSUME TaskInv, NEW t \in Threads, NEW c \in CallIDs,
           \/ \E dir \in Directions : Insert(t, c, dir)
           \/ \E p \in Phases : Transition(t, c, p)
    PROVE  UNCHANGED <<Attached, Held, supplied, cancelled>>
<1> USE DEF TaskInv, TypeOK
<1>1. UNCHANGED <<Held, supplied, cancelled>>
  BY DEF Insert, Transition, Held
<1>2. Attached' = Attached
  BY DEF Insert, Transition, Attached
<1>3. QED
  BY <1>1, <1>2

\* A call of a handle takes it from its goroutine; another may hold it too.
LEMMA CancelMoves ==
    ASSUME TaskInv, NEW t \in Threads, NEW k \in Tasks, Cancel(t, k)
    PROVE  /\ Attached' = Attached /\ supplied' = supplied /\ cancelled' = cancelled \cup {k}
           /\ k \in Held /\ Held' \subseteq Held /\ Held \subseteq Held' \cup {k}
<1>1. /\ k \in toCancel[t] /\ toCancel'[t] = toCancel[t] \ {k}
      /\ \A s \in Threads : s # t => toCancel'[s] = toCancel[s]
  BY DEF Cancel, TaskInv, TypeOK
<1>2. k \in Held /\ Held' \subseteq Held /\ Held \subseteq Held' \cup {k}
  BY <1>1 DEF Held
<1>3. QED
  BY <1>2 DEF Cancel, Attached

(***************************************************************************)
(* The media tasks.                                                        *)
(***************************************************************************)

\* The part of TaskInv that speaks of the sets only.
SetInv == HandleOrigins /\ NoTaskOutlivesItsCall /\ AttachedTaskRuns

\* Every step keeps the facts about the sets of tasks.
LEMMA SetInvStep == TaskInv /\ [Next]_vars => SetInv'
<1> SUFFICES ASSUME TaskInv, [Next]_vars PROVE SetInv'
  OBVIOUS
<1> USE DEF TaskInv, SetInv, HandleOrigins, NoTaskOutlivesItsCall, AttachedTaskRuns
<1>1. ASSUME NEW t \in Threads, NEW gone \in SUBSET known, Free(t), TakeOut(t, gone)
      PROVE SetInv'
  BY <1>1, TakeOutMoves
<1>2. ASSUME NEW t \in Threads, AbortAll(t) PROVE SetInv'
  BY <1>1, <1>2 DEF AbortAll
<1>3. ASSUME NEW t \in Threads, NEW c \in CallIDs, Remove(t, c) PROVE SetInv'
  BY <1>1, <1>3 DEF Remove
<1>4. ASSUME NEW t \in Threads, NEW c \in CallIDs,
             \/ \E dir \in Directions : Insert(t, c, dir)
             \/ \E p \in Phases : Transition(t, c, p)
      PROVE SetInv'
  BY <1>4, SessionStepsMoveNothing
<1>5. ASSUME NEW t \in Threads, NEW c \in CallIDs, NEW k \in Tasks,
             SetMediaTaskFound(t, c, k)
      PROVE SetInv'
  BY <1>5, FoundMoves
<1>6. ASSUME NEW t \in Threads, NEW c \in CallIDs, NEW k \in Tasks,
             SetMediaTaskUnknown(t, c, k)
      PROVE SetInv'
  BY <1>6, UnknownMoves
<1>7. ASSUME NEW t \in Threads, NEW k \in Tasks, Cancel(t, k) PROVE SetInv'
  BY <1>7, CancelMoves
<1>8. CASE UNCHANGED vars
  BY <1>8 DEF vars, Attached, Held
<1>9. QED
  BY <1>2, <1>3, <1>4, <1>5, <1>6, <1>7, <1>8 DEF Next

\* Every step keeps the calls' tasks apart, and ids outside the map blank.
LEMMA CallsStep ==
    TaskInv /\ [Next]_vars => OneCallPerTask' /\ BlankOutside'
<1> SUFFICES ASSUME TaskInv, [Next]_vars PROVE OneCallPerTask' /\ BlankOutside'
  OBVIOUS
<1> USE NoTaskAssumption DEF TaskInv, TypeOK, OneCallPerTask, BlankOutside
<1> DEFINE Goal == OneCallPerTask' /\ BlankOutside'
<1>1. ASSUME NEW t \in Threads, NEW gone \in SUBSET known, TakeOut(t, gone) PROVE Goal
  BY <1>1 DEF TakeOut
<1>2. ASSUME NEW t \in Threads, AbortAll(t) PROVE Goal
  BY <1>1, <1>2 DEF AbortAll
<1>3. ASSUME NEW t \in Threads, NEW c \in CallIDs, Remove(t, c) PROVE Goal
  BY <1>1, <1>3 DEF Remove
<1>4. ASSUME NEW t \in Threads, NEW c \in CallIDs, NEW dir \in Directions, Insert(t, c, dir)
      PROVE Goal
  BY <1>4 DEF Insert
<1>5. ASSUME NEW t \in Threads, NEW c \in CallIDs, NEW p \in Phases, Transition(t, c, p)
      PROVE Goal
  BY <1>5 DEF Transition
<1>6. ASSUME NEW t \in Threads, NEW c \in CallIDs, NEW k \in Tasks,
             SetMediaTaskFound(t, c, k)
      PROVE Goal
  <2>1. \A d \in known : mediaTask[d] # k
    BY <1>6 DEF SetMediaTaskFound, HandleOrigins, Attached
  <2>2. QED
    BY <1>6, <2>1 DEF SetMediaTaskFound
<1>7. ASSUME NEW t \in Threads, NEW c \in CallIDs, NEW k \in Tasks,
             SetMediaTaskUnknown(t, c, k)
      PROVE Goal
  BY <1>7 DEF SetMediaTaskUnknown
<1>8. ASSUME NEW t \in Threads, NEW k \in Tasks, Cancel(t, k) PROVE Goal
  BY <1>8 DEF Cancel
<1>9. CASE UNCHANGED vars
  BY <1>9 DEF vars
<1>10. QED
  BY <1>2, <1>3, <1>4, <1>5, <1>6, <1>7, <1>8, <1>9 DEF Next

\* TaskInv holds in every reachable state.
THEOREM TaskInvInductive == SafetySpec => []TaskInv
<1>1. Init => TaskInv
  <2> SUFFICES ASSUME Init PROVE TaskInv
    OBVIOUS
  <2>1. Attached = {} /\ Held = {}
    BY DEF Init, Attached, Held
  <2>2. TypeOK
    BY DEF Init, TypeOK, Blank, Session, Directions, Phases
  <2>3. QED
    BY <2>1, <2>2 DEF Init, TaskInv, HandleOrigins, NoTaskOutlivesItsCall, AttachedTaskRuns,
       OneCallPerTask, BlankOutside
<1>2. TaskInv /\ TypeOK' /\ [Next]_vars => TaskInv'
  BY SetInvStep, CallsStep DEF TaskInv, SetInv
<1>3. QED
  BY <1>1, <1>2, RegistryTypeOK, PTL DEF SafetySpec

\* No media task outlives its call: a handle once given to SetMediaTask is
\* attached to a call in the map, or about to be called, or was called.
THEOREM NoTaskLeaks == SafetySpec => []NoTaskOutlivesItsCall
<1>1. TaskInv => NoTaskOutlivesItsCall
  BY DEF TaskInv
<1>2. QED
  BY <1>1, TaskInvInductive, PTL

\* No goroutine cancels, or is about to cancel, the task of a call in the map.
THEOREM AttachedTasksRun == SafetySpec => []AttachedTaskRuns
<1>1. TaskInv => AttachedTaskRuns
  BY DEF TaskInv
<1>2. QED
  BY <1>1, TaskInvInductive, PTL

(***************************************************************************)
(* The sessions.                                                           *)
(***************************************************************************)

\* An incoming session is never Idle or Calling: no goroutine can make the
\* registry dial a call that was offered to it.
THEOREM IncomingSessionsNeverDial == SafetySpec => []IncomingNeverDials
<1>1. Init => IncomingNeverDials
  BY DEF Init, IncomingNeverDials
<1>2. TypeOK /\ IncomingNeverDials /\ [Next]_vars => IncomingNeverDials'
  <2> SUFFICES ASSUME TypeOK, IncomingNeverDials, [Next]_vars PROVE IncomingNeverDials'
    OBVIOUS
  <2> USE DEF TypeOK, Session, IncomingNeverDials
  <2>1. ASSUME NEW t \in Threads, NEW gone \in SUBSET known, TakeOut(t, gone)
        PROVE IncomingNeverDials'
    BY <2>1 DEF TakeOut
  <2>2. ASSUME NEW t \in Threads, AbortAll(t) PROVE IncomingNeverDials'
    BY <2>1, <2>2 DEF AbortAll
  <2>3. ASSUME NEW t \in Threads, NEW c \in CallIDs, Remove(t, c) PROVE IncomingNeverDials'
    BY <2>1, <2>3 DEF Remove
  <2>4. ASSUME NEW t \in Threads, NEW c \in CallIDs, NEW dir \in Directions, Insert(t, c, dir)
        PROVE IncomingNeverDials'
    BY <2>4 DEF Insert, InitialPhase
  <2>5. ASSUME NEW t \in Threads, NEW c \in CallIDs, NEW p \in Phases, Transition(t, c, p)
        PROVE IncomingNeverDials'
    BY <2>5 DEF Transition, Legal, ForwardMoves
  <2>6. ASSUME NEW t \in Threads, NEW c \in CallIDs, NEW k \in Tasks,
               SetMediaTaskFound(t, c, k) \/ SetMediaTaskUnknown(t, c, k)
        PROVE IncomingNeverDials'
    BY <2>6 DEF SetMediaTaskFound, SetMediaTaskUnknown
  <2>7. ASSUME NEW t \in Threads, NEW k \in Tasks, Cancel(t, k) PROVE IncomingNeverDials'
    BY <2>7 DEF Cancel
  <2>8. CASE UNCHANGED vars
    BY <2>8 DEF vars
  <2>9. QED
    BY <2>2, <2>3, <2>4, <2>5, <2>6, <2>7, <2>8 DEF Next
<1>3. QED
  BY <1>1, <1>2, RegistryTypeOK, PTL DEF SafetySpec

\* An active call only ever ends or leaves the map, whatever order the
\* goroutines call Insert, Transition, Remove and AbortAll in.
THEOREM ActiveCallsNeverRegress == SafetySpec => ActiveNeverRegresses
<1>1. TypeOK /\ [Next]_vars =>
        [\A c \in known \cap known' :
            session[c].phase = "Active" => session'[c].phase \in {"Active", "Ended"}]_vars
  <2> SUFFICES ASSUME TypeOK, [Next]_vars, NEW c \in known \cap known',
                      session[c].phase = "Active"
               PROVE  session'[c].phase \in {"Active", "Ended"}
    OBVIOUS
  <2> USE DEF TypeOK, Session
  <2>1. ASSUME NEW t \in Threads, NEW gone \in SUBSET known, TakeOut(t, gone)
        PROVE session'[c] = session[c]
    BY <2>1 DEF TakeOut
  <2>2. ASSUME NEW t \in Threads, AbortAll(t) PROVE session'[c] = session[c]
    BY <2>1, <2>2 DEF AbortAll
  <2>3. ASSUME NEW t \in Threads, NEW d \in CallIDs, Remove(t, d)
        PROVE session'[c] = session[c]
    BY <2>1, <2>3 DEF Remove
  <2>4. ASSUME NEW t \in Threads, NEW d \in CallIDs, NEW dir \in Directions, Insert(t, d, dir)
        PROVE session'[c] = session[c]
    BY <2>4 DEF Insert
  <2>5. ASSUME NEW t \in Threads, NEW d \in CallIDs, NEW p \in Phases, Transition(t, d, p)
        PROVE session'[c].phase \in {"Active", "Ended"}
    BY <2>5 DEF Transition, Legal, ForwardMoves
  <2>6. ASSUME NEW t \in Threads, NEW d \in CallIDs, NEW k \in Tasks,
               SetMediaTaskFound(t, d, k) \/ SetMediaTaskUnknown(t, d, k)
        PROVE session'[c] = session[c]
    BY <2>6 DEF SetMediaTaskFound, SetMediaTaskUnknown
  <2>7. ASSUME NEW t \in Threads, NEW k \in Tasks, Cancel(t, k)
        PROVE session'[c] = session[c]
    BY <2>7 DEF Cancel
  <2>8. CASE UNCHANGED vars
    BY <2>8 DEF vars
  <2>9. QED
    BY <2>2, <2>3, <2>4, <2>5, <2>6, <2>7, <2>8 DEF Next
<1>2. QED
  BY <1>1, RegistryTypeOK, PTL DEF SafetySpec, ActiveNeverRegresses

(***************************************************************************)
(* CallRegistry implements TaskLifetime.                                   *)
(***************************************************************************)

\* A task's life is one of four states, and where the task is decides which.
LEMMA LifeOf ==
    ASSUME TaskInv, NEW k \in Tasks
    PROVE  /\ Life[k] \in Lifetime!LifeStates
           /\ k \notin supplied => Life[k] = "fresh"
           /\ k \in Attached => Life[k] = "running"
           /\ k \in Held \ cancelled => Life[k] = "doomed"
           /\ k \in cancelled => Life[k] = "cancelled"
<1> USE DEF TaskInv, HandleOrigins, NoTaskOutlivesItsCall, AttachedTaskRuns, Life,
            Lifetime!LifeStates
<1>1. CASE k \in cancelled
  <2>1. Life[k] = "cancelled"
    BY <1>1
  <2>2. k \in supplied /\ k \notin Attached
    BY <1>1
  <2>3. QED
    BY <1>1, <2>1, <2>2
<1>2. CASE k \notin cancelled /\ k \in Held
  BY <1>2
<1>3. CASE k \notin cancelled /\ k \notin Held /\ k \in Attached
  BY <1>3
<1>4. CASE k \notin cancelled /\ k \notin Held /\ k \notin Attached
  BY <1>4
<1>5. QED
  BY <1>1, <1>2, <1>3, <1>4

\* The same in the next state.
LEMMA LifeOfNext ==
    ASSUME TaskInv', NEW k \in Tasks
    PROVE  /\ Life'[k] \in Lifetime!LifeStates
           /\ k \notin supplied' => Life'[k] = "fresh"
           /\ k \in Attached' => Life'[k] = "running"
           /\ k \in Held' \ cancelled' => Life'[k] = "doomed"
           /\ k \in cancelled' => Life'[k] = "cancelled"
<1> USE DEF TaskInv, HandleOrigins, NoTaskOutlivesItsCall, AttachedTaskRuns, Life,
            Lifetime!LifeStates
<1>1. CASE k \in cancelled'
  <2>1. Life'[k] = "cancelled"
    BY <1>1
  <2>2. k \in supplied' /\ k \notin Attached'
    BY <1>1
  <2>3. QED
    BY <1>1, <2>1, <2>2
<1>2. CASE k \notin cancelled' /\ k \in Held'
  BY <1>2
<1>3. CASE k \notin cancelled' /\ k \notin Held' /\ k \in Attached'
  BY <1>3
<1>4. CASE k \notin cancelled' /\ k \notin Held' /\ k \notin Attached'
  BY <1>4
<1>5. QED
  BY <1>1, <1>2, <1>3, <1>4

\* A step that cancels nothing and supplies at most one handle is one
\* operation of the abstract specification.
LEMMA OperationStep ==
    ASSUME TaskInv, TaskInv', cancelled' = cancelled, Held \subseteq Held',
           Attached' \cap supplied \subseteq Attached,
           NEW new \in SUBSET Tasks, supplied' = supplied \cup new,
           \A j, k \in new : j = k
    PROVE  Lifetime!Operate
<1> USE DEF TaskInv, HandleOrigins, NoTaskOutlivesItsCall, AttachedTaskRuns
<1>1. Life' \in [Tasks -> Lifetime!LifeStates]
  BY LifeOfNext DEF Life
<1>2. \A k \in Tasks : Life'[k] = Life[k] \/ <<Life[k], Life'[k]>> \in Lifetime!Moves
  <2> SUFFICES ASSUME NEW k \in Tasks
               PROVE  Life'[k] = Life[k] \/ <<Life[k], Life'[k]>> \in Lifetime!Moves
    OBVIOUS
  <2>1. CASE k \in cancelled
    BY <2>1, LifeOf, LifeOfNext
  <2>2. CASE k \in Held \ cancelled
    BY <2>2, LifeOf, LifeOfNext
  <2>3. CASE k \in Attached
    <3>1. Life[k] = "running" /\ k \in supplied' /\ k \notin cancelled'
      BY <2>3, LifeOf
    <3>2. Life'[k] \in {"running", "doomed"}
      BY <3>1, LifeOfNext
    <3>3. QED
      BY <3>1, <3>2 DEF Lifetime!Moves
  <2>4. CASE k \notin supplied
    <3>1. Life[k] = "fresh" /\ k \notin cancelled'
      BY <2>4, LifeOf
    <3>2. Life'[k] \in {"fresh", "running", "doomed"}
      BY <3>1, LifeOfNext
    <3>3. QED
      BY <3>1, <3>2 DEF Lifetime!Moves
  <2>5. QED
    BY <2>1, <2>2, <2>3, <2>4
<1>3. \A k \in Tasks : Life[k] = "fresh" /\ Life'[k] # "fresh" => k \in new
  <2> SUFFICES ASSUME NEW k \in Tasks, Life[k] = "fresh", k \notin new
               PROVE  Life'[k] = "fresh"
    OBVIOUS
  <2>1. k \notin supplied
    BY LifeOf
  <2>2. QED
    BY <2>1, LifeOfNext
<1>4. QED
  BY <1>1, <1>2, <1>3 DEF Lifetime!Operate

\* A call of a handle is a cancellation of the abstract specification, or
\* changes no life when another goroutine had called the handle before.
LEMMA CancelStep ==
    ASSUME TaskInv, TaskInv', NEW t \in Threads, NEW k \in Tasks, Cancel(t, k)
    PROVE  Lifetime!Cancel(k) \/ UNCHANGED Life
<1> USE DEF TaskInv, HandleOrigins, NoTaskOutlivesItsCall, AttachedTaskRuns
<1>1. \A j \in Tasks : j # k => Life'[j] = Life[j]
  <2> SUFFICES ASSUME NEW j \in Tasks, j # k PROVE Life'[j] = Life[j]
    OBVIOUS
  <2>1. /\ (j \in cancelled' <=> j \in cancelled) /\ (j \in Held' <=> j \in Held)
        /\ (j \in Attached' <=> j \in Attached) /\ (j \in supplied' <=> j \in supplied)
    BY CancelMoves
  <2>2. QED
    BY <2>1, LifeOf, LifeOfNext
<1>2. k \in Held /\ Life'[k] = "cancelled"
  BY CancelMoves, LifeOfNext
<1>3. CASE k \in cancelled
  <2>1. Life'[k] = Life[k]
    BY <1>2, <1>3, LifeOf
  <2>2. QED
    BY <1>1, <2>1 DEF Life
<1>4. CASE k \notin cancelled
  <2>1. Life[k] = "doomed"
    BY <1>2, <1>4, LifeOf
  <2>2. Life' = [Life EXCEPT ![k] = "cancelled"]
    BY <1>1, <1>2 DEF Life
  <2>3. QED
    BY <2>1, <2>2 DEF Lifetime!Cancel
<1>5. QED
  BY <1>3, <1>4

\* Every behaviour of the registry is one TaskLifetime allows, its liveness
\* apart: no task is cancelled while its call is in the map, none that was
\* replaced, refused or removed runs on, and none comes back.
THEOREM ImplementsTaskLifetime == SafetySpec => Lifetime!SafetySpec
<1>1. Init => Lifetime!Init
  <2> SUFFICES ASSUME Init PROVE Lifetime!Init
    OBVIOUS
  <2>1. Attached = {} /\ Held = {} /\ cancelled = {} /\ supplied = {}
    BY DEF Init, Attached, Held
  <2>2. QED
    BY <2>1 DEF Lifetime!Init, Life
<1>2. TaskInv /\ TaskInv' /\ [Next]_vars => [Lifetime!Next]_Life
  <2> SUFFICES ASSUME TaskInv, TaskInv', [Next]_vars
               PROVE  Lifetime!Next \/ UNCHANGED Life
    OBVIOUS
  <2> USE DEF TaskInv, HandleOrigins
  <2>1. ASSUME NEW t \in Threads, NEW gone \in SUBSET known, Free(t), TakeOut(t, gone)
        PROVE Lifetime!Operate
    <3>1. supplied' = supplied \cup {} /\ cancelled' = cancelled /\ Held \subseteq Held'
          /\ Attached' \subseteq Attached
      BY <2>1, TakeOutMoves
    <3>2. {} \in SUBSET Tasks /\ \A j, k \in {} : j = k
      OBVIOUS
    <3>3. QED
      BY <3>1, <3>2, OperationStep
  <2>2. ASSUME NEW t \in Threads, AbortAll(t) PROVE Lifetime!Operate
    BY <2>1, <2>2 DEF AbortAll
  <2>3. ASSUME NEW t \in Threads, NEW c \in CallIDs, Remove(t, c) PROVE Lifetime!Operate
    BY <2>1, <2>3 DEF Remove
  <2>4. ASSUME NEW t \in Threads, NEW c \in CallIDs,
               \/ \E dir \in Directions : Insert(t, c, dir)
               \/ \E p \in Phases : Transition(t, c, p)
        PROVE UNCHANGED Life
    BY <2>4, SessionStepsMoveNothing DEF Life
  <2>5. ASSUME NEW t \in Threads, NEW c \in CallIDs, NEW k \in Tasks,
               SetMediaTaskFound(t, c, k)
        PROVE Lifetime!Operate
    <3>1. /\ supplied' = supplied \cup {k} /\ cancelled' = cancelled
          /\ Held \subseteq Held' /\ Attached' \cap supplied \subseteq Attached
      BY <2>5, FoundMoves
    <3>2. {k} \in SUBSET Tasks /\ \A i, j \in {k} : i = j
      OBVIOUS
    <3>3. QED
      BY <3>1, <3>2, OperationStep
  <2>6. ASSUME NEW t \in Threads, NEW c \in CallIDs, NEW k \in Tasks,
               SetMediaTaskUnknown(t, c, k)
        PROVE Lifetime!Operate
    <3>1. /\ supplied' = supplied \cup {k} /\ cancelled' = cancelled
          /\ Held \subseteq Held' /\ Attached' \cap supplied \subseteq Attached
      BY <2>6, UnknownMoves
    <3>2. {k} \in SUBSET Tasks /\ \A i, j \in {k} : i = j
      OBVIOUS
    <3>3. QED
      BY <3>1, <3>2, OperationStep
  <2>7. ASSUME NEW t \in Threads, NEW k \in Tasks, Cancel(t, k)
        PROVE Lifetime!Cancel(k) \/ UNCHANGED Life
    BY <2>7, CancelStep
  <2>8. CASE UNCHANGED vars
    BY <2>8 DEF vars, Life, Held, Attached
  <2>9. QED
    BY <2>2, <2>3, <2>4, <2>5, <2>6, <2>7, <2>8 DEF Next, Lifetime!Next
<1>3. QED
  BY <1>1, <1>2, TaskInvInductive, PTL DEF SafetySpec, Lifetime!SafetySpec
=============================================================================
