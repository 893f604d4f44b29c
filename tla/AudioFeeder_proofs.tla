------------------------- MODULE AudioFeeder_proofs -------------------------
(***************************************************************************)
(* TypeOK, OneFeeder and Paced of AudioFeeder, for any number of feeders   *)
(* and of exits of their processes, and that AudioFeeder implements the    *)
(* safety of AudioSource.  Paced is not inductive: it follows from Owed,   *)
(* that every chunk by which a feeder is ahead of the clock has a timer    *)
(* chain that waits for its time, and chains wait for one time only, so    *)
(* that there are as many of them as chunks.                               *)
(***************************************************************************)
EXTENDS AudioFeeder, FiniteSetTheorems, TLAPS

Owed(o) ==
    \A j \in Nat : o.ahead - j * Interval > 0 =>
        \E i \in Chains : o.due[i] = o.ahead - j * Interval
AllOwed == \A f \in Feeders : feed[f].running => Owed(feed[f])
IInv == Typed /\ OneFeeder /\ AllOwed

-----------------------------------------------------------------------------
\* What start, stop, a chunk and a tick make of an object.
LEMMA ConstantFacts ==
    /\ Interval \in Nat \ {0} /\ MaxLag \in Nat /\ Pause \in Times
    /\ MaxRestarts \in Nat /\ MaxFeeders \in Nat \ {0}
    /\ Off \in Times /\ 0 \in Times /\ Off = -1 /\ None = 0
    /\ None \notin Chains /\ None \notin Feeders /\ Behind \in Int
BY FeederAssumption DEF Times, Off, None, Chains, Feeders, Behind

LEMMA NewObject == New \in FeederObject /\ ~New.running
BY ConstantFacts DEF New, FeederObject

LEMMA Rescheduled ==
    ASSUME NEW o \in FeederObject, NEW a \in Int, NEW d \in [Chains -> Times], NEW i \in Chains
    PROVE  [o EXCEPT !.ahead = a, !.due = d, !.timer = i] \in FeederObject
BY DEF FeederObject

LEMMA StartedAfresh ==
    ASSUME NEW o \in FeederObject, NEW d \in [Chains -> Times], NEW i \in Chains,
           NEW r, r = [o EXCEPT !.running = TRUE, !.proc = "alive", !.ahead = 0, !.due = d, !.timer = i]
    PROVE  r \in FeederObject /\ r.running /\ r.ahead = 0
<1>. DEFINE q == [o EXCEPT !.running = TRUE, !.proc = "alive"]
<1>1. q \in FeederObject /\ q.running
  BY DEF FeederObject
<1>2. r = [q EXCEPT !.ahead = 0, !.due = d, !.timer = i]
  OBVIOUS
<1>. HIDE DEF q
<1>3. \A a \in Int : [q EXCEPT !.ahead = a, !.due = d, !.timer = i] \in FeederObject
  BY ONLY <1>1, Rescheduled, d \in [Chains -> Times], i \in Chains
<1>4. [q EXCEPT !.ahead = 0, !.due = d, !.timer = i] \in FeederObject
  <2>. DEFINE z == 0
  <2>1. z \in Int
    OBVIOUS
  <2>. HIDE DEF z
  <2>2. [q EXCEPT !.ahead = z, !.due = d, !.timer = i] \in FeederObject
    BY ONLY <1>3, <2>1, Zenon
  <2>. QED  BY ONLY <2>2, Zenon DEF z
<1>5. r.running /\ r.ahead = 0
  BY <1>1, <1>2 DEF FeederObject
<1>6. r \in FeederObject
  BY ONLY <1>2, <1>4, Zenon
<1>. QED  BY <1>5, <1>6

LEMMA StartedObject ==
    ASSUME NEW o \in FeederObject, NEW spawns \in BOOLEAN, Owed(o)
    PROVE  /\ Started(o, spawns) \in FeederObject
           /\ Started(o, spawns).running
           /\ Owed(Started(o, spawns))
<1>. USE ConstantFacts
<1>. DEFINE i == o.exits + 1
            r == [o EXCEPT !.running = TRUE, !.proc = "alive",
                           !.ahead = 0, !.due[i] = 0, !.timer = i]
<1>1. i \in Chains
  BY DEF FeederObject, Chains
<1>. HIDE DEF i
<1>2. r \in FeederObject /\ r.running /\ r.ahead = 0
  <2>. DEFINE d == [o.due EXCEPT ![i] = 0]
  <2>1. d \in [Chains -> Times]
    BY <1>1 DEF FeederObject
  <2>2. r = [o EXCEPT !.running = TRUE, !.proc = "alive", !.ahead = 0, !.due = d, !.timer = i]
    BY DEF FeederObject
  <2>. HIDE DEF d
  <2>. QED  BY ONLY <1>1, <2>1, <2>2, StartedAfresh, o \in FeederObject DEF r
<1>3. Owed(r)
  BY <1>2 DEF Owed
<1>4. CASE spawns
  BY <1>2, <1>3, <1>4 DEF Started, i
<1>5. CASE ~spawns
  <2>1. Started(o, spawns) = [o EXCEPT !.running = TRUE]
    BY <1>5 DEF Started
  <2>. QED  BY <2>1 DEF FeederObject, Owed
<1>. QED  BY <1>4, <1>5

LEMMA StoppedObject ==
    ASSUME NEW o \in FeederObject
    PROVE  Stopped(o) \in FeederObject /\ ~Stopped(o).running
BY ConstantFacts DEF FeederObject, Stopped

LEMMA AdvancedObject ==
    ASSUME NEW o \in FeederObject, NEW i \in Chains, Owed(o), o.running, o.due[i] = 0
    PROVE  /\ Advance(o, i) \in FeederObject
           /\ Advance(o, i).running
           /\ Owed(Advance(o, i))
<1>. USE ConstantFacts
<1>. DEFINE next == IF o.ahead + Interval < -MaxLag THEN 0 ELSE o.ahead + Interval
            r == [o EXCEPT !.ahead = next, !.due[i] = Greater(0, next), !.timer = i]
<1>1. Advance(o, i) = r
  BY DEF Advance
<1>2. next \in Int /\ Greater(0, next) \in Times
  BY DEF FeederObject, Greater, Times
<1>. HIDE DEF next
<1>3. r \in FeederObject /\ r.running /\ r.ahead = next
  BY <1>2 DEF FeederObject
<1>4. r.due[i] = Greater(0, next) /\ \A k \in Chains \ {i} : r.due[k] = o.due[k]
  BY DEF FeederObject
<1>. HIDE DEF r
<1>5. ASSUME NEW j \in Nat, next - j * Interval > 0
      PROVE  \E k \in Chains : r.due[k] = next - j * Interval
  <2>1. CASE j = 0
    <3>1. j * Interval = 0
      BY <2>1
    <3>2. Greater(0, next) = next
      BY <1>2, <1>5, <3>1 DEF Greater
    <3>. QED  BY <1>2, <1>4, <3>1, <3>2
  <2>2. CASE j # 0
    <3>. DEFINE l == j - 1
    <3>1. l \in Nat /\ j * Interval = l * Interval + Interval
      BY <2>2
    <3>2. l * Interval \in Nat
      BY <3>1
    <3>. HIDE DEF l
    <3>3. next = o.ahead + Interval
      BY <1>2, <1>5, <3>1, <3>2 DEF next
    <3>4. o.ahead - l * Interval = next - j * Interval
      BY <3>1, <3>2, <3>3 DEF FeederObject
    <3>5. PICK k \in Chains : o.due[k] = o.ahead - l * Interval
      BY <1>5, <3>1, <3>4 DEF Owed
    <3>6. k # i
      BY <1>5, <3>4, <3>5
    <3>. QED  BY <1>4, <3>4, <3>5, <3>6
  <2>. QED  BY <2>1, <2>2
<1>6. Owed(r)
  BY <1>3, <1>5 DEF Owed
<1>. QED  BY <1>1, <1>3, <1>6 DEF r

Later(o) == [o EXCEPT !.due = [i \in Chains |-> Sooner(@[i])],
                      !.again = Sooner(@), !.ahead = Greater(Behind, @ - 1)]

LEMMA LaterObject ==
    ASSUME NEW o \in FeederObject
    PROVE  /\ Later(o) \in FeederObject /\ Later(o).running = o.running
           /\ Owed(o) => Owed(Later(o))
<1>. USE ConstantFacts
<1>. DEFINE r == Later(o)
<1>1. \A t \in Times : Sooner(t) \in Times /\ (t > 0 => Sooner(t) = t - 1)
  BY DEF Times, Sooner, Greater
<1>2. Greater(Behind, o.ahead - 1) \in Int
  BY DEF FeederObject, Greater
<1>3. /\ r \in FeederObject /\ r.running = o.running
      /\ r.ahead = Greater(Behind, o.ahead - 1)
      /\ \A i \in Chains : r.due[i] = Sooner(o.due[i])
  BY <1>1, <1>2 DEF FeederObject, Later
<1>. HIDE DEF r
<1>4. ASSUME Owed(o), NEW j \in Nat, r.ahead - j * Interval > 0
      PROVE  \E k \in Chains : r.due[k] = r.ahead - j * Interval
  <2>1. j * Interval \in Nat /\ Behind < 0
    BY FeederAssumption DEF Behind
  <2>2. r.ahead = o.ahead - 1 /\ o.ahead \in Int
    BY <1>3, <1>4, <2>1 DEF Greater, FeederObject
  <2>3. PICK k \in Chains : o.due[k] = o.ahead - j * Interval
    BY <1>4, <2>1, <2>2 DEF Owed
  <2>4. o.due[k] \in Times /\ o.due[k] > 0
    BY <1>4, <2>1, <2>2, <2>3 DEF FeederObject
  <2>. QED  BY <1>1, <1>3, <2>1, <2>2, <2>3, <2>4
<1>. QED  BY <1>3, <1>4 DEF Owed, r

-----------------------------------------------------------------------------
LEMMA InitKeeps == Init => IInv
<1>. SUFFICES ASSUME Init PROVE IInv
  OBVIOUS
<1>1. \A f \in Feeders : feed[f] = New
  BY DEF Init
<1>2. Typed
  <2>1. feed \in [Feeders -> FeederObject]
    BY NewObject DEF Init
  <2>2. engine \in BOOLEAN /\ buffer \in BOOLEAN
    BY DEF Init
  <2>3. made \in 0..MaxFeeders /\ feeder \in 0..made
    BY ConstantFacts DEF Init
  <2>. QED  BY <1>1, <2>1, <2>2, <2>3, NewObject DEF Typed
<1>3. OneFeeder /\ AllOwed
  BY <1>1, NewObject DEF OneFeeder, AllOwed
<1>. QED  BY <1>2, <1>3 DEF IInv

\* A step that gives one object another state, and the manager no new feeder.
LEMMA ObjectStep ==
    ASSUME IInv, NEW f \in Feeders, NEW o \in FeederObject,
           feed' = [feed EXCEPT ![f] = o],
           o.running => feed[f].running /\ Owed(o),
           UNCHANGED <<engine, buffer, feeder, made>>
    PROVE  IInv'
<1>1. feed \in [Feeders -> FeederObject]
  BY DEF IInv, Typed
<1>2. feed'[f] = o /\ \A g \in Feeders \ {f} : feed'[g] = feed[g]
  BY <1>1
<1>3. \A g \in Feeders : feed'[g].running => feed[g].running
  BY <1>2
<1>4. feed' \in [Feeders -> FeederObject]
  BY <1>1
<1>5. Typed'
  BY <1>3, <1>4 DEF IInv, Typed
<1>6. OneFeeder'
  BY <1>3 DEF IInv, OneFeeder
<1>7. AllOwed'
  BY <1>2 DEF IInv, AllOwed
<1>. QED  BY <1>5, <1>6, <1>7 DEF IInv

\* Nothing runs once the feeder the manager refers to is stopped.
LEMMA StopFeederStops ==
    ASSUME IInv
    PROVE  /\ StopFeeder \in [Feeders -> FeederObject]
           /\ \A g \in Feeders : ~StopFeeder[g].running
<1>1. feed \in [Feeders -> FeederObject] /\ feeder \in 0..made /\ made \in 0..MaxFeeders
  BY DEF IInv, Typed
<1>2. \A g \in Feeders : feed[g].running => g = feeder
  BY DEF IInv, OneFeeder
<1>3. CASE feeder = None
  BY <1>1, <1>2, <1>3, ConstantFacts DEF StopFeeder
<1>4. CASE feeder # None
  <2>1. feeder \in Feeders
    BY <1>1, <1>4, ConstantFacts DEF Feeders
  <2>2. StopFeeder = [feed EXCEPT ![feeder] = Stopped(feed[feeder])]
    BY <1>4 DEF StopFeeder
  <2>3. Stopped(feed[feeder]) \in FeederObject /\ ~Stopped(feed[feeder]).running
    BY <1>1, <2>1, StoppedObject
  <2>. QED  BY <1>1, <1>2, <2>1, <2>2, <2>3
<1>. QED  BY <1>3, <1>4

LEMMA ReplaceKeeps ==
    ASSUME IInv, NEW file \in BOOLEAN, NEW spawns \in BOOLEAN, Replace(file, spawns),
           UNCHANGED <<engine, buffer>>
    PROVE  IInv'
<1>. DEFINE n == made + 1
            o == Started([New EXCEPT !.file = file], spawns)
<1>1. /\ made < MaxFeeders /\ made' = n /\ feeder' = n
      /\ feed' = [StopFeeder EXCEPT ![n] = o]
  BY DEF Replace
<1>2. n \in Feeders /\ n \in 0..MaxFeeders /\ n \in 0..n
  BY <1>1, ConstantFacts DEF IInv, Typed, Feeders
<1>3. o \in FeederObject /\ o.running /\ Owed(o)
  <2>1. [New EXCEPT !.file = file] \in FeederObject
    BY NewObject DEF FeederObject
  <2>2. Owed([New EXCEPT !.file = file])
    <3>1. [New EXCEPT !.file = file].ahead = 0
      BY DEF New
    <3>2. \A j \in Nat : ~(0 - j * Interval > 0)
      BY ConstantFacts
    <3>. QED  BY <3>1, <3>2 DEF Owed
  <2>. QED  BY <2>1, <2>2, StartedObject
<1>. HIDE DEF n, o
<1>4. /\ feed' \in [Feeders -> FeederObject] /\ feed'[n] = o
      /\ \A g \in Feeders \ {n} : ~feed'[g].running
  BY <1>1, <1>2, <1>3, StopFeederStops
<1>5. Typed'
  <2>1. \A g \in Feeders : g > made' => ~feed'[g].running
    BY <1>1, <1>2, <1>4
  <2>. QED  BY <1>1, <1>2, <1>4, <2>1 DEF IInv, Typed
<1>6. OneFeeder' /\ AllOwed'
  BY <1>1, <1>3, <1>4 DEF OneFeeder, AllOwed
<1>. QED  BY <1>5, <1>6 DEF IInv

\* The manager gives up its feeder.
LEMMA GiveUpKeeps ==
    ASSUME IInv, feed' = StopFeeder, feeder' = None, buffer' \in BOOLEAN,
           UNCHANGED <<engine, made>>
    PROVE  IInv'
<1>1. Typed'
  BY StopFeederStops, ConstantFacts DEF IInv, Typed
<1>2. OneFeeder' /\ AllOwed'
  BY StopFeederStops DEF OneFeeder, AllOwed
<1>. QED  BY <1>1, <1>2 DEF IInv

LEMMA ManagerSteps ==
    ASSUME IInv,
           \/ MakesEngine \/ CaptureInit \/ CaptureStop \/ Destroy
           \/ \E file, spawns \in BOOLEAN : CaptureStart(file, spawns) \/ SwitchAudio(file, spawns)
    PROVE  IInv'
<1>1. CASE MakesEngine \/ CaptureInit \/ Destroy
  BY <1>1 DEF MakesEngine, CaptureInit, Destroy, IInv, Typed, OneFeeder, AllOwed, Owed
<1>2. CASE CaptureStop
  <2>1. (buffer /\ ~engine) \in BOOLEAN
    OBVIOUS
  <2>. QED  BY <1>2, <2>1, GiveUpKeeps DEF CaptureStop
<1>3. ASSUME NEW file \in BOOLEAN, NEW spawns \in BOOLEAN,
             CaptureStart(file, spawns) \/ SwitchAudio(file, spawns)
      PROVE  IInv'
  <2>1. CASE Replace(file, spawns) /\ UNCHANGED <<engine, buffer>>
    BY <2>1, ReplaceKeeps
  <2>2. CASE feed' = StopFeeder /\ feeder' = None /\ UNCHANGED <<made, engine, buffer>>
    <3>1. buffer' \in BOOLEAN
      BY <2>2 DEF IInv, Typed
    <3>. QED  BY <2>2, <3>1, GiveUpKeeps
  <2>. QED  BY <1>3, <2>1, <2>2 DEF CaptureStart, SwitchAudio
<1>. QED  BY <1>1, <1>2, <1>3

LEMMA FiresKeeps ==
    ASSUME IInv, NEW f \in Feeders, NEW i \in Chains, Fires(f, i)
    PROVE  IInv'
<1>1. /\ feed[f] \in FeederObject /\ feed[f].due[i] = 0
      /\ feed[f].running => Owed(feed[f])
      /\ UNCHANGED <<engine, buffer, feeder, made>>
  BY DEF IInv, Typed, AllOwed, Fires
<1>2. CASE feed[f].running
  BY <1>1, <1>2, AdvancedObject, ObjectStep DEF Fires
<1>3. CASE ~feed[f].running
  <2>. DEFINE o == [feed[f] EXCEPT !.due[i] = Off]
  <2>1. o \in FeederObject /\ ~o.running
    BY <1>1, <1>3, ConstantFacts DEF FeederObject
  <2>2. feed' = [feed EXCEPT ![f] = o]
    BY <1>3 DEF Fires
  <2>. HIDE DEF o
  <2>. QED  BY <1>1, <2>1, <2>2, ObjectStep
<1>. QED  BY <1>2, <1>3

LEMMA ExitsKeeps ==
    ASSUME IInv, NEW f \in Feeders, Exits(f)
    PROVE  IInv'
<1>. DEFINE p == feed[f]
            o == [p EXCEPT !.proc = "none",
                           !.exits = IF p.proc = "alive" THEN p.exits + 1 ELSE p.exits,
                           !.again = IF p.running /\ p.file THEN Pause ELSE p.again]
<1>1. /\ p \in FeederObject /\ (p.running => Owed(p))
      /\ p.proc = "alive" => p.exits < MaxRestarts
      /\ feed' = [feed EXCEPT ![f] = o]
      /\ UNCHANGED <<engine, buffer, feeder, made>>
  BY DEF IInv, Typed, AllOwed, Exits
<1>. HIDE DEF p
<1>2. /\ (IF p.proc = "alive" THEN p.exits + 1 ELSE p.exits) \in 0..MaxRestarts
      /\ (IF p.running /\ p.file THEN Pause ELSE p.again) \in Times
  BY <1>1, ConstantFacts DEF FeederObject
<1>3. o \in FeederObject /\ (o.running => p.running) /\ o.ahead = p.ahead /\ o.due = p.due
  BY <1>1, <1>2 DEF FeederObject
<1>. HIDE DEF o
<1>4. o.running => feed[f].running /\ Owed(o)
  BY <1>1, <1>3 DEF Owed, p
<1>. QED  BY <1>1, <1>3, <1>4, ObjectStep

LEMMA RestartsKeeps ==
    ASSUME IInv, NEW f \in Feeders, NEW spawns \in BOOLEAN, Restarts(f, spawns)
    PROVE  IInv'
<1>. DEFINE o == [feed[f] EXCEPT !.again = Off]
<1>1. /\ feed[f] \in FeederObject /\ (feed[f].running => Owed(feed[f]))
      /\ feed' = [feed EXCEPT ![f] = IF o.running THEN Started(o, spawns) ELSE o]
      /\ UNCHANGED <<engine, buffer, feeder, made>>
  BY DEF IInv, Typed, AllOwed, Restarts
<1>2. /\ o \in FeederObject /\ (o.running => feed[f].running)
      /\ o.ahead = feed[f].ahead /\ o.due = feed[f].due
  BY <1>1, ConstantFacts DEF FeederObject
<1>. HIDE DEF o
<1>3. CASE o.running
  <2>1. Owed(o)
    BY <1>1, <1>2, <1>3 DEF Owed
  <2>. QED  BY <1>1, <1>2, <1>3, <2>1, StartedObject, ObjectStep
<1>4. CASE ~o.running
  BY <1>1, <1>2, <1>4, ObjectStep
<1>. QED  BY <1>3, <1>4

LEMMA TickKeeps == ASSUME IInv, Tick PROVE IInv'
<1>1. feed \in [Feeders -> FeederObject]
  BY DEF IInv, Typed
<1>2. /\ feed' = [f \in Feeders |-> Later(feed[f])]
      /\ UNCHANGED <<engine, buffer, feeder, made>>
  BY DEF Tick, Later
<1>3. \A f \in Feeders : /\ feed'[f] \in FeederObject
                         /\ feed'[f].running = feed[f].running
                         /\ Owed(feed[f]) => Owed(feed'[f])
  BY <1>1, <1>2, LaterObject
<1>4. feed' \in [Feeders -> FeederObject]
  BY <1>2, <1>3
<1>5. Typed'
  BY <1>2, <1>3, <1>4 DEF IInv, Typed
<1>6. OneFeeder' /\ AllOwed'
  BY <1>2, <1>3 DEF IInv, OneFeeder, AllOwed
<1>. QED  BY <1>5, <1>6 DEF IInv

LEMMA StepKeeps == IInv /\ [Next]_vars => IInv'
<1>. SUFFICES ASSUME IInv, [Next]_vars PROVE IInv'
  OBVIOUS
<1>1. CASE UNCHANGED vars
  BY <1>1 DEF vars, IInv, Typed, OneFeeder, AllOwed, Owed
<1>2. CASE Next
  BY <1>2, ManagerSteps, TickKeeps, ExitsKeeps, FiresKeeps, RestartsKeeps DEF Next
<1>. QED  BY <1>1, <1>2

\* As many chains as chunks: no chain waits for two times.
LEMMA OwedIsPaced ==
    ASSUME NEW o \in FeederObject, Owed(o)
    PROVE  o.ahead <= Interval * Cardinality(SetChains(o))
<1>. USE ConstantFacts
<1>. DEFINE S == SetChains(o)
            n == Cardinality(S)
<1>1. IsFiniteSet(S) /\ n \in Nat
  <2>1. IsFiniteSet(1..(MaxRestarts + 1))
    BY FS_Interval
  <2>2. S \subseteq 1..(MaxRestarts + 1)
    BY DEF SetChains, Chains
  <2>. QED  BY <2>1, <2>2, FS_Subset, FS_CardinalityType
<1>2. o.ahead \in Int
  BY DEF FeederObject
<1>. HIDE DEF S, n
<1>3. SUFFICES ASSUME o.ahead > Interval * n PROVE FALSE
  BY <1>1, <1>2 DEF n, S
<1>4. \A j \in 0..n : j * Interval <= n * Interval /\ j * Interval \in Nat
  BY <1>1
<1>5. \A j \in 0..n : \E i \in S : o.due[i] = o.ahead - j * Interval
  <2>. SUFFICES ASSUME NEW j \in 0..n PROVE \E i \in S : o.due[i] = o.ahead - j * Interval
    OBVIOUS
  <2>1. o.ahead - j * Interval > 0
    BY <1>1, <1>2, <1>3, <1>4
  <2>2. PICK i \in Chains : o.due[i] = o.ahead - j * Interval
    BY <1>1, <2>1 DEF Owed
  <2>3. i \in S
    BY <1>2, <2>1, <2>2 DEF S, SetChains
  <2>. QED  BY <2>2, <2>3
<1>. DEFINE f == [j \in 0..n |-> CHOOSE i \in S : o.due[i] = o.ahead - j * Interval]
<1>6. f \in [0..n -> S] /\ \A j \in 0..n : o.due[f[j]] = o.ahead - j * Interval
  BY <1>5
<1>7. IsFiniteSet(0..n) /\ Cardinality(0..n) = n + 1
  BY <1>1, FS_Interval
<1>. HIDE DEF f
<1>8. PICK x, y \in 0..n : x # y /\ f[x] = f[y]
  BY <1>1, <1>6, <1>7, FS_PigeonHole DEF n
<1>9. x * Interval = y * Interval
  <2>1. x * Interval \in Nat /\ y * Interval \in Nat
    BY <1>4, <1>8
  <2>2. o.ahead - x * Interval = o.ahead - y * Interval
    BY <1>6, <1>8
  <2>. QED  BY <1>2, <2>1, <2>2
<1>. QED  BY <1>1, <1>8, <1>9

(* The three hold together in every state (RobustAudioFeeder, lines 669-800).*)
THEOREM FeedersInductive == Spec => []IInv
<1>. QED  BY InitKeeps, StepKeeps, PTL DEF Spec

-----------------------------------------------------------------------------
\* The timers of each object are in order, whatever becomes of it.
TimersKept == \A f \in Feeders : TimersOK(feed[f])

LEMMA NewTimers == \A file \in BOOLEAN : TimersOK([New EXCEPT !.file = file]) /\ TimersOK(New)
BY DEF New, TimersOK, Off, None

LEMMA StartedTimers ==
    ASSUME NEW o \in FeederObject, NEW spawns \in BOOLEAN, TimersOK(o), o.proc # "told"
    PROVE  TimersOK(Started(o, spawns))
<1>1. o.exits + 1 \in Chains /\ 0 # Off
  BY ConstantFacts DEF FeederObject, Chains
<1>2. CASE spawns
  BY <1>1, <1>2 DEF Started, TimersOK, FeederObject
<1>3. CASE ~spawns
  BY <1>3 DEF Started, TimersOK, FeederObject
<1>. QED  BY <1>2, <1>3

LEMMA StoppedTimers ==
    ASSUME NEW o \in FeederObject, TimersOK(o)
    PROVE  TimersOK(Stopped(o))
BY DEF FeederObject, Stopped, TimersOK

\* A step that gives one object another state.
LEMMA ObjectTimers ==
    ASSUME Typed, TimersKept, NEW f \in Feeders, NEW o, TimersOK(o), feed' = [feed EXCEPT ![f] = o]
    PROVE  TimersKept'
BY DEF Typed, TimersKept, TimersOK

LEMMA StopFeederTimers ==
    ASSUME Typed, TimersKept
    PROVE  \A g \in Feeders : TimersOK(StopFeeder[g])
<1>1. feed \in [Feeders -> FeederObject] /\ (feeder = None \/ feeder \in Feeders)
  BY ConstantFacts DEF Typed, Feeders
<1>2. CASE feeder = None
  BY <1>2 DEF StopFeeder, TimersKept
<1>3. CASE feeder # None
  <2>1. feeder \in Feeders /\ StopFeeder = [feed EXCEPT ![feeder] = Stopped(feed[feeder])]
    BY <1>1, <1>3 DEF StopFeeder
  <2>2. TimersOK(Stopped(feed[feeder]))
    BY <1>1, <2>1, StoppedTimers DEF TimersKept
  <2>. QED  BY <1>1, <2>1, <2>2 DEF TimersKept
<1>. QED  BY <1>2, <1>3

LEMMA ReplaceTimers ==
    ASSUME IInv, TimersKept, NEW file \in BOOLEAN, NEW spawns \in BOOLEAN, Replace(file, spawns)
    PROVE  TimersKept'
<1>. DEFINE n == made + 1
            e == [New EXCEPT !.file = file]
            o == Started(e, spawns)
<1>1. n \in Feeders /\ feed' = [StopFeeder EXCEPT ![n] = o]
  BY ConstantFacts DEF Replace, IInv, Typed, Feeders
<1>2. e \in FeederObject /\ TimersOK(e) /\ e.proc # "told"
  BY NewObject, NewTimers DEF New, FeederObject
<1>. HIDE DEF e
<1>3. TimersOK(o)
  BY <1>2, StartedTimers
<1>. HIDE DEF o, n
<1>4. /\ StopFeeder \in [Feeders -> FeederObject]
      /\ \A g \in Feeders : TimersOK(StopFeeder[g])
  BY StopFeederStops, StopFeederTimers DEF IInv
<1>5. feed'[n] = o /\ \A g \in Feeders \ {n} : feed'[g] = StopFeeder[g]
  BY <1>1, <1>4
<1>6. \A g \in Feeders : TimersOK(feed'[g])
  BY <1>3, <1>4, <1>5
<1>. QED  BY <1>6 DEF TimersKept, TimersOK

LEMMA OwnTimers ==
    ASSUME IInv, TimersKept, NEW f \in Feeders,
           \/ Exits(f)
           \/ \E i \in Chains : Fires(f, i)
           \/ \E spawns \in BOOLEAN : Restarts(f, spawns)
    PROVE  TimersKept'
<1>. DEFINE o == feed[f]
<1>1. o \in FeederObject /\ TimersOK(o) /\ Typed
  BY DEF IInv, Typed, TimersKept
<1>. HIDE DEF o
<1>2. CASE Exits(f)
  <2>. DEFINE r == [o EXCEPT !.proc = "none",
                             !.exits = IF o.proc = "alive" THEN o.exits + 1 ELSE o.exits,
                             !.again = IF o.running /\ o.file THEN Pause ELSE o.again]
  <2>1. TimersOK(r)
    BY <1>1 DEF FeederObject, TimersOK
  <2>2. feed' = [feed EXCEPT ![f] = r]
    BY <1>2 DEF Exits, o
  <2>. QED  BY <1>1, <2>1, <2>2, ObjectTimers
<1>3. ASSUME NEW i \in Chains, Fires(f, i) PROVE TimersKept'
  <2>1. CASE o.running
    <3>1. feed' = [feed EXCEPT ![f] = Advance(o, i)]
      BY <1>3, <2>1 DEF Fires, o
    <3>2. TimersOK(Advance(o, i))
      <4>. DEFINE next == IF o.ahead + Interval < -MaxLag THEN 0 ELSE o.ahead + Interval
                  r == [o EXCEPT !.ahead = next, !.due[i] = Greater(0, next), !.timer = i]
      <4>1. Greater(0, next) # Off
        BY <1>1, ConstantFacts DEF FeederObject, Greater
      <4>2. Advance(o, i) = r
        BY DEF Advance
      <4>. HIDE DEF next
      <4>3. TimersOK(r)
        BY <1>1, <2>1, <4>1 DEF FeederObject, TimersOK
      <4>. QED  BY <4>2, <4>3
    <3>. QED  BY <1>1, <3>1, <3>2, ObjectTimers
  <2>2. CASE ~o.running
    <3>. DEFINE r == [o EXCEPT !.due[i] = Off]
    <3>1. TimersOK(r)
      BY <1>1, <2>2 DEF FeederObject, TimersOK
    <3>2. feed' = [feed EXCEPT ![f] = r]
      BY <1>3, <2>2 DEF Fires, o
    <3>. QED  BY <1>1, <3>1, <3>2, ObjectTimers
  <2>. QED  BY <2>1, <2>2
<1>4. ASSUME NEW spawns \in BOOLEAN, Restarts(f, spawns) PROVE TimersKept'
  <2>. DEFINE r == [o EXCEPT !.again = Off]
  <2>1. /\ r \in FeederObject /\ TimersOK(r) /\ (r.running => r.proc # "told")
    BY <1>1, ConstantFacts DEF FeederObject, TimersOK
  <2>2. feed' = [feed EXCEPT ![f] = IF r.running THEN Started(r, spawns) ELSE r]
    BY <1>4 DEF Restarts, o
  <2>. HIDE DEF r
  <2>3. r.running => TimersOK(Started(r, spawns))
    BY <2>1, StartedTimers
  <2>. QED  BY <1>1, <2>1, <2>2, <2>3, ObjectTimers
<1>. QED  BY <1>2, <1>3, <1>4

LEMMA TickTimers == ASSUME IInv, TimersKept, Tick PROVE TimersKept'
<1>1. feed \in [Feeders -> FeederObject] /\ feed' = [f \in Feeders |-> Later(feed[f])]
  BY DEF IInv, Typed, Tick, Later
<1>2. \A t \in Times : Sooner(t) = Off <=> t = Off
  BY ConstantFacts DEF Times, Sooner, Greater
<1>3. ASSUME NEW o \in FeederObject, TimersOK(o) PROVE TimersOK(Later(o))
  <2>1. /\ Later(o).timer = o.timer /\ Later(o).running = o.running
        /\ Later(o).file = o.file /\ Later(o).proc = o.proc /\ Later(o).again = Sooner(o.again)
        /\ \A i \in Chains : Later(o).due[i] = Sooner(o.due[i])
    BY DEF Later, FeederObject
  <2>2. o.again \in Times /\ o.timer \in Chains \cup {None} /\ \A i \in Chains : o.due[i] \in Times
    BY DEF FeederObject
  <2>. QED  BY <1>2, <1>3, <2>1, <2>2 DEF TimersOK
<1>4. \A f \in Feeders : TimersOK(feed'[f])
  BY <1>1, <1>3 DEF TimersKept
<1>. QED  BY <1>4 DEF TimersKept, TimersOK

LEMMA StepKeepsTimers == IInv /\ TimersKept /\ [Next]_vars => TimersKept'
<1>. SUFFICES ASSUME IInv, TimersKept, [Next]_vars PROVE TimersKept'
  OBVIOUS
<1>1. CASE UNCHANGED feed
  BY <1>1 DEF TimersKept, TimersOK
<1>2. CASE feed' = StopFeeder
  <2>1. \A g \in Feeders : TimersOK(feed'[g])
    BY <1>2, StopFeederTimers DEF IInv
  <2>. QED  BY <2>1 DEF TimersKept, TimersOK
<1>3. CASE \E file, spawns \in BOOLEAN : Replace(file, spawns)
  BY <1>3, ReplaceTimers
<1>4. CASE UNCHANGED vars \/ MakesEngine \/ CaptureInit \/ Destroy
  BY <1>1, <1>4 DEF vars, MakesEngine, CaptureInit, Destroy
<1>5. CASE \/ CaptureStop
            \/ \E file, spawns \in BOOLEAN : CaptureStart(file, spawns) \/ SwitchAudio(file, spawns)
  BY <1>2, <1>3, <1>5 DEF CaptureStop, CaptureStart, SwitchAudio
<1>. QED  BY <1>4, <1>5, OwnTimers, TickTimers DEF Next

LEMMA InitTimers == Init => TimersKept
BY NewTimers DEF Init, TimersKept

(* Objects keep their types, and an object not made does not run; the timer *)
(* a feeder would clear is one that is set, of a feeder that runs, silence   *)
(* is never started again, and a process told to stop is not of a feeder     *)
(* that runs (start, exit and stop, lines 703-755, 787-799).                 *)
THEOREM FeederTypeOK == Spec => []TypeOK
<1>1. Spec => []TimersKept
  BY InitTimers, StepKeepsTimers, FeedersInductive, PTL DEF Spec
<1>2. IInv /\ TimersKept => TypeOK
  BY DEF IInv, TimersKept, TypeOK
<1>. QED  BY <1>1, <1>2, FeedersInductive, PTL

-----------------------------------------------------------------------------

(* Only the feeder the manager refers to runs, for any number of audio      *)
(* switches, capture starts and restarts (lines 738-748, 1035-1082).        *)
THEOREM OneFeederRuns == Spec => []OneFeeder
<1>1. IInv => OneFeeder
  BY DEF IInv
<1>. QED  BY <1>1, FeedersInductive, PTL

(* A feeder that runs is ahead of the clock by a chunk per timer chain at   *)
(* most, however often its process exited and whatever the intervals are    *)
(* (scheduleNext, lines 757-771).                                           *)
THEOREM FeedersArePaced == Spec => []Paced
<1>1. IInv => Paced
  BY OwedIsPaced DEF IInv, Typed, AllOwed, Paced
<1>. QED  BY <1>1, FeedersInductive, PTL
-----------------------------------------------------------------------------
\* The feeder the manager refers to runs: with it, a stop never meets a
\* feeder that was stopped before.
FeederRuns == feeder # None => feed[feeder].running

Stage(o) == IF o.running THEN "streaming" ELSE IF Quiet(o) THEN "silent" ELSE "draining"
StagesOfLife ==
    /\ Life \in [Feeders -> Source!LifeStates]
    /\ \A f \in Feeders : /\ f > made => Life[f] = "unmade"
                          /\ f <= made => Life[f] = Stage(feed[f])

LEMMA LifeStages == Typed => StagesOfLife
<1>. SUFFICES ASSUME Typed PROVE StagesOfLife
  OBVIOUS
<1>1. made \in Int /\ \A f \in Feeders : f \in Int
  BY ConstantFacts DEF Typed, Feeders
<1>. DEFINE l(f) == CASE f > made                      -> "unmade"
                      [] f <= made /\ feed[f].running  -> "streaming"
                      [] f <= made /\ ~feed[f].running -> IF Quiet(feed[f]) THEN "silent" ELSE "draining"
<1>2. \A f \in Feeders : /\ f > made => l(f) = "unmade"
                         /\ f <= made => l(f) = Stage(feed[f])
  <2>. SUFFICES ASSUME NEW f \in Feeders
                PROVE  (f > made => l(f) = "unmade") /\ (f <= made => l(f) = Stage(feed[f]))
    OBVIOUS
  <2>1. f > made \/ f <= made
    BY <1>1
  <2>2. ~(f > made /\ f <= made)
    BY <1>1
  <2>. QED  BY <2>1, <2>2 DEF Stage
<1>3. Life = [f \in Feeders |-> l(f)]
  BY DEF Life
<1>. HIDE DEF l
<1>4. \A f \in Feeders : Life[f] = l(f)
  BY <1>3
<1>5. \A f \in Feeders : l(f) \in Source!LifeStates
  <2>. SUFFICES ASSUME NEW f \in Feeders PROVE l(f) \in Source!LifeStates
    OBVIOUS
  <2>1. f > made \/ f <= made
    BY <1>1
  <2>2. Stage(feed[f]) \in {"streaming", "draining", "silent"}
    BY DEF Stage
  <2>. QED  BY <1>2, <2>1, <2>2 DEF Source!LifeStates
<1>. QED  BY <1>2, <1>3, <1>4, <1>5 DEF StagesOfLife

LEMMA LifeStagesNext == Typed' => StagesOfLife'
BY LifeStages, PTL

\* A step of one feeder's own: what runs goes on, what is silent stays so.
LEMMA OwnStep ==
    ASSUME IInv, IInv', FeederRuns, NEW f \in Feeders, NEW o \in FeederObject,
           feed' = [feed EXCEPT ![f] = o], o.running = feed[f].running,
           Quiet(feed[f]) => o.running \/ Quiet(o),
           UNCHANGED <<engine, buffer, feeder, made>>
    PROVE  FeederRuns' /\ [Source!Next]_Life
<1>1. StagesOfLife /\ StagesOfLife' /\ feed \in [Feeders -> FeederObject]
  BY LifeStages, LifeStagesNext DEF IInv, Typed
<1>2. feed'[f] = o /\ \A g \in Feeders \ {f} : feed'[g] = feed[g]
  BY <1>1
<1>3. FeederRuns'
  <2>1. feeder = None \/ feeder \in Feeders
    BY ConstantFacts DEF IInv, Typed, Feeders
  <2>. QED  BY <1>2, <2>1 DEF FeederRuns
<1>4. /\ \A g \in Feeders : g \in Int
      /\ made \in Int
  BY ConstantFacts DEF IInv, Typed, Feeders
<1>5. \A g \in Feeders \ {f} : Life'[g] = Life[g]
  BY <1>1, <1>2, <1>4 DEF StagesOfLife
<1>6. Life'[f] = Life[f] \/ (Life[f] = "draining" /\ Life'[f] = "silent")
  <2>1. CASE f > made
    BY <1>1, <2>1 DEF StagesOfLife
  <2>2. CASE f <= made
    <3>1. Life[f] = Stage(feed[f]) /\ Life'[f] = Stage(o)
      BY <1>1, <1>2, <2>2 DEF StagesOfLife
    <3>. QED  BY <3>1 DEF Stage
  <2>. QED  BY <1>4, <2>1, <2>2
<1>7. CASE Life'[f] = Life[f]
  <2>1. \A g \in Feeders : Life'[g] = Life[g]
    BY <1>5, <1>7
  <2>2. Life' = Life
    BY <1>1, <2>1 DEF StagesOfLife
  <2>. QED  BY <1>3, <2>2
<1>8. CASE Life[f] = "draining" /\ Life'[f] = "silent"
  <2>1. Life' = [Life EXCEPT ![f] = "silent"]
    BY <1>1, <1>5, <1>8 DEF StagesOfLife
  <2>2. Source!Drain(f)
    BY <1>8, <2>1 DEF Source!Drain
  <2>. QED  BY <1>3, <2>2 DEF Source!Next
<1>. QED  BY <1>6, <1>7, <1>8

LEMMA FiresLives ==
    ASSUME IInv, IInv', FeederRuns, NEW f \in Feeders, NEW i \in Chains, Fires(f, i)
    PROVE  FeederRuns' /\ [Source!Next]_Life
<1>1. /\ feed[f] \in FeederObject /\ feed[f].due[i] = 0
      /\ feed[f].running => Owed(feed[f])
      /\ UNCHANGED <<engine, buffer, feeder, made>>
  BY DEF IInv, Typed, AllOwed, Fires
<1>2. ~Quiet(feed[f])
  BY <1>1, ConstantFacts DEF Quiet, SetChains
<1>3. CASE feed[f].running
  <2>1. Advance(feed[f], i) \in FeederObject /\ Advance(feed[f], i).running = feed[f].running
    <3>1. feed[f].running = TRUE /\ Advance(feed[f], i).running \in BOOLEAN
      BY <1>1, <1>3, AdvancedObject DEF FeederObject
    <3>. QED  BY <1>1, <1>3, <3>1, AdvancedObject
  <2>2. feed' = [feed EXCEPT ![f] = Advance(feed[f], i)]
    BY <1>3 DEF Fires
  <2>. QED  BY <1>1, <1>2, <2>1, <2>2, OwnStep
<1>4. CASE ~feed[f].running
  <2>. DEFINE o == [feed[f] EXCEPT !.due[i] = Off]
  <2>1. o \in FeederObject /\ o.running = feed[f].running
    BY <1>1, ConstantFacts DEF FeederObject
  <2>2. feed' = [feed EXCEPT ![f] = o]
    BY <1>4 DEF Fires
  <2>. HIDE DEF o
  <2>. QED  BY <1>1, <1>2, <2>1, <2>2, OwnStep
<1>. QED  BY <1>3, <1>4

LEMMA ExitsLives ==
    ASSUME IInv, IInv', FeederRuns, NEW f \in Feeders, Exits(f)
    PROVE  FeederRuns' /\ [Source!Next]_Life
<1>. DEFINE p == feed[f]
            o == [p EXCEPT !.proc = "none",
                           !.exits = IF p.proc = "alive" THEN p.exits + 1 ELSE p.exits,
                           !.again = IF p.running /\ p.file THEN Pause ELSE p.again]
<1>1. /\ p \in FeederObject /\ p.proc # "none"
      /\ p.proc = "alive" => p.exits < MaxRestarts
      /\ feed' = [feed EXCEPT ![f] = o]
      /\ UNCHANGED <<engine, buffer, feeder, made>>
  BY DEF IInv, Typed, Exits
<1>2. ~Quiet(p)
  BY <1>1 DEF Quiet
<1>. HIDE DEF p
<1>3. /\ (IF p.proc = "alive" THEN p.exits + 1 ELSE p.exits) \in 0..MaxRestarts
      /\ (IF p.running /\ p.file THEN Pause ELSE p.again) \in Times
  BY <1>1, ConstantFacts DEF FeederObject
<1>4. o \in FeederObject /\ o.running = p.running
  BY <1>1, <1>3 DEF FeederObject
<1>. HIDE DEF o
<1>5. ~Quiet(feed[f]) /\ o.running = feed[f].running
  BY <1>2, <1>4 DEF p
<1>. QED  BY <1>1, <1>4, <1>5, OwnStep

LEMMA RestartsLives ==
    ASSUME IInv, IInv', FeederRuns, NEW f \in Feeders, NEW spawns \in BOOLEAN,
           Restarts(f, spawns)
    PROVE  FeederRuns' /\ [Source!Next]_Life
<1>. DEFINE o == [feed[f] EXCEPT !.again = Off]
<1>1. /\ feed[f] \in FeederObject /\ (feed[f].running => Owed(feed[f]))
      /\ feed[f].again = 0
      /\ feed' = [feed EXCEPT ![f] = IF o.running THEN Started(o, spawns) ELSE o]
      /\ UNCHANGED <<engine, buffer, feeder, made>>
  BY DEF IInv, Typed, AllOwed, Restarts
<1>2. ~Quiet(feed[f])
  BY <1>1, ConstantFacts DEF Quiet
<1>3. /\ o \in FeederObject /\ o.running = feed[f].running
      /\ o.ahead = feed[f].ahead /\ o.due = feed[f].due
  BY <1>1, ConstantFacts DEF FeederObject
<1>. HIDE DEF o
<1>4. CASE o.running
  <2>1. Owed(o)
    BY <1>1, <1>3, <1>4 DEF Owed
  <2>2. Started(o, spawns) \in FeederObject /\ Started(o, spawns).running
    BY <1>3, <2>1, StartedObject
  <2>3. Started(o, spawns).running = feed[f].running
    <3>1. Started(o, spawns).running \in BOOLEAN /\ o.running \in BOOLEAN
      BY <1>3, <2>2 DEF FeederObject
    <3>. QED  BY <1>3, <1>4, <2>2, <3>1
  <2>. QED  BY <1>1, <1>2, <1>4, <2>2, <2>3, OwnStep
<1>5. CASE ~o.running
  BY <1>1, <1>2, <1>3, <1>5, OwnStep
<1>. QED  BY <1>4, <1>5

\* A timer that is set stays set while time passes: it is due in the end.
LEMMA TickLives ==
    ASSUME IInv, IInv', FeederRuns, Tick
    PROVE  FeederRuns' /\ [Source!Next]_Life
<1>1. StagesOfLife /\ StagesOfLife' /\ feed \in [Feeders -> FeederObject]
  BY LifeStages, LifeStagesNext DEF IInv, Typed
<1>2. feeder = None \/ feeder \in Feeders
  BY ConstantFacts DEF IInv, Typed, Feeders
<1>3. /\ feed' = [f \in Feeders |-> Later(feed[f])]
      /\ UNCHANGED <<engine, buffer, feeder, made>>
  BY DEF Tick, Later
<1>4. \A t \in Times : Sooner(t) = Off <=> t = Off
  BY ConstantFacts DEF Times, Sooner, Greater
<1>5. ASSUME NEW f \in Feeders
      PROVE  feed'[f].running = feed[f].running /\ Stage(feed'[f]) = Stage(feed[f])
  <2>1. /\ feed[f] \in FeederObject
        /\ feed'[f].again = Sooner(feed[f].again) /\ feed'[f].proc = feed[f].proc
        /\ feed'[f].running = feed[f].running
        /\ \A i \in Chains : feed'[f].due[i] = Sooner(feed[f].due[i])
    BY <1>1, <1>3 DEF Later, FeederObject
  <2>2. feed[f].again \in Times /\ \A i \in Chains : feed[f].due[i] \in Times
    BY <2>1 DEF FeederObject
  <2>3. SetChains(feed'[f]) = SetChains(feed[f])
    BY <1>4, <2>1, <2>2 DEF SetChains
  <2>. QED  BY <1>4, <2>1, <2>2, <2>3 DEF Stage, Quiet
<1>6. FeederRuns'
  BY <1>2, <1>3, <1>5 DEF FeederRuns
<1>7. made \in Int /\ \A f \in Feeders : f \in Int
  BY ConstantFacts DEF IInv, Typed, Feeders
<1>8. \A f \in Feeders : Life'[f] = Life[f]
  BY <1>1, <1>3, <1>5, <1>7 DEF StagesOfLife
<1>9. Life' = Life
  BY <1>1, <1>8 DEF StagesOfLife
<1>. QED  BY <1>6, <1>9

\* StopFeeder ends the one feeder that streams and touches no other.
LEMMA StopFeederEnds ==
    ASSUME IInv, FeederRuns, NEW g \in Feeders
    PROVE  IF feed[g].running THEN Stage(StopFeeder[g]) \in {"draining", "silent"}
                              ELSE StopFeeder[g] = feed[g]
<1>1. feed \in [Feeders -> FeederObject] /\ (feeder = None \/ feeder \in Feeders)
  BY ConstantFacts DEF IInv, Typed, Feeders
<1>2. CASE feed[g].running
  BY <1>2, StopFeederStops DEF Stage
<1>3. CASE ~feed[g].running
  <2>1. g # feeder \/ feeder = None
    BY <1>3 DEF FeederRuns
  <2>. QED  BY <1>1, <1>3, <2>1 DEF StopFeeder
<1>. QED  BY <1>2, <1>3

LEMMA ReplaceLives ==
    ASSUME IInv, IInv', FeederRuns, NEW file \in BOOLEAN, NEW spawns \in BOOLEAN,
           Replace(file, spawns)
    PROVE  FeederRuns' /\ [Source!Next]_Life
<1>. DEFINE n == made + 1
            o == Started([New EXCEPT !.file = file], spawns)
<1>1. /\ made < MaxFeeders /\ made' = n /\ feeder' = n
      /\ feed' = [StopFeeder EXCEPT ![n] = o]
  BY DEF Replace
<1>2. n \in Feeders /\ made \in Int /\ n = made + 1 /\ \A g \in Feeders : g \in Int
  BY <1>1, ConstantFacts DEF IInv, Typed, Feeders
<1>3. o.running
  <2>1. New \in FeederObject
    BY NewObject
  <2>2. [New EXCEPT !.file = file] \in FeederObject
    BY <2>1 DEF FeederObject
  <2>. DEFINE e == [New EXCEPT !.file = file]
  <2>3. o = Started(e, spawns) /\ e \in FeederObject
    BY <2>2
  <2>. HIDE DEF e, o
  <2>4. Started(e, spawns).running
    BY <2>3 DEF Started, FeederObject
  <2>. QED  BY <2>3, <2>4
<1>. HIDE DEF n, o
<1>4. StagesOfLife /\ StagesOfLife' /\ StopFeeder \in [Feeders -> FeederObject]
  BY LifeStages, LifeStagesNext, StopFeederStops DEF IInv
<1>5. feed'[n] = o /\ \A g \in Feeders \ {n} : feed'[g] = StopFeeder[g]
  BY <1>1, <1>2, <1>4
<1>6. FeederRuns'
  BY <1>1, <1>3, <1>5 DEF FeederRuns
<1>7. Life[n] = "unmade" /\ \A j \in Feeders : j < n => Life[j] # "unmade"
  <2>1. n > made
    BY <1>2
  <2>2. \A j \in Feeders : j < n => j <= made
    BY <1>2
  <2>. QED  BY <1>2, <1>4, <2>1, <2>2 DEF StagesOfLife, Stage
<1>8. Life'[n] = "streaming"
  <2>1. n <= made'
    BY <1>1, <1>2
  <2>. QED  BY <1>2, <1>3, <1>4, <1>5, <2>1 DEF StagesOfLife, Stage
<1>9. ASSUME NEW j \in Feeders \ {n}
      PROVE  IF Life[j] = "streaming" THEN Source!Stopped(j) ELSE Life'[j] = Life[j]
  <2>1. CASE j > made
    <3>1. j > made' /\ Life[j] = "unmade"
      BY <1>1, <1>2, <1>4, <2>1 DEF StagesOfLife
    <3>. QED  BY <1>4, <3>1 DEF StagesOfLife
  <2>2. CASE j <= made
    <3>1. j <= made' /\ Life[j] = Stage(feed[j]) /\ Life'[j] = Stage(StopFeeder[j])
      BY <1>1, <1>2, <1>4, <1>5, <2>2 DEF StagesOfLife
    <3>2. feed[j].running <=> Life[j] = "streaming"
      BY <3>1 DEF Stage
    <3>. QED  BY <3>1, <3>2, StopFeederEnds DEF Source!Stopped
  <2>. QED  BY <1>2, <2>1, <2>2
<1>10. Source!Begin(n)
  BY <1>4, <1>7, <1>8, <1>9 DEF Source!Begin, StagesOfLife
<1>. QED  BY <1>2, <1>6, <1>10 DEF Source!Next

LEMMA GiveUpLives ==
    ASSUME IInv, IInv', FeederRuns, feed' = StopFeeder, feeder' = None, made' = made
    PROVE  FeederRuns' /\ [Source!Next]_Life
<1>1. StagesOfLife /\ StagesOfLife'
  BY LifeStages, LifeStagesNext DEF IInv
<1>2. made \in Int /\ \A f \in Feeders : f \in Int
  BY ConstantFacts DEF IInv, Typed, Feeders
<1>3. FeederRuns'
  BY DEF FeederRuns
<1>4. ASSUME NEW j \in Feeders
      PROVE  IF Life[j] = "streaming" THEN Source!Stopped(j) ELSE Life'[j] = Life[j]
  <2>1. CASE j > made
    BY <1>1, <2>1 DEF StagesOfLife
  <2>2. CASE j <= made
    <3>1. Life[j] = Stage(feed[j]) /\ Life'[j] = Stage(StopFeeder[j])
      BY <1>1, <2>2 DEF StagesOfLife
    <3>2. feed[j].running <=> Life[j] = "streaming"
      BY <3>1 DEF Stage
    <3>. QED  BY <3>1, <3>2, StopFeederEnds DEF Source!Stopped
  <2>. QED  BY <1>2, <2>1, <2>2
<1>5. Source!Stop
  BY <1>1, <1>4 DEF Source!Stop, StagesOfLife
<1>. QED  BY <1>3, <1>5 DEF Source!Next

LEMMA StepLives == IInv /\ FeederRuns /\ [Next]_vars => FeederRuns' /\ [Source!Next]_Life
<1>. SUFFICES ASSUME IInv, FeederRuns, [Next]_vars
              PROVE  FeederRuns' /\ [Source!Next]_Life
  OBVIOUS
<1>1. IInv'
  BY StepKeeps
<1>2. CASE UNCHANGED vars \/ MakesEngine \/ CaptureInit \/ Destroy
  <2>1. UNCHANGED <<feeder, made, feed>>
    BY <1>2 DEF vars, MakesEngine, CaptureInit, Destroy
  <2>. QED  BY <2>1 DEF FeederRuns, Life
<1>3. CASE CaptureStop
  BY <1>1, <1>3, GiveUpLives DEF CaptureStop
<1>4. ASSUME NEW file \in BOOLEAN, NEW spawns \in BOOLEAN,
             CaptureStart(file, spawns) \/ SwitchAudio(file, spawns)
      PROVE  FeederRuns' /\ [Source!Next]_Life
  <2>1. CASE Replace(file, spawns)
    BY <1>1, <2>1, ReplaceLives
  <2>2. CASE feed' = StopFeeder /\ feeder' = None /\ UNCHANGED made
    BY <1>1, <2>2, GiveUpLives
  <2>. QED  BY <1>4, <2>1, <2>2 DEF CaptureStart, SwitchAudio
<1>. QED  BY <1>1, <1>2, <1>3, <1>4, TickLives, ExitsLives, FiresLives, RestartsLives DEF Next

LEMMA InitLives == Init => FeederRuns /\ Source!Init
<1>. SUFFICES ASSUME Init PROVE FeederRuns /\ Source!Init
  OBVIOUS
<1>1. Typed /\ made = 0 /\ feeder = None
  BY InitKeeps DEF IInv, Init
<1>2. StagesOfLife /\ \A f \in Feeders : f > made
  BY <1>1, LifeStages DEF Feeders
<1>3. Life = [k \in Feeders |-> "unmade"]
  BY <1>2 DEF StagesOfLife
<1>. QED  BY <1>1, <1>3 DEF FeederRuns, Source!Init

(* Feeders live as AudioSource promises, whatever starts, switches, exits   *)
(* and restarts come between: one begins at a time, in order, a begin stops *)
(* the one before, and one that was stopped or replaced only drains, and    *)
(* never streams again (stop, lines 787-799, the restart after an exit,     *)
(* lines 738-748, the manager's starts and switches, lines 1035-1082).  That*)
(* it drains in the end is what TLC checks of StreamsAsASource.             *)
THEOREM ImplementsAudioSource == Spec => Source!SafetySpec
<1>. QED  BY InitKeeps, InitLives, StepKeeps, StepLives, PTL DEF Spec, Source!SafetySpec
=============================================================================
