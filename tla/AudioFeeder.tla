----------------------------- MODULE AudioFeeder -----------------------------
(***************************************************************************)
(* RobustAudioFeeder and its use by SessionVoipManager                     *)
(* (wp_baileys_service.js): an ffmpeg process decodes a source into chunks, *)
(* a chain of timers hands one chunk per interval to the engine, and a     *)
(* process that exits is started again after a pause, with a timer chain   *)
(* of its own: the chain there was goes on.                                *)
(*                                                                         *)
(* Times are relative to the present and counted in ticks; a timer that is *)
(* due fires whenever the event loop gets to it.  The chunks themselves,   *)
(* and that ffmpeg is paused while 2048 of them wait, are left out: when   *)
(* there is none, a chunk of silence is sent.                              *)
(***************************************************************************)
EXTENDS Integers, FiniteSets

CONSTANTS
    MaxFeeders,   \* bound: RobustAudioFeeder objects made
    MaxRestarts,  \* bound: ffmpeg processes of a feeder that exit by themselves
    Interval,     \* chunkIntervalMs, in ticks
    MaxLag,       \* how late the schedule may be before it is moved (100 ms)
    Pause         \* until ffmpeg is started again (250 ms)

ASSUME FeederAssumption ==
    /\ MaxFeeders \in Nat \ {0} /\ MaxRestarts \in Nat
    /\ Interval \in Nat \ {0} /\ MaxLag \in Nat /\ Pause \in Nat

VARIABLES
    engine,   \* the manager has an engine
    buffer,   \* capturePtr is not 0
    feeder,   \* this.feeder of the manager, or None
    made,     \* RobustAudioFeeder objects made
    feed      \* the objects

vars == <<engine, buffer, feeder, made, feed>>

None == 0
Off == -1                       \* a timer that is not set
Feeders == 1..MaxFeeders
Chains == 1..(MaxRestarts + 1)
Behind == -(MaxLag + Interval + 1)  \* later than this makes no difference
Greater(a, b) == IF a > b THEN a ELSE b

\* running, a source other than silence, the time each chain's timer is due in,
\* the chain this.timer was set by, nextEmitAtMs, the restart timer, ffmpeg
\* (alive, told to stop, none), and how often it exited.
New == [running |-> FALSE, file |-> FALSE, due |-> [i \in Chains |-> Off], timer |-> None,
        ahead |-> 0, again |-> Off, proc |-> "none", exits |-> 0]

Init ==
    /\ engine = FALSE /\ buffer = FALSE /\ feeder = None /\ made = 0
    /\ feed = [f \in Feeders |-> New]

\* start(): ffmpeg, nextEmitAtMs and a new chain, numbered by the processes
\* before it.  spawn may throw, and then the feeder counts as running without.
Started(o, spawns) ==
    LET i == o.exits + 1 IN
    IF ~spawns THEN [o EXCEPT !.running = TRUE]
    ELSE [o EXCEPT !.running = TRUE, !.proc = "alive",
                   !.ahead = 0, !.due[i] = 0, !.timer = i]

\* stop(): only the timer that was set last is cleared.
Stopped(o) ==
    [o EXCEPT !.running = FALSE, !.timer = None,
              !.due = IF o.timer = None THEN @ ELSE [@ EXCEPT ![o.timer] = Off],
              !.proc = IF @ = "alive" THEN "told" ELSE @]

StopFeeder == IF feeder = None THEN feed ELSE [feed EXCEPT ![feeder] = Stopped(@)]

\* A new feeder takes the place of the one there was, which is stopped.
Replace(file, spawns) ==
    /\ made < MaxFeeders
    /\ made' = made + 1 /\ feeder' = made'
    /\ feed' = [StopFeeder EXCEPT ![made'] = Started([New EXCEPT !.file = file], spawns)]

\* init() makes an engine, also after destroy(); a buffer of one before is kept.
MakesEngine ==
    /\ ~engine /\ engine' = TRUE
    /\ UNCHANGED <<buffer, feeder, made, feed>>

\* handleAudioCaptureInit, Start and Stop: callbacks of the engine.
CaptureInit ==
    /\ engine
    /\ buffer' = TRUE
    /\ UNCHANGED <<engine, feeder, made, feed>>
CaptureStart(file, spawns) ==
    /\ engine /\ buffer
    /\ Replace(file, spawns)
    /\ UNCHANGED <<engine, buffer>>
CaptureStop ==
    /\ feed' = StopFeeder
    /\ feeder' = None
    /\ buffer' = (buffer /\ ~engine)
    /\ UNCHANGED <<engine, made>>

\* Variant of SwitchAudio: the new source starts beside the old one.
SwitchAudioBeside(file, spawns) ==
    /\ made < MaxFeeders /\ engine /\ buffer
    /\ made' = made + 1 /\ feeder' = made'
    /\ feed' = [feed EXCEPT ![made'] = Started([New EXCEPT !.file = file], spawns)]
    /\ UNCHANGED <<engine, buffer>>

\* switchAudio: without a buffer the feeder is only stopped.
SwitchAudio(file, spawns) ==
    /\ IF engine /\ buffer THEN Replace(file, spawns)
       ELSE feed' = StopFeeder /\ feeder' = None /\ UNCHANGED made
    /\ UNCHANGED <<engine, buffer>>

\* destroy(): neither the feeder nor the buffer is looked at.
Destroy ==
    /\ engine /\ engine' = FALSE
    /\ UNCHANGED <<buffer, feeder, made, feed>>

\* Variant of Advance: one chunk after the other without a look at the clock.
AdvanceUnclocked(o, i) == [o EXCEPT !.ahead = @ + Interval, !.due[i] = Interval, !.timer = i]

\* The schedule after a chunk: moved to the present when it is too late.
Advance(o, i) ==
    LET next == IF o.ahead + Interval < -MaxLag THEN 0 ELSE o.ahead + Interval IN
    [o EXCEPT !.ahead = next, !.due[i] = Greater(0, next), !.timer = i]

\* The callback of scheduleNext: flushOne, and the next timer of the chain.
Fires(f, i) ==
    /\ feed[f].due[i] = 0
    /\ feed' = [feed EXCEPT ![f] = IF @.running THEN Advance(@, i)
                                   ELSE [@ EXCEPT !.due[i] = Off]]
    /\ UNCHANGED <<engine, buffer, feeder, made>>

\* Variant of Exits: the source is not looked at.
ExitsOfSilence(f) ==
    LET o == feed[f] IN
    /\ o.proc # "none"
    /\ o.proc = "alive" => o.exits < MaxRestarts
    /\ feed' = [feed EXCEPT ![f] =
                  [o EXCEPT !.proc = "none",
                            !.exits = IF o.proc = "alive" THEN @ + 1 ELSE @,
                            !.again = IF o.running THEN Pause ELSE @]]
    /\ UNCHANGED <<engine, buffer, feeder, made>>

\* ffmpeg's exit: by itself, or because it was told to.
Exits(f) ==
    LET o == feed[f] IN
    /\ o.proc # "none"
    /\ o.proc = "alive" => o.exits < MaxRestarts
    /\ feed' = [feed EXCEPT ![f] =
                  [o EXCEPT !.proc = "none",
                            !.exits = IF o.proc = "alive" THEN @ + 1 ELSE @,
                            !.again = IF o.running /\ o.file THEN Pause ELSE @]]
    /\ UNCHANGED <<engine, buffer, feeder, made>>

\* Variant of Restarts: a feeder that was stopped meanwhile starts again.
RestartsAnyway(f, spawns) ==
    /\ feed[f].again = 0
    /\ feed' = [feed EXCEPT ![f] = Started([@ EXCEPT !.again = Off], spawns)]
    /\ UNCHANGED <<engine, buffer, feeder, made>>

\* The callback of the restart timer.
Restarts(f, spawns) ==
    LET o == [feed[f] EXCEPT !.again = Off] IN
    /\ feed[f].again = 0
    /\ feed' = [feed EXCEPT ![f] = IF o.running THEN Started(o, spawns) ELSE o]
    /\ UNCHANGED <<engine, buffer, feeder, made>>

\* A tick passes.
Sooner(t) == IF t = Off THEN Off ELSE Greater(0, t - 1)
Tick ==
    /\ feed' = [f \in Feeders |->
                  [feed[f] EXCEPT !.due = [i \in Chains |-> Sooner(@[i])],
                                  !.again = Sooner(@),
                                  !.ahead = Greater(Behind, @ - 1)]]
    /\ UNCHANGED <<engine, buffer, feeder, made>>

Next ==
    \/ MakesEngine \/ CaptureInit \/ CaptureStop \/ Destroy \/ Tick
    \/ \E file, spawns \in BOOLEAN : CaptureStart(file, spawns) \/ SwitchAudio(file, spawns)
    \/ \E f \in Feeders :
          \/ Exits(f)
          \/ \E i \in Chains : Fires(f, i)
          \/ \E spawns \in BOOLEAN : Restarts(f, spawns)

\* Time passes, timers that are due fire and a process that was told to stop
\* does, in the end.
Fairness ==
    /\ WF_vars(Tick)
    /\ \A f \in Feeders :
          /\ \A i \in Chains : WF_vars(Fires(f, i))
          /\ \A spawns \in BOOLEAN : WF_vars(Restarts(f, spawns))
          /\ WF_vars(Exits(f) /\ feed[f].proc = "told")

Spec == Init /\ [][Next]_vars /\ Fairness
-----------------------------------------------------------------------------
\* Types; the feeder the manager refers to was made, and those not made are idle.
\* this.timer is a timer that is set, of a feeder that runs; only what streams a
\* file is started again, and a process told to stop is of a feeder that is not.
Times == Nat \cup {Off}
FeederObject ==
    [running : BOOLEAN, file : BOOLEAN, due : [Chains -> Times], timer : Chains \cup {None},
     ahead : Int, again : Times, proc : {"none", "alive", "told"}, exits : 0..MaxRestarts]
Typed ==
    /\ engine \in BOOLEAN /\ buffer \in BOOLEAN
    /\ made \in 0..MaxFeeders /\ feeder \in 0..made
    /\ feed \in [Feeders -> FeederObject]
    /\ \A f \in Feeders : f > made => ~feed[f].running
TimersOK(o) ==
    /\ o.timer # None => o.running /\ o.due[o.timer] # Off
    /\ o.again # Off => o.file
    /\ o.proc = "told" => ~o.running
TypeOK == Typed /\ \A f \in Feeders : TimersOK(feed[f])

(* Two sources are never streamed into a call at once: only the feeder the  *)
(* manager refers to runs, whatever starts, switches and exits come between.*)
OneFeeder == \A f \in Feeders : feed[f].running => f = feeder

(* However many timer chains the restarts of ffmpeg have left, the feeder   *)
(* is at most a chunk per chain ahead of the clock: the chains share one    *)
(* schedule and do not each keep one of their own.                          *)
SetChains(o) == {i \in Chains : o.due[i] # Off}
Paced ==
    \A f \in Feeders : feed[f].running =>
        feed[f].ahead <= Interval * Cardinality(SetChains(feed[f]))

(* How far each feeder is in its life, for the abstract specification: a    *)
(* stopped one is silent once its timer chains, the restart of its process  *)
(* and the process are over.                                                *)
Quiet(o) == SetChains(o) = {} /\ o.again = Off /\ o.proc = "none"
Life == [f \in Feeders |->
    CASE f > made                        -> "unmade"
      [] f <= made /\ feed[f].running    -> "streaming"
      [] f <= made /\ ~feed[f].running   -> IF Quiet(feed[f]) THEN "silent" ELSE "draining"]

Source == INSTANCE AudioSource WITH Sources <- Feeders, life <- Life

(* Feeders live as AudioSource promises: in particular one that was stopped *)
(* or replaced never streams again, although timers of its own and the exit *)
(* of its process are still to come, and comes to an end (stop, lines       *)
(* 787-799, against the restart after an exit, lines 738-748).              *)
StreamsAsASource == Source!Spec
=============================================================================
