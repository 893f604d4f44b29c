----------------------------- MODULE AudioSource -----------------------------
(***************************************************************************)
(* What is promised about the audio sources of a call: they begin one      *)
(* after the other, one streams at a time, and a source that was stopped   *)
(* or replaced only drains (its timers and its process come to their end)  *)
(* and never streams again.                                                *)
(***************************************************************************)
EXTENDS Naturals

CONSTANT Sources   \* numbers, in the order in which the sources begin

VARIABLE life

LifeStates == {"unmade", "streaming", "draining", "silent"}

Init == life = [k \in Sources |-> "unmade"]

\* A source that was stopped has something to drain, or nothing.
Stopped(k) == life'[k] \in {"draining", "silent"}

\* The next source takes the place of the one that streamed.
Begin(k) ==
    /\ life[k] = "unmade" /\ \A j \in Sources : j < k => life[j] # "unmade"
    /\ life' \in [Sources -> LifeStates]
    /\ life'[k] = "streaming"
    /\ \A j \in Sources \ {k} :
          IF life[j] = "streaming" THEN Stopped(j) ELSE life'[j] = life[j]

Stop ==
    /\ life' \in [Sources -> LifeStates]
    /\ \A j \in Sources :
          IF life[j] = "streaming" THEN Stopped(j) ELSE life'[j] = life[j]

Drain(k) ==
    /\ life[k] = "draining"
    /\ life' = [life EXCEPT ![k] = "silent"]

Next == Stop \/ \E k \in Sources : Begin(k) \/ Drain(k)

SafetySpec == Init /\ [][Next]_life

Spec == SafetySpec /\ \A k \in Sources : WF_life(Drain(k))
=============================================================================
