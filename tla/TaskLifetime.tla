---------------------------- MODULE TaskLifetime ----------------------------
(***************************************************************************)
(* What a call registry promises about the media tasks it is given: a task *)
(* runs while it is the current task of a registered call, is doomed the   *)
(* moment it stops being that, and a doomed task is eventually cancelled.  *)
(* No task is cancelled before it is doomed, and none runs again.          *)
(***************************************************************************)
CONSTANT Tasks

VARIABLE life

LifeStates == {"fresh", "running", "doomed", "cancelled"}

Init == life = [k \in Tasks |-> "fresh"]

Moves == {<<"fresh", "running">>, <<"fresh", "doomed">>, <<"running", "doomed">>}

\* One registry operation: it adopts or refuses (dooms) at most one fresh
\* task, and may doom any of the tasks that were running.
Operate ==
    /\ life' \in [Tasks -> LifeStates]
    /\ \A k \in Tasks : life'[k] = life[k] \/ <<life[k], life'[k]>> \in Moves
    /\ \A j, k \in Tasks :
          life[j] = "fresh" /\ life'[j] # "fresh" /\ life[k] = "fresh" /\ life'[k] # "fresh"
             => j = k

Cancel(k) ==
    /\ life[k] = "doomed"
    /\ life' = [life EXCEPT ![k] = "cancelled"]

Next == Operate \/ \E k \in Tasks : Cancel(k)

SafetySpec == Init /\ [][Next]_life

Spec == SafetySpec /\ \A k \in Tasks : WF_life(Cancel(k))
=============================================================================
