---------------------------- MODULE CallSession ----------------------------
(***************************************************************************)
(* The validated per-call phase machine of session.go: the seven phases,   *)
(* the phase a session is created in, and the moves TransitionTo allows.   *)
(* The module has no state of its own; CallRegistry and CallLifecycle use  *)
(* its operators.                                                          *)
(***************************************************************************)
EXTENDS Naturals

Directions == {"outgoing", "incoming"}

Phases == {"Idle", "Calling", "Ringing", "Connecting", "Active", "Ended",
           "WaitingRoom"}

\* The numeric value behind each phase (iota order): the engine compares
\* phases with `<`, and WaitingRoom is the largest, after Ended.
PhaseValue == [p \in Phases |->
    CASE p = "Idle"       -> 0
      [] p = "Calling"    -> 1
      [] p = "Ringing"    -> 2
      [] p = "Connecting" -> 3
      [] p = "Active"     -> 4
      [] p = "Ended"      -> 5
      [] p = "WaitingRoom" -> 6]

\* A new outgoing session is Idle, a new incoming one Ringing.
InitialPhase(dir) == IF dir = "outgoing" THEN "Idle" ELSE "Ringing"

\* The moves between two different phases that leave a phase other than
\* Ended for a phase other than Ended.
ForwardMoves ==
    { <<"Calling", "Ringing">>, <<"Ringing", "Connecting">>,
      <<"Calling", "WaitingRoom">>, <<"Connecting", "WaitingRoom">>,
      <<"WaitingRoom", "Connecting">>, <<"Connecting", "Active">> }

\* Whether TransitionTo(next) succeeds for a session of direction dir.
Legal(dir, phase, next) ==
    /\ phase # "Ended"
    /\ \/ next \in {"Ended", phase}
       \/ <<phase, next>> \in ForwardMoves
       \/ phase = "Idle" /\ next = "Calling" /\ dir = "outgoing"
============================================================================
