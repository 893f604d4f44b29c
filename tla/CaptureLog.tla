----------------------------- MODULE CaptureLog -----------------------------
(***************************************************************************)
(* What the headless sender promises whoever reads the collector's file:   *)
(* a log that is delivered at least once and in order, with holes.  Events *)
(* are numbered as they are captured.  The oldest that wait are sent, one  *)
(* lot at a time; a lot that was refused may be in the file in part, and   *)
(* waits again with the others.  Only the oldest of those that wait are    *)
(* ever given up.  Sizes, limits, timers and retries are not its concern.  *)
(***************************************************************************)
EXTENDS Integers

VARIABLES
    captured,  \* number of events captured
    waiting,   \* events that wait to be sent
    sending,   \* the lot that is on its way
    written,   \* events in the file
    acked,     \* events of the lots that were accepted
    shed       \* events given up

vars == <<captured, waiting, sending, written, acked, shed>>

\* Of the events in S, those in D are the oldest.
Oldest(D, S) == D \subseteq S /\ \A d \in D, e \in S \ D : d < e

Init ==
    /\ captured = 0
    /\ waiting = {} /\ sending = {}
    /\ written = {} /\ acked = {} /\ shed = {}

\* S waits, except for the oldest of it, which are given up.
Keep(S) == \E D \in SUBSET S :
    /\ Oldest(D, S)
    /\ waiting' = S \ D
    /\ shed' = shed \cup D

\* The oldest of the lot enter the file.
WriteSome == \E W \in SUBSET sending :
    /\ Oldest(W, sending)
    /\ written' = written \cup W

Capture ==
    /\ captured' = captured + 1
    /\ Keep(waiting \cup {captured + 1})
    /\ UNCHANGED <<sending, written, acked>>

Send ==
    /\ sending = {} /\ sending' # {}
    /\ Oldest(sending', waiting)
    /\ waiting' = waiting \ sending'
    /\ UNCHANGED <<captured, written, acked, shed>>

Accept ==
    /\ written' = written \cup sending
    /\ acked' = acked \cup sending
    /\ sending' = {}
    /\ UNCHANGED <<captured, waiting, shed>>

Refuse ==
    /\ WriteSome
    /\ Keep(sending \cup waiting)
    /\ sending' = {}
    /\ UNCHANGED <<captured, acked>>

\* The sender stops and forgets what it holds.
Stop ==
    /\ WriteSome
    /\ shed' = shed \cup sending \cup waiting
    /\ waiting' = {} /\ sending' = {}
    /\ UNCHANGED <<captured, acked>>

Next == Capture \/ Send \/ Accept \/ Refuse \/ Stop

Spec == Init /\ [][Next]_vars
=============================================================================
