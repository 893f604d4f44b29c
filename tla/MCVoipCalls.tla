----------------------------- MODULE MCVoipCalls -----------------------------
(* Instances of VoipCalls for TLC: the sets and bounds are in the cfgs. *)
EXTENDS VoipCalls
=============================================================================
