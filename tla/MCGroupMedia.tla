---------------------------- MODULE MCGroupMedia ----------------------------
(* GroupMedia with one device and one key per transaction. *)
EXTENDS GroupMedia, TLC
=============================================================================
