--------------------------- MODULE MCSessionSocket ---------------------------
(* SessionSocket with a few requests, closes and a restart. *)
EXTENDS SessionSocket
=============================================================================
