--------------------------- MODULE MCCallRegistry ---------------------------
(* CallRegistry on two call-ids, three media tasks and two goroutines. *)
EXTENDS CallRegistry
=============================================================================
