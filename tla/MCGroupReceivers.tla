-------------------------- MODULE MCGroupReceivers --------------------------
(* GroupReceivers with three transactions, two devices, senders and keys. *)
EXTENDS GroupReceivers
=============================================================================
