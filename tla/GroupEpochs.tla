---------------------------- MODULE GroupEpochs ----------------------------
(***************************************************************************)
(* What every member of a group call promises about the call's media key.  *)
(* Rosters and keys are numbered by the transactions of the server and may *)
(* be heard in any order.  The key in use is that of the newest            *)
(* transaction which has a key and which the roster has reached: it        *)
(* depends on what was heard and not on the order it was heard in, so two  *)
(* members that heard the same use the same key.                           *)
(***************************************************************************)
EXTENDS Integers

CONSTANTS Transactions,  \* transaction numbers
          Keys,          \* raw keys
          NoKey          \* the absence of one

NoTx == -1

VARIABLES
    roster,   \* the newest roster heard, or NoTx
    offered,  \* per transaction: the first key heard, or NoKey
    inUse     \* the transaction whose key is in use, or NoTx for the call key

vars == <<roster, offered, inUse>>

Eligible == {t \in Transactions : t <= roster /\ offered[t] # NoKey}

Newest ==
    /\ inUse = NoTx \/ inUse \in Eligible
    /\ \A t \in Eligible : t <= inUse

Init ==
    /\ roster = NoTx
    /\ offered = [t \in Transactions |-> NoKey]
    /\ inUse = NoTx

HearRoster(t) ==
    /\ t > roster
    /\ roster' = t
    /\ UNCHANGED offered

HearKey(t, k) ==
    /\ offered[t] = NoKey
    /\ offered' = [offered EXCEPT ![t] = k]
    /\ UNCHANGED roster

Next ==
    /\ \E t \in Transactions : HearRoster(t) \/ \E k \in Keys : HearKey(t, k)
    /\ inUse' \in Transactions \cup {NoTx}
    /\ Newest'

Spec == Init /\ [][Next]_vars
=============================================================================
