------------------------- MODULE MCSessionDisconnect -------------------------
(***************************************************************************)
(* SessionSocket with a history variable: the last request was a           *)
(* /disconnect, and it has answered.                                       *)
(***************************************************************************)
EXTENDS SessionSocket

VARIABLE gone

HistoryInit == Init /\ gone = FALSE
HistoryNext ==
    /\ Next
    /\ gone' = \/ DisconnectAtOnce \/ \E s \in Objects : DisconnectEnds(s)
               \/ gone /\ requests' = requests
HistorySpec == HistoryInit /\ [][HistoryNext]_<<vars, gone>>

(* "Session unlinked and auth directory purged." (wp_baileys_service.js:    *)
(* 6711): once /disconnect has answered, and until another request, the     *)
(* session is not linked on the disk and no socket of it is open.           *)
DisconnectIsFinal ==
    gone => disk # "linked" /\ \A k \in Slots : slot[k].at # "open"
=============================================================================
