---------------------------- MODULE SessionSocket ----------------------------
(***************************************************************************)
(* One session of the messaging service (wp_baileys_service.js): the entry *)
(* activeSessions[uid], its socket, its reconnect timer and the credentials *)
(* in its auth directory.  initSessionSocket gives up the thread twice     *)
(* before it has a socket, so several of its calls may be under way, and   *)
(* requests, timers and events of sockets come between.  Handlers and      *)
(* callbacks keep the session object they were created with, also when it  *)
(* is no longer the entry: objects and calls are numbered.                 *)
(*                                                                         *)
(* A slot is a call of initSessionSocket from its first await on, and then *)
(* the socket it made.  Credentials are "fresh" (generated), "named" (a    *)
(* pairing code was asked for) or "linked".  Calls, messages and QR images *)
(* are left out; that a pairing code is recent enough is a choice.         *)
(***************************************************************************)
EXTENDS Integers

CONSTANTS
    MaxSessions,  \* bound: session objects made
    Slots,        \* bound: calls of initSessionSocket and sockets at a time
    MaxAttempts,  \* QR codes before the session expires (30 in the code)
    MaxRequests,  \* bound: requests that start or end something, restarts
    MaxFaults     \* bound: sockets that close and calls that throw

ASSUME SessionAssumption ==
    /\ MaxSessions \in Nat \ {0}
    /\ Slots \subseteq Nat \ {0}
    /\ MaxAttempts \in Nat \ {0}
    /\ MaxRequests \in Nat /\ MaxFaults \in Nat

VARIABLES
    active,    \* activeSessions[uid], or None
    made,      \* session objects made since the service started
    status, sock, timer, attempts, code,   \* of each session object
    failed,    \* history: initSessionSocket threw since it was last open
    slot,      \* calls of initSessionSocket and their sockets
    disk,      \* creds.json, or "none"
    leaving,   \* the requests that wait, of each object: a /disconnect for its
    pairWait,  \* logout, a /pair for a socket,
    pairAsked, \* and a /pair for the code it asked that socket for
    booting,   \* autoResumeAllSessions is still to come
    requests, faults   \* history: how many so far

object == <<status, sock, timer, attempts, code, failed>>
waits == <<leaving, pairWait, pairAsked>>
counts == <<requests, faults>>
vars == <<active, made, object, slot, disk, waits, booting, counts>>

None == 0
Gone == -1    \* the socket of an object that /delete dropped, which it shut
Objects == 1..MaxSessions
Statuses == {"INITIALIZING", "STANDBY", "AWAITING_SCAN", "PAIRING", "ONLINE",
             "RECONNECTING", "QR_EXPIRED", "LOGGED_OUT", "DISCONNECTED"}
Creds == {"fresh", "named", "linked"}
Stages == {"free", "reading", "preparing", "connecting", "open"}
FreeSlot == [at |-> "free", owner |-> None, creds |-> "fresh", pairing |-> FALSE]

Live(k) == slot[k].at \in {"connecting", "open"}
Initing(k) == slot[k].at \in {"reading", "preparing"}
\* hasSavedAuthCreds: the saved credentials are registered, or name a user.
HasSavedAuthCreds == disk \in {"named", "linked"}

Init ==
    /\ active = None /\ made = 0
    /\ status = [s \in Objects |-> "STANDBY"]
    /\ sock = [s \in Objects |-> None]
    /\ timer = [s \in Objects |-> FALSE]
    /\ attempts = [s \in Objects |-> 0]
    /\ code = [s \in Objects |-> FALSE]
    /\ failed = [s \in Objects |-> FALSE]
    /\ slot = [k \in Slots |-> FreeSlot]
    /\ disk \in {"none", "linked"}
    /\ leaving = [s \in Objects |-> 0]
    /\ pairWait = [s \in Objects |-> 0] /\ pairAsked = [s \in Objects |-> 0]
    /\ booting = TRUE
    /\ requests = 0 /\ faults = 0

\* A request that does something.
Requested ==
    /\ requests < MaxRequests
    /\ requests' = requests + 1
    /\ UNCHANGED faults

\* Variant of Shut: the socket goes, the reference to its session stays.
ShutHalf(n) == [k \in Slots |-> IF k = n THEN [slot[k] EXCEPT !.at = "free"] ELSE slot[k]]

\* The slots when the socket n (or None) is shut: its listeners are removed,
\* so that it reports nothing any more.
Shut(n) == [k \in Slots |-> IF k = n THEN FreeSlot ELSE slot[k]]

(* initSessionSocket up to its first await: the entry is made if there is   *)
(* none, the socket it refers to is shut, its timer is cleared.  Nothing    *)
(* looks for another call that is under way.                                *)
StartInit(pairing, timers, saved) ==
    LET s == IF active = None THEN made + 1 ELSE active
        free == {k \in Slots : slot[k].at = "free"}
    IN
    /\ free # {} /\ s \in Objects
    /\ active' = s
    /\ made' = IF active = None THEN s ELSE made
    /\ status' = IF active # None THEN status
                 ELSE [status EXCEPT ![s] = IF saved THEN "INITIALIZING" ELSE "STANDBY"]
    /\ sock' = [sock EXCEPT ![s] = None]
    /\ timer' = [timers EXCEPT ![s] = FALSE]
    /\ slot' = [Shut(sock[s]) EXCEPT
                  ![CHOOSE k \in free : TRUE] =
                     [at |-> "reading", owner |-> s, creds |-> "fresh", pairing |-> pairing]]

\* await useMultiFileAuthState: what is on the disk now, or fresh credentials.
InitReads(k) ==
    /\ slot[k].at = "reading"
    /\ slot' = [slot EXCEPT ![k].at = "preparing",
                            ![k].creds = IF disk = "none" THEN "fresh" ELSE disk]
    /\ UNCHANGED <<active, made, object, disk, waits, booting, counts>>

\* After the second await: makeWASocket, and the session refers to it.
InitMakes(k) ==
    /\ slot[k].at = "preparing"
    /\ slot' = [slot EXCEPT ![k].at = "connecting"]
    /\ sock' = [sock EXCEPT ![slot[k].owner] = k]
    /\ UNCHANGED <<active, made, status, timer, attempts, code, failed, disk,
                   waits, booting, counts>>

\* Either await, or makeWASocket, throws: it is logged and null is returned.
InitFails(k) ==
    /\ Initing(k) /\ faults < MaxFaults
    /\ faults' = faults + 1
    /\ slot' = Shut(k)
    /\ failed' = [failed EXCEPT ![slot[k].owner] = TRUE]
    /\ UNCHANGED <<active, made, status, sock, timer, attempts, code, disk,
                   waits, booting, requests>>

\* creds.update: the socket's credentials are written, whoever removed them.
SavesCreds(k) ==
    /\ Live(k)
    /\ disk' = slot[k].creds
    /\ UNCHANGED <<active, made, object, slot, waits, booting, counts>>

\* connection.update with a QR code, which a socket without a link emits.  A
\* socket made for pairing ignores it; with another one a pairing code counts
\* for ten minutes, and when they are over is anyone's guess here.
Qr(k) ==
    LET s == slot[k].owner IN
    /\ slot[k].at = "connecting" /\ slot[k].creds # "linked"
    /\ ~slot[k].pairing
    /\ status' = [status EXCEPT ![s] = "AWAITING_SCAN"]
    /\ attempts' = [attempts EXCEPT ![s] = IF @ < MaxAttempts THEN @ + 1 ELSE @]
    /\ UNCHANGED <<active, made, sock, timer, code, failed, slot, disk, waits, booting, counts>>

\* The user scans the code or enters it on the phone: the socket's credentials
\* are linked and saved; the server then asks for a restart (Close).
Scanned(k) ==
    /\ slot[k].at = "connecting" /\ slot[k].creds # "linked"
    /\ slot' = [slot EXCEPT ![k].creds = "linked"]
    /\ disk' = "linked"
    /\ UNCHANGED <<active, made, object, waits, booting, counts>>

\* connection.update with `open': also clears the timer a closed socket armed.
Open(k) ==
    LET s == slot[k].owner IN
    /\ slot[k].at = "connecting" /\ slot[k].creds = "linked"
    /\ slot' = [slot EXCEPT ![k].at = "open"]
    /\ status' = [status EXCEPT ![s] = "ONLINE"]
    /\ timer' = [timer EXCEPT ![s] = FALSE]
    /\ attempts' = [attempts EXCEPT ![s] = 0]
    /\ code' = [code EXCEPT ![s] = FALSE]
    /\ failed' = [failed EXCEPT ![s] = FALSE]
    /\ UNCHANGED <<active, made, sock, disk, waits, booting, counts>>

(* connection.update with `close'.  `why' is what the handler tells apart:  *)
(* a logout in so many words, a code of its list of restarts (515, 408,     *)
(* 428, 401, 403), any other; `calls' is hasActiveCalls, `pairing' is       *)
(* isPairingActive.                                                         *)
SeemsLinked(s) == HasSavedAuthCreds \/ status[s] = "ONLINE"
CloseLoggedOut(s) ==
    /\ status' = [status EXCEPT ![s] = "LOGGED_OUT"]
    /\ code' = [code EXCEPT ![s] = FALSE]
    /\ disk' = "none"
    /\ UNCHANGED timer
CloseRestarts(s, calls, pairing) ==
    /\ status' = [status EXCEPT ![s] = IF pairing /\ ~calls THEN "PAIRING" ELSE "ONLINE"]
    /\ timer' = [timer EXCEPT ![s] = TRUE]
    /\ UNCHANGED <<code, disk>>
CloseUnlinked(s) ==
    /\ IF attempts[s] >= MaxAttempts
       THEN status' = [status EXCEPT ![s] = "QR_EXPIRED"] /\ UNCHANGED timer
       ELSE status' = [status EXCEPT ![s] = "RECONNECTING"]
            /\ timer' = [timer EXCEPT ![s] = TRUE]
    /\ UNCHANGED <<code, disk>>
\* Variant of CloseBacksOff: no reconnect while calls are active.
CloseBacksOffIdle(s, calls) ==
    /\ status' = IF calls THEN status ELSE [status EXCEPT ![s] = "ONLINE"]
    /\ timer' = [timer EXCEPT ![s] = ~calls]
    /\ UNCHANGED <<code, disk>>
CloseBacksOff(s, calls) ==
    /\ status' = IF calls THEN status ELSE [status EXCEPT ![s] = "ONLINE"]
    /\ timer' = [timer EXCEPT ![s] = TRUE]
    /\ UNCHANGED <<code, disk>>
\* Variant of Close: the session keeps its reference to the closed socket.
CloseKeepsSock(k, why, calls, pairing) ==
    LET s == slot[k].owner IN
    /\ Live(k) /\ faults < MaxFaults
    /\ pairing => code[s]
    /\ faults' = faults + 1
    /\ slot' = Shut(k)
    /\ \/ why = "logout" /\ ~pairing /\ CloseLoggedOut(s)
       \/ (why = "restart" \/ pairing) /\ CloseRestarts(s, calls, pairing)
       \/ why = "other" /\ ~pairing /\ SeemsLinked(s) /\ CloseBacksOff(s, calls)
       \/ why = "other" /\ ~pairing /\ ~SeemsLinked(s) /\ CloseUnlinked(s)
    /\ UNCHANGED <<active, made, sock, attempts, failed, waits, booting,
                   requests>>
Close(k, why, calls, pairing) ==
    LET s == slot[k].owner IN
    /\ Live(k) /\ faults < MaxFaults
    /\ pairing => code[s]
    /\ faults' = faults + 1
    /\ slot' = Shut(k)
    /\ sock' = [sock EXCEPT ![s] = None]
    /\ \/ why = "logout" /\ ~pairing /\ CloseLoggedOut(s)
       \/ (why = "restart" \/ pairing) /\ CloseRestarts(s, calls, pairing)
       \/ why = "other" /\ ~pairing /\ SeemsLinked(s) /\ CloseBacksOff(s, calls)
       \/ why = "other" /\ ~pairing /\ ~SeemsLinked(s) /\ CloseUnlinked(s)
    /\ UNCHANGED <<active, made, attempts, failed, waits, booting,
                   requests>>

\* Variant of TimerFires: a session that shows ONLINE needs no socket.
TimerFiresUnlessOnline(s) ==
    LET off == [timer EXCEPT ![s] = FALSE] IN
    /\ timer[s]
    /\ IF active # None /\ status[active] \notin {"LOGGED_OUT", "ONLINE"}
       THEN StartInit(FALSE, off, HasSavedAuthCreds)
       ELSE timer' = off /\ UNCHANGED <<active, made, status, sock, slot>>
    /\ UNCHANGED <<attempts, code, failed, disk, waits, booting, counts>>

\* The callback of the reconnect timer: it looks at the entry there is now.
TimerFires(s) ==
    LET off == [timer EXCEPT ![s] = FALSE] IN
    /\ timer[s]
    /\ IF active # None /\ status[active] # "LOGGED_OUT"
       THEN StartInit(FALSE, off, HasSavedAuthCreds)
       ELSE timer' = off /\ UNCHANGED <<active, made, status, sock, slot>>
    /\ UNCHANGED <<attempts, code, failed, disk, waits, booting, counts>>

\* /session/init, and the chat commands that allocate a node.
InitRequest ==
    /\ Requested
    /\ StartInit(FALSE, timer, HasSavedAuthCreds)
    /\ UNCHANGED <<attempts, code, failed, disk, waits, booting>>

\* /session/:uid/status and /qr: a session without a socket is started.
StatusRequest ==
    /\ active # None => ~(sock[active] # None /\ status[active] # "STANDBY")
    /\ Requested
    /\ StartInit(FALSE, timer, HasSavedAuthCreds)
    /\ UNCHANGED <<attempts, code, failed, disk, waits, booting>>

\* ... and, when there is one, a pairing code of more than ten minutes dropped.
CodeExpires ==
    /\ active # None /\ code[active] /\ sock[active] # None
    /\ code' = [code EXCEPT ![active] = FALSE]
    /\ status' = [status EXCEPT ![active] = "AWAITING_SCAN"]
    /\ UNCHANGED <<active, made, sock, timer, attempts, failed, slot, disk,
                   waits, booting, counts>>

\* The reset of /refresh_qr and /pair.
ForgetAttempts ==
    IF active = None THEN UNCHANGED <<attempts, code>>
    ELSE /\ attempts' = [attempts EXCEPT ![active] = 0]
         /\ code' = [code EXCEPT ![active] = FALSE]

\* /session/:uid/refresh_qr, unless the session is ONLINE.
RefreshQr ==
    /\ active # None => status[active] # "ONLINE"
    /\ Requested
    /\ disk' = "none"
    /\ ForgetAttempts
    /\ StartInit(FALSE, timer, FALSE)
    /\ UNCHANGED <<failed, waits, booting>>

\* /session/:uid/pair up to its wait for the socket, unless the session is
\* connected or has a code that can be used again.
Pair ==
    LET purges == ~HasSavedAuthCreds \/ (active # None /\ status[active] # "ONLINE") IN
    /\ active # None => ~(status[active] = "ONLINE" /\ sock[active] # None)
    /\ Requested
    /\ disk' = IF purges THEN "none" ELSE disk
    /\ ForgetAttempts
    /\ StartInit(TRUE, timer, HasSavedAuthCreds /\ ~purges)
    /\ pairWait' = [pairWait EXCEPT ![active'] = @ + 1]
    /\ UNCHANGED <<failed, leaving, pairAsked, booting>>

(* ... and after it.  Without a socket, or with one that is linked or was    *)
(* shut, that is all; another one gets the name that a code is asked for.   *)
PairAsks(s) ==
    /\ pairWait[s] > 0
    /\ pairWait' = [pairWait EXCEPT ![s] = @ - 1]
    /\ IF sock[s] \notin Slots \/ slot[sock[s]].creds = "linked"
       THEN UNCHANGED <<slot, disk, pairAsked>>
       ELSE /\ slot' = [slot EXCEPT ![sock[s]].creds = "named"]
            /\ disk' = "named"
            /\ pairAsked' = [pairAsked EXCEPT ![s] = @ + 1]
    /\ UNCHANGED <<active, made, object, leaving, booting, counts>>

\* `await sess.sock.requestPairingCode' returns a code, or throws.
PairCode(s, answered) ==
    /\ pairAsked[s] > 0
    /\ pairAsked' = [pairAsked EXCEPT ![s] = @ - 1]
    /\ IF answered
       THEN /\ code' = [code EXCEPT ![s] = TRUE]
            /\ status' = [status EXCEPT ![s] = "PAIRING"]
       ELSE UNCHANGED <<code, status>>
    /\ UNCHANGED <<active, made, sock, timer, attempts, failed, slot, disk, leaving,
                   pairWait, booting, counts>>

(* /session/:uid/disconnect.  Its last part runs at once if the session has  *)
(* no socket, and after `await sess.sock.logout()' otherwise: by then the   *)
(* logout has closed the socket (Close), or failed.                         *)
LogsOff(s) ==
    /\ slot' = Shut(sock[s])
    /\ sock' = [sock EXCEPT ![s] = None]
    /\ status' = [status EXCEPT ![s] = "DISCONNECTED"]
    /\ code' = [code EXCEPT ![s] = FALSE]
    /\ disk' = "none"
    /\ UNCHANGED <<active, made, attempts, failed, pairWait, pairAsked, booting>>
Disconnect ==
    /\ active # None
    /\ sock[active] # None
    /\ Requested
    /\ timer' = [timer EXCEPT ![active] = FALSE]
    /\ leaving' = [leaving EXCEPT ![active] = @ + 1]
    /\ UNCHANGED <<active, made, status, sock, attempts, code, failed, slot, disk,
                   pairWait, pairAsked, booting>>
DisconnectAtOnce ==
    /\ active # None
    /\ sock[active] = None
    /\ requests < MaxRequests
    /\ requests' = requests + 1
    /\ timer' = [timer EXCEPT ![active] = FALSE]
    /\ LogsOff(active)
    /\ UNCHANGED <<leaving, faults>>
DisconnectEnds(s) ==
    /\ leaving[s] > 0
    /\ leaving' = [leaving EXCEPT ![s] = @ - 1]
    /\ LogsOff(s)
    /\ UNCHANGED <<timer, counts>>

\* /session/:uid/delete.  The object that is the entry no longer keeps its
\* reference to the socket that was shut, and its status: a worker loop that was
\* started with it goes on sending into that socket.
Delete ==
    /\ active # None \/ disk # "none"
    /\ Requested
    /\ disk' = "none"
    /\ IF active = None THEN UNCHANGED <<active, slot, sock, timer>>
       ELSE /\ active' = None
            /\ slot' = Shut(sock[active])
            /\ sock' = [sock EXCEPT ![active] = IF @ = None THEN None ELSE Gone]
            /\ timer' = [timer EXCEPT ![active] = FALSE]
    /\ UNCHANGED <<made, status, attempts, code, failed, waits, booting>>

\* The chat command that removes a node: neither socket nor timer.
RemoveUserbot ==
    /\ active # None
    /\ Requested
    /\ disk' = "none"
    /\ active' = None
    /\ UNCHANGED <<made, object, slot, waits, booting>>

\* The service restarts: all but the disk is gone.
Restart ==
    /\ requests < MaxRequests
    /\ requests' = requests + 1
    /\ active' = None /\ made' = 0
    /\ status' = [s \in Objects |-> "STANDBY"]
    /\ sock' = [s \in Objects |-> None]
    /\ timer' = [s \in Objects |-> FALSE]
    /\ attempts' = [s \in Objects |-> 0]
    /\ code' = [s \in Objects |-> FALSE]
    /\ failed' = [s \in Objects |-> FALSE]
    /\ slot' = [k \in Slots |-> FreeSlot]
    /\ leaving' = [s \in Objects |-> 0]
    /\ pairWait' = [s \in Objects |-> 0] /\ pairAsked' = [s \in Objects |-> 0]
    /\ booting' = TRUE
    /\ UNCHANGED <<disk, faults>>

\* autoResumeAllSessions, for this session's directory.
AutoResume ==
    /\ booting
    /\ booting' = FALSE
    /\ IF disk # "none"
       THEN StartInit(FALSE, timer, HasSavedAuthCreds)
       ELSE UNCHANGED <<active, made, status, sock, timer, slot>>
    /\ UNCHANGED <<attempts, code, failed, disk, waits, counts>>

SocketSteps(k) ==
    \/ InitReads(k) \/ InitMakes(k) \/ InitFails(k)
    \/ SavesCreds(k) \/ Qr(k) \/ Scanned(k) \/ Open(k)
    \/ \E why \in {"logout", "restart", "other"}, calls, pairing \in BOOLEAN :
          Close(k, why, calls, pairing)

Next ==
    \/ \E k \in Slots : SocketSteps(k)
    \/ \E s \in Objects :
          \/ TimerFires(s) \/ PairAsks(s) \/ DisconnectEnds(s)
          \/ \E answered \in BOOLEAN : PairCode(s, answered)
    \/ InitRequest \/ StatusRequest \/ CodeExpires \/ RefreshQr \/ Pair
    \/ Disconnect \/ DisconnectAtOnce
    \/ Delete \/ RemoveUserbot
    \/ Restart \/ AutoResume

\* What runs by itself: timers fire, the awaits that Reconnects depends on return,
\* a socket with linked credentials connects or is told that it cannot, and one
\* without them gets a code to show.  As long as some of it is due, some is done.
Due ==
    \/ \E s \in Objects : TimerFires(s) \/ DisconnectEnds(s)
    \/ \E k \in Slots : InitReads(k) \/ InitMakes(k) \/ Open(k) \/ Qr(k)
Fairness == WF_vars(Due)

Spec == Init /\ [][Next]_vars /\ Fairness
-----------------------------------------------------------------------------
\* Types; a free slot keeps nothing of the socket it was.
TypeOK ==
    /\ active \in 0..made /\ made \in 0..MaxSessions
    /\ status \in [Objects -> Statuses]
    /\ sock \in [Objects -> Slots \cup {None, Gone}]
    /\ timer \in [Objects -> BOOLEAN]
    /\ attempts \in [Objects -> 0..MaxAttempts]
    /\ code \in [Objects -> BOOLEAN]
    /\ failed \in [Objects -> BOOLEAN]
    /\ slot \in [Slots -> [at : Stages, owner : 0..made, creds : Creds, pairing : BOOLEAN]]
    /\ \A k \in Slots : slot[k].at = "free" <=> slot[k].owner = None
    /\ disk \in Creds \cup {"none"}
    /\ leaving \in [Objects -> Nat]
    /\ pairWait \in [Objects -> Nat] /\ pairAsked \in [Objects -> Nat]
    /\ booting \in BOOLEAN
    /\ requests \in 0..MaxRequests /\ faults \in 0..MaxFaults

(* What the commands send through: the socket that the entry refers to has  *)
(* neither been shut nor closed, and was made for it, whichever calls of    *)
(* initSessionSocket, close handlers and deletions overlap.  The same holds *)
(* of the objects that are no longer the entry but for those that were      *)
(* deleted with a socket, which keep it shut (Delete).                      *)
SockIsLive ==
    \A s \in Objects :
        /\ sock[s] = Gone => s # active
        /\ sock[s] \in Slots => Live(sock[s]) /\ slot[sock[s]].owner = s

(* A session that shows ONLINE, RECONNECTING or a QR code is not abandoned: *)
(* it has a socket or is getting one, its timer runs, a /disconnect is      *)
(* about to finish it, or initSessionSocket threw since it was last open.   *)
OnlineIsBacked ==
    active # None /\ status[active] \in {"INITIALIZING", "AWAITING_SCAN", "ONLINE", "RECONNECTING"} =>
        \/ \E k \in Slots : slot[k].owner = active
        \/ timer[active] \/ leaving[active] > 0 \/ failed[active]

(* A linked session that shows ONLINE and has no open socket comes back, or *)
(* is no longer linked or shown ONLINE, unless initSessionSocket throws.    *)
Down ==
    /\ active # None /\ status[active] = "ONLINE" /\ disk = "linked"
    /\ \A k \in Slots : ~(slot[k].owner = active /\ slot[k].at = "open")
Reconnects == Down ~> (~Down \/ failed[active])

(* Where the answer of /disconnect (wp_baileys_service.js:6711, "Session    *)
(* unlinked and auth directory purged.") can be relied on: when no other    *)
(* socket or initialisation of the session and no timer was left at that    *)
(* moment, then neither leftovers of requests nor timers nor the resumption *)
(* at boot bring the session back, until another request does.              *)
Alone(s) ==
    /\ \A k \in Slots : slot[k].at # "free" => k = sock[s]
    /\ \A t \in Objects \ {s} : ~timer[t]
Unlinked ==
    /\ disk = "none"
    /\ \A k \in Slots : slot[k].at = "free"
    /\ \A s \in Objects : ~timer[s]
DisconnectAloneIsFinal ==
    [][/\ DisconnectAtOnce /\ Alone(active) => Unlinked'
       /\ \A s \in Objects : DisconnectEnds(s) /\ Alone(s) /\ ~timer[s] => Unlinked'
       /\ Unlinked => Unlinked' \/ requests' # requests]_vars
=============================================================================
