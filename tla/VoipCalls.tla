------------------------------ MODULE VoipCalls ------------------------------
(***************************************************************************)
(* The calls of one session of wp_baileys_service.js: SessionVoipManager    *)
(* (init, call, acceptCall, end, destroy), SafeActiveCall, the map          *)
(* sess.activeCalls, and the commands and socket events that use them.      *)
(*                                                                         *)
(* A session's manager is replaced when its socket opens, when +call        *)
(* retries, and dropped when the socket closes while no call is counted;    *)
(* an init, or a command in the middle of call(), goes on with the manager  *)
(* it has.  A session has one socket at a time here; initialisations that   *)
(* overlap are the matter of SessionSocket.  The WASM engine carries one    *)
(* call at a time, the manager's line; it and WhatsApp are external.        *)
(* Devices, tokens and audio are left out.                                  *)
(***************************************************************************)
EXTENDS Naturals, FiniteSets

CONSTANTS
    Peers,        \* numbers that are called, or call
    Handlers,     \* commands under way at once, each in a listener of its own
    Kinds,        \* the commands in use: call, video, adhoc, accept, auto, end, leave
    MaxSocks,     \* bound: sockets of the session
    MaxManagers,  \* bound: SessionVoipManager objects
    MaxInits,     \* bound: runs of a manager's init
    MaxCalls      \* bound: SafeActiveCall objects

ASSUME VoipAssumption ==
    /\ MaxSocks \in Nat /\ MaxManagers \in Nat /\ MaxInits \in Nat /\ MaxCalls \in Nat
    /\ 0 \notin Peers

VARIABLES
    sock,      \* sess.sock, or None
    socks,     \* sockets made
    up,        \* sess.sock is open
    voip,      \* sess.voipManager, or None
    made,      \* managers made
    mgr,       \* the managers
    closures,  \* runs of init under way
    counted,   \* the peers in sess.activeCalls
    placed,    \* calls made
    call,      \* the calls
    hand       \* the commands under way

vars == <<sock, socks, up, voip, made, mgr, closures, counted, placed, call, hand>>
link == <<sock, socks, up>>

None == 0
Managers == 1..MaxManagers
Calls == 1..MaxCalls

\* this.signaling (by its socket), the run initPromise stands for, the runs
\* there were, activeCall, the call the engine carries, a state 13 it has yet
\* to report for one that was ended, and whether an init threw.
NewManager ==
    [ready |-> FALSE, sig |-> None, engine |-> FALSE, promise |-> None, inits |-> 0,
     cur |-> None, line |-> None, tail |-> FALSE, threw |-> FALSE]
\* Whether the callId is an offer's; _ended, hasConnected, and a listener for
\* 'ended'; how its line came to an end.
NewCall(p, answers) ==
    [peer |-> p, answers |-> answers, state |-> "none", connected |-> FALSE, ended |-> FALSE,
     listened |-> FALSE, how |-> "not"]
Idle == [kind |-> "none", at |-> "idle", mgr |-> None, peer |-> None,
         wait |-> None, call |-> None, retried |-> FALSE]

Init ==
    /\ sock = None /\ socks = 0 /\ up = FALSE
    /\ voip = None /\ made = 0 /\ mgr = [m \in Managers |-> NewManager] /\ closures = {}
    /\ counted = {}
    /\ placed = 0 /\ call = [c \in Calls |-> NewCall(None, FALSE)]
    /\ hand = [h \in Handlers |-> Idle]
-----------------------------------------------------------------------------
\* init(): the run the caller waits for (None: nothing to do).
Inited(m) == mgr[m].ready /\ mgr[m].engine
Starts(m) == ~Inited(m) /\ mgr[m].promise = None
Awaited(m) == IF Inited(m) THEN None
              ELSE IF Starts(m) THEN mgr[m].inits + 1 ELSE mgr[m].promise
CallInit(m) ==
    /\ Starts(m) => mgr[m].inits < MaxInits
    /\ mgr' = IF Starts(m) THEN [mgr EXCEPT ![m].inits = @ + 1, ![m].promise = mgr[m].inits + 1]
              ELSE mgr
    /\ closures' = IF Starts(m)
                   THEN closures \cup {[mgr |-> m, n |-> mgr[m].inits + 1, at |-> "imports"]}
                   ELSE closures

\* A run goes on at another await, or is over.
GoesOn(r, at) == closures' = (closures \ {r}) \cup {[r EXCEPT !.at = at]}
IsOver(r) == closures' = closures \ {r}

InitReads(r) ==
    /\ r.at = "imports"
    /\ IF sock = None THEN IsOver(r) /\ UNCHANGED mgr
       ELSE GoesOn(r, "signaling") /\ mgr' = [mgr EXCEPT ![r.mgr].sig = sock]
    /\ UNCHANGED <<link, voip, made, counted, placed, call, hand>>

\* The engine is made; one there was is forgotten, and its call with it.
InitMakes(r) ==
    /\ r.at = "signaling"
    /\ GoesOn(r, "engine")
    /\ mgr' = [mgr EXCEPT ![r.mgr].engine = TRUE, ![r.mgr].line = None, ![r.mgr].tail = FALSE]
    /\ UNCHANGED <<link, voip, made, counted, placed, call, hand>>

InitStacks(r) ==
    /\ r.at = "engine" /\ mgr[r.mgr].engine
    /\ GoesOn(r, "stack")
    /\ UNCHANGED <<link, voip, made, mgr, counted, placed, call, hand>>

InitEnds(r) ==
    /\ r.at = "stack"
    /\ IsOver(r)
    /\ mgr' = [mgr EXCEPT ![r.mgr].ready = TRUE]
    /\ UNCHANGED <<link, voip, made, counted, placed, call, hand>>

\* Any of its calls throws, initVoipStack on a manager destroyed meanwhile too.
InitThrows(r) ==
    /\ IsOver(r)
    /\ mgr' = [mgr EXCEPT ![r.mgr].ready = FALSE, ![r.mgr].promise = None, ![r.mgr].threw = TRUE]
    /\ UNCHANGED <<link, voip, made, counted, placed, call, hand>>
-----------------------------------------------------------------------------
\* SafeActiveCall.end of activeCall: the engine's line goes, whichever it is.
Hangs(m) == LET c == mgr[m].cur IN c # None /\ ~call[c].ended
Quits(m) == [mgr[m] EXCEPT !.line = IF Hangs(m) THEN None ELSE @,
                           !.tail = @ \/ (Hangs(m) /\ mgr[m].line # None)]
QuitCalls(m, by) ==
    [c \in Calls |->
        [call[c] EXCEPT !.ended = @ \/ (Hangs(m) /\ c = mgr[m].cur),
                        !.how = IF Hangs(m) /\ c = mgr[m].line THEN by ELSE @]]
\* SessionVoipManager.end.
End(by) ==
    IF voip = None THEN UNCHANGED <<mgr, call>>
    ELSE /\ mgr' = [mgr EXCEPT ![voip] = [Quits(voip) EXCEPT !.cur = None]]
         /\ call' = QuitCalls(voip, by)

Connect ==
    /\ sock = None /\ socks < MaxSocks
    /\ socks' = socks + 1 /\ sock' = socks'
    /\ UNCHANGED <<up, voip, made, mgr, closures, counted, placed, call, hand>>

\* initSessionSocket shuts the socket there is, which then reports no close:
\* the manager stays.
Shuts ==
    /\ sock # None /\ sock' = None /\ up' = FALSE
    /\ UNCHANGED <<socks, voip, made, mgr, closures, counted, placed, call, hand>>

\* Variant of Opens: the manager there is is kept.
OpensKeeping ==
    /\ sock # None /\ ~up /\ up' = TRUE
    /\ IF voip # None THEN CallInit(voip) /\ UNCHANGED <<voip, made>>
       ELSE made < MaxManagers /\ made' = made + 1 /\ voip' = made' /\ CallInit(made')
    /\ UNCHANGED <<sock, socks, counted, placed, call, hand>>

\* connection 'open': always a new manager.
Opens ==
    /\ sock # None /\ ~up /\ up' = TRUE
    /\ made < MaxManagers /\ made' = made + 1 /\ voip' = made'
    /\ CallInit(made + 1)
    /\ UNCHANGED <<sock, socks, counted, placed, call, hand>>

\* Variant of Destroyed: the engine is forgotten, and its line left to it.
DestroyedHanging(m) ==
    [mgr[m] EXCEPT !.cur = None, !.engine = FALSE, !.sig = None, !.ready = FALSE, !.promise = None]

\* connection 'close': the manager is destroyed, unless a call is counted.
Destroyed(m) ==
    [mgr[m] EXCEPT !.cur = None, !.line = None, !.tail = FALSE, !.engine = FALSE,
                   !.sig = None, !.ready = FALSE, !.promise = None]
Closes ==
    /\ sock # None /\ sock' = None /\ up' = FALSE
    /\ IF voip # None /\ counted = {}
       THEN /\ mgr' = [mgr EXCEPT ![voip] = Destroyed(voip)]
            /\ call' = [c \in Calls |->
                          [QuitCalls(voip, "cut")[c] EXCEPT
                              !.how = IF c = mgr[voip].line THEN "cut" ELSE @]]
            /\ voip' = None
       ELSE UNCHANGED <<mgr, call, voip>>
    /\ UNCHANGED <<socks, made, closures, counted, placed, hand>>

\* sock.ev 'call': a peer's terminate, timeout or reject.
PeerEvent(p) ==
    /\ up /\ p \in counted
    /\ counted' = counted \ {p}
    /\ End(IF voip # None /\ mgr[voip].line # None /\ call[mgr[voip].line].peer # p
           THEN "cut" ELSE "peer")
    /\ UNCHANGED <<link, voip, made, closures, placed, hand>>

\* stopAllOperations, before a session is logged out.
StopAll ==
    /\ End("user")
    /\ counted' = {}
    /\ UNCHANGED <<link, voip, made, closures, placed, hand>>
-----------------------------------------------------------------------------
\* A command waits for init of manager m at an await of its own.
Awaits(h, m, at, command) ==
    /\ CallInit(m)
    /\ hand' = [hand EXCEPT ![h] = [command EXCEPT !.at = at, !.mgr = m, !.wait = Awaited(m)]]
Settled(h) ==
    hand[h].wait = None \/ ~\E r \in closures : r.mgr = hand[h].mgr /\ r.n = hand[h].wait
Becomes(h, at) == hand' = [hand EXCEPT ![h].at = at]

\* +call, +videocall, +adhoccall, +acceptcall and an offer that is auto-joined.
\* A command comes in while the session is open, and awaits other things first.
\* Without a socket call and acceptCall throw; +acceptcall counts the call all the same.
Command(h, k, p) ==
    LET m == IF voip = None THEN made + 1 ELSE voip
        command == [Idle EXCEPT !.kind = k, !.peer = p] IN
    /\ made > 0 /\ hand[h].at = "idle" /\ k \in Kinds \ {"end", "leave"}
    /\ k = "auto" => up
    /\ m \in Managers /\ voip' = m /\ made' = IF voip = None THEN m ELSE made
    /\ IF k = "call" THEN Awaits(h, m, "first", command) /\ UNCHANGED counted
       ELSE IF sock # None THEN Awaits(h, m, "init", command) /\ UNCHANGED counted
       ELSE /\ UNCHANGED <<mgr, closures, hand>>
            /\ counted' = IF k = "accept" THEN counted \cup {p} ELSE counted
    /\ UNCHANGED <<link, placed, call>>

\* +call goes on with the manager there is by then.
CallsManager(h) ==
    /\ hand[h].at = "first" /\ Settled(h)
    /\ IF voip # None /\ sock # None THEN Awaits(h, voip, "init", hand[h])
       ELSE Becomes(h, "failed") /\ UNCHANGED <<mgr, closures>>
    /\ UNCHANGED <<link, voip, made, counted, placed, call>>

\* call() after init: an earlier call that got somewhere is ended.
Checks(h) ==
    LET m == hand[h].mgr
        busy == mgr[m].cur # None /\ call[mgr[m].cur].state # "none" IN
    /\ hand[h].at \in {"init", "again"} /\ hand[h].kind \notin {"accept", "auto"} /\ Settled(h)
    /\ IF mgr[m].engine /\ mgr[m].sig # None
       THEN /\ Becomes(h, "dial")
            /\ IF busy THEN mgr' = [mgr EXCEPT ![m] = Quits(m)] /\ call' = QuitCalls(m, "user")
               ELSE UNCHANGED <<mgr, call>>
       ELSE /\ Becomes(h, IF hand[h].at = "init" THEN "sleep" ELSE "failed")
            /\ UNCHANGED <<mgr, call>>
    /\ UNCHANGED <<link, voip, made, closures, counted, placed>>
Wakes(h) ==
    /\ hand[h].at = "sleep"
    /\ Awaits(h, hand[h].mgr, "again", hand[h])
    /\ UNCHANGED <<link, voip, made, counted, placed, call>>

\* Looking up the peer throws, without signaling at the latest.
LookupThrows(h) ==
    /\ hand[h].at = "dial"
    /\ Becomes(h, "failed")
    /\ UNCHANGED <<link, voip, made, mgr, closures, counted, placed, call>>

\* activeCall is the new call, then the engine is told; it may throw or be gone.
Places(h, starts) ==
    LET m == hand[h].mgr  c == placed + 1  p == hand[h].peer IN
    /\ hand[h].at = "dial" /\ c \in Calls
    /\ starts => mgr[m].engine
    /\ placed' = c /\ call' = [call EXCEPT ![c] = NewCall(p, FALSE)]
    /\ mgr' = [mgr EXCEPT ![m].cur = c,
                          ![m].line = IF starts /\ @ = None THEN c ELSE @]
    /\ counted' = IF starts /\ hand[h].kind # "adhoc" THEN counted \cup {p} ELSE counted
    /\ hand' = [hand EXCEPT ![h] = IF ~starts THEN [@ EXCEPT !.at = "failed"]
                                   ELSE IF @.kind = "call" THEN [@ EXCEPT !.at = "tell", !.call = c]
                                   ELSE Idle]
    /\ UNCHANGED <<link, voip, made, closures>>

\* +call tells its chat, and listens to the call only then; what fails is caught.
Tells(h, sent) ==
    /\ hand[h].at = "tell"
    /\ IF sent THEN /\ call' = [call EXCEPT ![hand[h].call].listened = TRUE]
                    /\ hand' = [hand EXCEPT ![h] = Idle]
       ELSE Becomes(h, "failed") /\ UNCHANGED call
    /\ UNCHANGED <<link, voip, made, mgr, closures, counted, placed>>

\* The catch of a command: +call tries once more, with a new manager.
Caught(h) ==
    /\ hand[h].at = "failed"
    /\ IF hand[h].kind = "call" /\ ~hand[h].retried
       THEN /\ made < MaxManagers /\ made' = made + 1 /\ voip' = made'
            /\ Awaits(h, made + 1, "first", [hand[h] EXCEPT !.retried = TRUE])
       ELSE hand' = [hand EXCEPT ![h] = Idle] /\ UNCHANGED <<voip, made, mgr, closures>>
    /\ UNCHANGED <<link, counted, placed, call>>

\* acceptCall after init: the engine is not asked, and a call that has the
\* offer's callId already stays; +acceptcall counts the call.
Answers(h, same) ==
    LET c == placed + 1  p == hand[h].peer  cur == mgr[hand[h].mgr].cur IN
    /\ hand[h].at = "init" /\ hand[h].kind \in {"accept", "auto"} /\ Settled(h)
    /\ IF same THEN /\ cur # None /\ call[cur].answers /\ call[cur].peer = p
                    /\ UNCHANGED <<placed, call, mgr>>
       ELSE /\ c \in Calls /\ placed' = c /\ call' = [call EXCEPT ![c] = NewCall(p, TRUE)]
            /\ mgr' = [mgr EXCEPT ![hand[h].mgr].cur = c]
    /\ counted' = IF hand[h].kind = "accept" THEN counted \cup {p} ELSE counted
    /\ hand' = [hand EXCEPT ![h] = Idle]
    /\ UNCHANGED <<link, voip, made, closures>>

\* +endcall ends the manager's call, sends terminate for each that is counted,
\* and forgets them all when that was answered.
EndCommand(h) ==
    /\ made > 0 /\ hand[h].at = "idle" /\ "end" \in Kinds
    /\ hand' = IF counted = {} THEN hand ELSE [hand EXCEPT ![h] = [Idle EXCEPT !.at = "clear"]]
    /\ End("user")
    /\ UNCHANGED <<link, voip, made, closures, counted, placed>>
Clears(h) ==
    /\ hand[h].at = "clear"
    /\ counted' = {}
    /\ hand' = [hand EXCEPT ![h] = Idle]
    /\ UNCHANGED <<link, voip, made, mgr, closures, placed, call>>

\* +leavecall sends terminate for the chat's call and forgets it when that was
\* answered; the manager's call goes on.
LeaveCommand(h, p) ==
    /\ made > 0 /\ hand[h].at = "idle" /\ "leave" \in Kinds /\ p \in counted
    /\ hand' = [hand EXCEPT ![h] = [Idle EXCEPT !.at = "leave", !.peer = p]]
    /\ UNCHANGED <<link, voip, made, mgr, closures, counted, placed, call>>
Leaves(h) ==
    /\ hand[h].at = "leave"
    /\ counted' = counted \ {hand[h].peer}
    /\ hand' = [hand EXCEPT ![h] = Idle]
    /\ UNCHANGED <<link, voip, made, mgr, closures, placed, call>>
-----------------------------------------------------------------------------
\* A state the engine reports goes to activeCall, whichever call it is about:
\* 1 or 2, 5 or 6, and 13, that ends a connected one and calls its listener.
Hears(s, calls, c) ==
    LET x == calls[c]
        ends == s = "over" /\ x.connected /\ ~x.ended IN
    IF c = None THEN call' = calls /\ UNCHANGED counted
    ELSE /\ call' = [calls EXCEPT ![c] =
                        [x EXCEPT !.state = s, !.connected = @ \/ s = "connected",
                                  !.ended = @ \/ ends]]
         /\ counted' = IF ends /\ x.listened THEN counted \ {x.peer} ELSE counted

Reports(m, s) ==
    /\ mgr[m].line # None /\ s \in {"dialing", "connected"}
    /\ Hears(s, call, mgr[m].cur)
    /\ UNCHANGED <<link, voip, made, mgr, closures, placed, hand>>
\* The peer hangs up, or does not answer.
LineEnds(m) ==
    /\ mgr[m].line # None
    /\ mgr' = [mgr EXCEPT ![m].line = None]
    /\ Hears("over", [call EXCEPT ![mgr[m].line].how = "peer"], mgr[m].cur)
    /\ UNCHANGED <<link, voip, made, closures, placed, hand>>
\* State 13 of a call that was ended here.
ReportsEnd(m) ==
    /\ mgr[m].tail
    /\ mgr' = [mgr EXCEPT ![m].tail = FALSE]
    /\ Hears("over", call, mgr[m].cur)
    /\ UNCHANGED <<link, voip, made, closures, placed, hand>>

Next ==
    \/ Connect \/ Shuts \/ Opens \/ Closes \/ StopAll
    \/ \E r \in closures :
          InitReads(r) \/ InitMakes(r) \/ InitStacks(r) \/ InitEnds(r) \/ InitThrows(r)
    \/ \E p \in Peers : PeerEvent(p)
    \/ \E h \in Handlers :
          \/ \E k \in Kinds, p \in Peers : Command(h, k, p)
          \/ EndCommand(h) \/ Clears(h) \/ Leaves(h)
          \/ \E p \in Peers : LeaveCommand(h, p)
          \/ CallsManager(h) \/ Checks(h) \/ Wakes(h) \/ LookupThrows(h)
          \/ \E b \in BOOLEAN : Places(h, b) \/ Tells(h, b) \/ Answers(h, b)
          \/ Caught(h)
    \/ \E m \in Managers :
          \/ \E s \in {"dialing", "connected"} : Reports(m, s)
          \/ LineEnds(m) \/ ReportsEnd(m)

\* A run of init gets an answer to each of its awaits.
Fairness ==
    \A m \in Managers, n \in 1..MaxInits : WF_vars(
        \E r \in closures : /\ r.mgr = m /\ r.n = n
                            /\ InitReads(r) \/ InitMakes(r) \/ InitStacks(r)
                                  \/ InitEnds(r) \/ InitThrows(r))

Spec == Init /\ [][Next]_vars /\ Fairness
-----------------------------------------------------------------------------
\* Types; what is referred to was made.  A manager without an engine has no call
\* on a line and none to report the end of.
ManagerObject ==
    [ready : BOOLEAN, sig : 0..socks, engine : BOOLEAN, promise : 0..MaxInits,
     inits : 0..MaxInits, cur : 0..placed, line : 0..placed, tail : BOOLEAN, threw : BOOLEAN]
CallObject ==
    [peer : Peers \cup {None}, answers : BOOLEAN, state : {"none", "dialing", "connected", "over"},
     connected : BOOLEAN, ended : BOOLEAN, listened : BOOLEAN,
     how : {"not", "user", "peer", "cut"}]
HandObject ==
    [kind : Kinds \cup {"none"}, mgr : 0..made, peer : Peers \cup {None}, wait : 0..MaxInits,
     call : 0..placed, retried : BOOLEAN,
     at : {"idle", "first", "init", "sleep", "again", "dial", "tell", "failed", "clear", "leave"}]
HandOK(x) ==
    /\ x.at \notin {"idle", "clear"} => x.peer \in Peers
    /\ x.at \notin {"idle", "clear", "leave"} => x.mgr # None
    /\ x.at = "tell" => x.call # None
Typed ==
    /\ socks \in 0..MaxSocks /\ sock \in {None, socks} /\ up \in BOOLEAN
    /\ made \in 0..MaxManagers /\ voip \in 0..made
    /\ mgr \in [Managers -> ManagerObject]
    /\ closures \subseteq [mgr : 1..made, n : 1..MaxInits,
                           at : {"imports", "signaling", "engine", "stack"}]
    /\ counted \subseteq Peers /\ placed \in 0..MaxCalls
    /\ call \in [Calls -> CallObject]
    /\ hand \in [Handlers -> HandObject]
    /\ \A h \in Handlers : HandOK(hand[h])
LineOK(x) == x.line # None \/ x.tail => x.engine
TypeOK == Typed /\ \A m \in Managers : LineOK(mgr[m])

(* An online session has a manager, and when that is ready it has an engine *)
(* and signals on the session's own socket, whatever closes, retries and    *)
(* runs of init came between.                                               *)
SignalsOnLiveSocket ==
    up => /\ voip # None
          /\ mgr[voip].ready => mgr[voip].engine /\ mgr[voip].sig = sock

(* What stands behind it in every state: the manager of an online session   *)
(* is ready, a run of its init is under way, or one threw.  A promise that  *)
(* is settled with nothing done is never that manager's.                    *)
ReadyIsComing ==
    up => /\ voip # None
          /\ Inited(voip) \/ mgr[voip].threw \/ \E r \in closures : r.mgr = voip

(* A session that is online can place calls in the end, unless an init of   *)
(* its manager threw: a run that found no socket does not stand in the way. *)
ReadyAgain ==
    up ~> \/ ~up
          \/ voip # None /\ (Inited(voip) \/ mgr[voip].threw)

(* What the code says of a call (wp_baileys_service.js:803): it "NEVER cuts *)
(* until ended by user or receiver".  A close of the socket, or the end of  *)
(* another peer's call, does not end it.                                    *)
CallNeverCuts == \A c \in Calls : call[c].how # "cut"
=============================================================================
