--------------------------- MODULE VoipCalls_proofs ---------------------------
(***************************************************************************)
(* Proofs about VoipCalls: its types, that the manager of an online session*)
(* signals on the session's socket, and that its becoming ready is never   *)
(* forgotten.                                                              *)
(*                                                                         *)
(* The invariant that makes it inductive says what each run of init has     *)
(* given the session's manager so far, and that a manager not made yet has  *)
(* nothing: the one that takes its place starts without a socket.           *)
(***************************************************************************)
EXTENDS VoipCalls, TLAPS

\* A manager that was not made yet is new.
Fresh == \A m \in Managers : m > made => mgr[m] = NewManager
\* The session's manager is bound to the socket, if at all.
Bound == up => sock # None /\ voip # None /\ mgr[voip].sig \in {None, sock}
\* What a manager that is ready has, and one whose init got this far.
Fitted ==
    voip # None =>
        /\ mgr[voip].ready => mgr[voip].engine /\ mgr[voip].sig # None
        /\ \A r \in closures : r.mgr = voip =>
              /\ r.at # "imports" => mgr[voip].sig # None
              /\ r.at \in {"engine", "stack"} => mgr[voip].engine
IInv == Typed /\ Fresh /\ Bound /\ Fitted

Closure(n) == [mgr : 1..n, n : 1..MaxInits, at : {"imports", "signaling", "engine", "stack"}]
-----------------------------------------------------------------------------
\* Updates of a manager's record.
LEMMA RunsUpdate ==
    ASSUME NEW x \in ManagerObject, NEW i \in 0..MaxInits
    PROVE  [x EXCEPT !.inits = i, !.promise = i] \in ManagerObject
BY DEF ManagerObject

LEMMA LineUpdate ==
    ASSUME NEW x \in ManagerObject, NEW c \in 0..placed, NEW b \in BOOLEAN
    PROVE  [x EXCEPT !.line = c, !.tail = b] \in ManagerObject
BY DEF ManagerObject

\* init() leaves everything of a manager but its count of runs, and a run it
\* starts is at its imports.
LEMMA CallInitStep ==
    ASSUME mgr \in [Managers -> ManagerObject], NEW m \in Managers, NEW n \in Nat, m \in 1..n,
           closures \subseteq Closure(n), CallInit(m)
    PROVE  /\ mgr' \in [Managers -> ManagerObject]
           /\ \A k \in Managers \ {m} : mgr'[k] = mgr[k]
           /\ \A k \in Managers : /\ mgr'[k].sig = mgr[k].sig
                                  /\ mgr'[k].ready = mgr[k].ready
                                  /\ mgr'[k].engine = mgr[k].engine /\ mgr'[k].threw = mgr[k].threw
           /\ closures' \subseteq Closure(n)
           /\ \A r \in closures' \ closures : r.mgr = m /\ r.at = "imports"
           /\ Awaited(m) \in 0..MaxInits
<1>. USE VoipAssumption
<1>1. CASE Starts(m)
  <2>. DEFINE i == mgr[m].inits + 1
              r == [mgr |-> m, n |-> i, at |-> "imports"]
  <2>1. i \in 1..MaxInits
    BY <1>1 DEF CallInit, ManagerObject
  <2>2. /\ mgr' = [mgr EXCEPT ![m].inits = i, ![m].promise = i]
        /\ closures' = closures \cup {r}
    BY <1>1 DEF CallInit
  <2>3. r \in Closure(n)
    BY <2>1 DEF Closure
  <2>4. Awaited(m) = i
    BY <1>1 DEF Starts, Awaited
  <2>5. [mgr[m] EXCEPT !.inits = i, !.promise = i] \in ManagerObject
    <3>1. i \in 0..MaxInits /\ mgr[m] \in ManagerObject
      BY <2>1
    <3>. HIDE DEF i
    <3>. QED  BY ONLY <3>1, RunsUpdate
  <2>. HIDE DEF i
  <2>6. /\ mgr' \in [Managers -> ManagerObject]
        /\ \A k \in Managers \ {m} : mgr'[k] = mgr[k]
    BY <2>2, <2>5
  <2>7. /\ mgr'[m].sig = mgr[m].sig /\ mgr'[m].ready = mgr[m].ready
        /\ mgr'[m].engine = mgr[m].engine /\ mgr'[m].threw = mgr[m].threw
    BY <2>2 DEF ManagerObject
  <2>. QED  BY <2>1, <2>2, <2>3, <2>4, <2>6, <2>7
<1>2. CASE ~Starts(m)
  <2>1. mgr' = mgr /\ closures' = closures
    BY <1>2 DEF CallInit
  <2>2. Awaited(m) \in 0..MaxInits
    BY <1>2 DEF Awaited, ManagerObject, None
  <2>. QED  BY <2>1, <2>2
<1>. QED  BY <1>1, <1>2

\* What End and a new call in call() make of a manager and of the calls.
LEMMA QuitsStep ==
    ASSUME Typed, NEW m \in Managers
    PROVE  /\ Quits(m) \in ManagerObject
           /\ Quits(m).ready = mgr[m].ready /\ Quits(m).sig = mgr[m].sig
           /\ Quits(m).engine = mgr[m].engine /\ Quits(m).threw = mgr[m].threw
           /\ \A by \in {"user", "peer", "cut"} : QuitCalls(m, by) \in [Calls -> CallObject]
<1>1. Hangs(m) \in BOOLEAN
  BY DEF Hangs, Typed, CallObject, ManagerObject, Calls
<1>2. mgr[m] \in ManagerObject
  BY DEF Typed
<1>3. /\ Quits(m) \in ManagerObject
      /\ Quits(m).ready = mgr[m].ready /\ Quits(m).sig = mgr[m].sig
      /\ Quits(m).engine = mgr[m].engine /\ Quits(m).threw = mgr[m].threw
  <2>. DEFINE c == IF Hangs(m) THEN None ELSE mgr[m].line
              b == mgr[m].tail \/ (Hangs(m) /\ mgr[m].line # None)
  <2>1. c \in 0..placed /\ b \in BOOLEAN
    BY <1>1, <1>2 DEF ManagerObject, None, Typed
  <2>2. Quits(m) = [mgr[m] EXCEPT !.line = c, !.tail = b]
    BY <1>2 DEF Quits, ManagerObject
  <2>. HIDE DEF c, b
  <2>3. [mgr[m] EXCEPT !.line = c, !.tail = b] \in ManagerObject
    BY ONLY <1>2, <2>1, LineUpdate
  <2>4. /\ Quits(m).ready = mgr[m].ready /\ Quits(m).sig = mgr[m].sig
        /\ Quits(m).engine = mgr[m].engine /\ Quits(m).threw = mgr[m].threw
    BY <1>2, <2>2 DEF ManagerObject
  <2>5. Quits(m) \in ManagerObject
    BY ONLY <2>2, <2>3, Zenon
  <2>. QED  BY <2>4, <2>5
<1>4. ASSUME NEW by \in {"user", "peer", "cut"}
      PROVE  QuitCalls(m, by) \in [Calls -> CallObject]
  BY <1>1 DEF QuitCalls, Typed, CallObject
<1>. QED  BY <1>3, <1>4

\* The records of commands.
HandsOK ==
    /\ hand \in [Handlers -> HandObject]
    /\ \A h \in Handlers : HandOK(hand[h])

LEMMA AtUpdate ==
    ASSUME NEW x \in HandObject, HandOK(x), x.at \notin {"idle", "clear", "leave"},
           NEW at \in {"dial", "sleep", "failed"}
    PROVE  [x EXCEPT !.at = at] \in HandObject /\ HandOK([x EXCEPT !.at = at])
BY DEF HandObject, HandOK

LEMMA WaitUpdate ==
    ASSUME made \in Nat, NEW x \in HandObject, x.peer \in Peers, NEW at \in {"first", "init", "again"},
           NEW m \in 1..made, NEW w \in 0..MaxInits
    PROVE  /\ [x EXCEPT !.at = at, !.mgr = m, !.wait = w] \in HandObject
           /\ HandOK([x EXCEPT !.at = at, !.mgr = m, !.wait = w])
<1>1. m \in 0..made /\ m # None
  BY DEF None
<1>2. [x EXCEPT !.at = at, !.mgr = m, !.wait = w] \in HandObject
  BY <1>1 DEF HandObject
<1>3. HandOK([x EXCEPT !.at = at, !.mgr = m, !.wait = w])
  BY <1>1 DEF HandObject, HandOK
<1>. QED  BY <1>2, <1>3

LEMMA IdleObject ==
    ASSUME made \in Nat, placed \in Nat
    PROVE  Idle \in HandObject /\ HandOK(Idle)
BY VoipAssumption DEF Idle, HandObject, HandOK, None

LEMMA ClearObjects ==
    ASSUME made \in Nat, placed \in Nat, NEW p \in Peers
    PROVE  /\ [Idle EXCEPT !.at = "clear"] \in HandObject /\ HandOK([Idle EXCEPT !.at = "clear"])
           /\ [Idle EXCEPT !.at = "leave", !.peer = p] \in HandObject
           /\ HandOK([Idle EXCEPT !.at = "leave", !.peer = p])
<1>1. Idle \in HandObject
  BY IdleObject
<1>2. [Idle EXCEPT !.at = "clear"] \in HandObject /\ HandOK([Idle EXCEPT !.at = "clear"])
  BY <1>1 DEF HandObject, HandOK
<1>3. /\ [Idle EXCEPT !.at = "leave", !.peer = p] \in HandObject
      /\ HandOK([Idle EXCEPT !.at = "leave", !.peer = p])
  BY <1>1 DEF HandObject, HandOK
<1>. QED  BY <1>2, <1>3

LEMMA HandsWiden ==
    ASSUME Typed, made' \in Nat, made <= made', placed' \in Nat, placed <= placed'
    PROVE  HandObject \subseteq HandObject' /\ Idle \in HandObject' /\ HandOK(Idle)
BY VoipAssumption DEF Typed, HandObject, Idle, HandOK, None

LEMMA BecomesStep ==
    ASSUME Typed, NEW h \in Handlers, NEW at \in {"dial", "sleep", "failed"},
           hand[h].at \notin {"idle", "clear", "leave"}, Becomes(h, at), UNCHANGED <<made, placed>>
    PROVE  HandsOK'
<1>1. /\ [hand[h] EXCEPT !.at = at] \in HandObject
      /\ HandOK([hand[h] EXCEPT !.at = at])
  <2>1. hand[h] \in HandObject /\ HandOK(hand[h])
    BY DEF Typed
  <2>. QED  BY ONLY <2>1, AtUpdate, hand[h].at \notin {"idle", "clear", "leave"},
                    at \in {"dial", "sleep", "failed"}
<1>2. HandObject' = HandObject
  BY DEF HandObject
<1>3. hand' = [hand EXCEPT ![h] = [hand[h] EXCEPT !.at = at]]
  BY DEF Becomes
<1>4. hand' \in [Handlers -> HandObject]
  BY <1>1, <1>3 DEF Typed
<1>5. \A g \in Handlers : HandOK(hand'[g])
  BY <1>1, <1>3 DEF Typed
<1>. QED  BY <1>2, <1>4, <1>5 DEF HandsOK, HandOK

LEMMA IdleStep ==
    ASSUME Typed, NEW h \in Handlers, hand' = [hand EXCEPT ![h] = Idle],
           made' \in Nat, made <= made', placed' \in Nat, placed <= placed'
    PROVE  HandsOK'
<1>1. hand' \in [Handlers -> HandObject']
  BY HandsWiden DEF Typed
<1>2. \A g \in Handlers : HandOK(hand'[g])
  BY HandsWiden DEF Typed
<1>. QED  BY <1>1, <1>2 DEF HandsOK, HandOK

\* What is left alone by the steps of the two groups below.
LEMMA SameTypes ==
    ASSUME Typed, UNCHANGED <<socks, made, placed>>
    PROVE  ManagerObject' = ManagerObject /\ HandObject' = HandObject
BY DEF ManagerObject, HandObject
-----------------------------------------------------------------------------
\* A step of the calls: the link, the managers made and the runs of init are
\* as they were, and so is what init made of the managers.
CallStep ==
    /\ UNCHANGED <<sock, socks, up, voip, made, closures>>
    /\ placed' \in placed..MaxCalls
    /\ mgr' \in [Managers -> ManagerObject']
    /\ \A m \in 1..made : mgr'[m].ready = mgr[m].ready /\ mgr'[m].sig = mgr[m].sig
                             /\ mgr'[m].engine = mgr[m].engine /\ mgr'[m].threw = mgr[m].threw
    /\ \A m \in Managers : m > made => mgr'[m] = mgr[m]
    /\ counted' \subseteq Peers
    /\ call' \in [Calls -> CallObject]
    /\ HandsOK'
LEMMA CallStepKeeps ==
    ASSUME IInv, CallStep
    PROVE  IInv'
<1>1. voip # None => voip \in 1..made
  BY DEF IInv, Typed, None
<1>2. Typed'
  BY VoipAssumption DEF IInv, Typed, CallStep, HandsOK, CallObject
<1>3. Fresh'
  BY DEF IInv, Fresh, CallStep
<1>4. Bound'
  BY <1>1 DEF IInv, Bound, CallStep
<1>5. Fitted'
  BY <1>1 DEF IInv, Fitted, CallStep
<1>. QED  BY <1>2, <1>3, <1>4, <1>5 DEF IInv
LEMMA CurUpdate ==
    ASSUME NEW x \in ManagerObject, NEW c \in 0..placed
    PROVE  /\ [x EXCEPT !.cur = c] \in ManagerObject
           /\ [x EXCEPT !.cur = c].ready = x.ready /\ [x EXCEPT !.cur = c].sig = x.sig
           /\ [x EXCEPT !.cur = c].engine = x.engine /\ [x EXCEPT !.cur = c].threw = x.threw
BY DEF ManagerObject

\* Where the counters and the session's manager are.
LEMMA Made ==
    ASSUME IInv
    PROVE  /\ 1..made \subseteq Managers /\ made \in Nat /\ placed \in 0..MaxCalls /\ placed \in Nat
           /\ socks \in Nat /\ sock \in 0..socks /\ MaxManagers \in Nat
           /\ voip # None => voip \in 1..made
           /\ mgr \in [Managers -> ManagerObject]
BY VoipAssumption DEF IInv, Typed, Managers, None

\* Another record for a manager that was made.
LEMMA ManagerUpdate ==
    ASSUME IInv, NEW m \in 1..made, NEW x \in ManagerObject,
           x.ready = mgr[m].ready, x.sig = mgr[m].sig, x.engine = mgr[m].engine,
           x.threw = mgr[m].threw,
           mgr' = [mgr EXCEPT ![m] = x]
    PROVE  /\ mgr' \in [Managers -> ManagerObject]
           /\ \A k \in 1..made : mgr'[k].ready = mgr[k].ready /\ mgr'[k].sig = mgr[k].sig
                                     /\ mgr'[k].engine = mgr[k].engine /\ mgr'[k].threw = mgr[k].threw
           /\ \A k \in Managers : k > made => mgr'[k] = mgr[k]
BY Made DEF IInv, Typed, Managers

LEMMA EndStep ==
    ASSUME IInv, NEW by \in {"user", "peer", "cut"}, End(by)
    PROVE  /\ mgr' \in [Managers -> ManagerObject]
           /\ \A k \in 1..made : mgr'[k].ready = mgr[k].ready /\ mgr'[k].sig = mgr[k].sig
                                     /\ mgr'[k].engine = mgr[k].engine /\ mgr'[k].threw = mgr[k].threw
           /\ \A k \in Managers : k > made => mgr'[k] = mgr[k]
           /\ call' \in [Calls -> CallObject]
<1>1. CASE voip = None
  BY <1>1 DEF End, IInv, Typed
<1>2. CASE voip # None
  <2>. DEFINE x == [Quits(voip) EXCEPT !.cur = None]
  <2>1. voip \in 1..made /\ voip \in Managers
    BY <1>2, Made
  <2>2. Typed
    BY DEF IInv
  <2>3. /\ x \in ManagerObject /\ x.ready = mgr[voip].ready /\ x.sig = mgr[voip].sig
        /\ x.engine = mgr[voip].engine /\ x.threw = mgr[voip].threw
    <3>1. None \in 0..placed
      BY Made DEF None
    <3>. QED  BY <2>1, <2>2, <3>1, QuitsStep, CurUpdate
  <2>4. mgr' = [mgr EXCEPT ![voip] = x] /\ call' = QuitCalls(voip, by)
    BY <1>2 DEF End
  <2>. HIDE DEF x
  <2>5. call' \in [Calls -> CallObject]
    BY <2>1, <2>2, <2>4, QuitsStep
  <2>. QED  BY <2>1, <2>3, <2>4, <2>5, ManagerUpdate
<1>. QED  BY <1>1, <1>2

LEMMA SessionEnds ==
    ASSUME IInv,
           \/ StopAll
           \/ \E p \in Peers : PeerEvent(p)
           \/ \E h \in Handlers : EndCommand(h)
    PROVE  CallStep
<1>. USE Made
<1>0. Typed /\ HandsOK
  BY DEF IInv, Typed, HandsOK
<1>1. CASE StopAll
  <2>1. UNCHANGED <<sock, socks, up, voip, made, closures, placed, hand>> /\ End("user")
        /\ counted' = {}
    BY <1>1 DEF StopAll, link
  <2>2. HandsOK' /\ ManagerObject' = ManagerObject
    BY <1>0, <2>1, SameTypes DEF HandsOK, HandOK
  <2>. QED  BY <2>1, <2>2, EndStep DEF CallStep
<1>2. ASSUME NEW p \in Peers, PeerEvent(p) PROVE CallStep
  <2>1. PICK by \in {"peer", "cut"} : End(by)
    BY <1>2 DEF PeerEvent
  <2>2. UNCHANGED <<sock, socks, up, voip, made, closures, placed, hand>>
        /\ counted' = counted \ {p}
    BY <1>2 DEF PeerEvent, link
  <2>3. HandsOK' /\ ManagerObject' = ManagerObject
    BY <1>0, <2>2, SameTypes DEF HandsOK, HandOK
  <2>4. counted' \subseteq Peers
    BY <1>0, <2>2 DEF Typed
  <2>. QED  BY <2>1, <2>2, <2>3, <2>4, EndStep DEF CallStep
<1>3. ASSUME NEW h \in Handlers, EndCommand(h)
      PROVE  CallStep
  <2>. DEFINE x == [Idle EXCEPT !.at = "clear"]
  <2>1. UNCHANGED <<sock, socks, up, voip, made, closures, counted, placed>>
        /\ hand' \in {hand, [hand EXCEPT ![h] = x]}
    BY <1>3 DEF EndCommand, link
  <2>2. x \in HandObject /\ HandOK(x)
    <3>1. Idle \in HandObject
      BY IdleObject
    <3>. QED  BY <3>1 DEF HandObject, HandOK
  <2>3. HandObject' = HandObject /\ ManagerObject' = ManagerObject
    BY <1>0, <2>1, SameTypes
  <2>. HIDE DEF x
  <2>4. hand' \in [Handlers -> HandObject] /\ \A g \in Handlers : HandOK(hand'[g])
    BY <1>0, <2>1, <2>2 DEF HandsOK
  <2>5. HandsOK'
    BY <2>3, <2>4 DEF HandsOK, HandOK
  <2>6. /\ mgr' \in [Managers -> ManagerObject]
        /\ \A m \in 1..made : mgr'[m].ready = mgr[m].ready /\ mgr'[m].sig = mgr[m].sig
                                  /\ mgr'[m].engine = mgr[m].engine /\ mgr'[m].threw = mgr[m].threw
        /\ \A m \in Managers : m > made => mgr'[m] = mgr[m]
        /\ call' \in [Calls -> CallObject]
    BY <1>3, EndStep DEF EndCommand
  <2>. QED  BY <1>0, <2>1, <2>3, <2>5, <2>6 DEF CallStep, Typed
<1>. QED  BY <1>1, <1>2, <1>3
\* A step that leaves the managers alone.
LEMMA CommandSteps ==
    ASSUME IInv, NEW h \in Handlers,
           \/ LookupThrows(h) \/ Clears(h) \/ Leaves(h)
           \/ \E p \in Peers : LeaveCommand(h, p)
           \/ \E sent \in BOOLEAN : Tells(h, sent)
    PROVE  CallStep
<1>. USE Made
<1>0. Typed /\ HandsOK
  BY DEF IInv, Typed, HandsOK
<1>1. /\ UNCHANGED <<sock, socks, up, voip, made, mgr, closures, placed>>
      /\ ManagerObject' = ManagerObject
  BY <1>0, SameTypes DEF LookupThrows, Clears, Leaves, LeaveCommand, Tells, link
<1>2. counted' \subseteq Peers
  BY <1>0 DEF LookupThrows, Clears, Leaves, LeaveCommand, Tells, Typed
<1>3. call' \in [Calls -> CallObject]
  <2>1. ASSUME NEW sent \in BOOLEAN, Tells(h, sent)
        PROVE  call' \in [Calls -> CallObject]
    <3>1. CASE sent
      <4>1. call' = [call EXCEPT ![hand[h].call].listened = TRUE]
        BY <2>1, <3>1 DEF Tells
      <4>. DEFINE c == hand[h].call
                  x == [call[c] EXCEPT !.listened = TRUE]
      <4>2. call' = [call EXCEPT ![c] = x]
        BY <4>1
      <4>3. c \in Calls => x \in CallObject
        <5>1. \A y \in CallObject : [y EXCEPT !.listened = TRUE] \in CallObject
          BY DEF CallObject
        <5>. QED  BY <1>0, <5>1 DEF Typed
      <4>. HIDE DEF c, x
      <4>. QED  BY <1>0, <4>2, <4>3 DEF Typed
    <3>2. CASE ~sent
      BY <1>0, <2>1, <3>2 DEF Tells, Typed
    <3>. QED  BY <3>1, <3>2
  <2>2. CASE LookupThrows(h) \/ Clears(h) \/ Leaves(h) \/ \E p \in Peers : LeaveCommand(h, p)
    BY <1>0, <2>2 DEF LookupThrows, Clears, Leaves, LeaveCommand, Typed
  <2>. QED  BY <2>1, <2>2
<1>4. HandsOK'
  <2>0. made' \in Nat /\ made <= made' /\ placed' \in Nat /\ placed <= placed'
    BY <1>1
  <2>1. CASE hand' = [hand EXCEPT ![h] = Idle]
    BY <1>0, <2>0, <2>1, IdleStep
  <2>2. CASE Becomes(h, "failed") /\ hand[h].at \in {"dial", "tell"}
    BY <1>0, <1>1, <2>2, BecomesStep
  <2>3. ASSUME NEW p \in Peers, hand' = [hand EXCEPT ![h] = [Idle EXCEPT !.at = "leave", !.peer = p]]
        PROVE  HandsOK'
    <3>1. hand' \in [Handlers -> HandObject] /\ \A g \in Handlers : HandOK(hand'[g])
      BY <1>0, <2>3, ClearObjects DEF HandsOK
    <3>. QED  BY <1>0, <1>1, <3>1, SameTypes DEF HandsOK, HandOK
  <2>. QED  BY <2>1, <2>2, <2>3 DEF LookupThrows, Clears, Leaves, LeaveCommand, Tells
<1>. QED  BY <1>0, <1>1, <1>2, <1>3, <1>4 DEF CallStep

LEMMA ChecksStep ==
    ASSUME IInv, NEW h \in Handlers, Checks(h)
    PROVE  CallStep
<1>. USE Made
<1>0. Typed
  BY DEF IInv
<1>. DEFINE m == hand[h].mgr
<1>1. m \in 1..made /\ m \in Managers
  BY <1>0 DEF Checks, Typed, HandObject, HandOK, None
<1>2. /\ UNCHANGED <<sock, socks, up, voip, made, closures, counted, placed>>
      /\ ManagerObject' = ManagerObject
  BY <1>0, SameTypes DEF Checks, link
<1>3. HandsOK'
  <2>1. /\ hand[h].at \in {"init", "again"}
        /\ \/ Becomes(h, "dial") \/ Becomes(h, "sleep") \/ Becomes(h, "failed")
    BY DEF Checks
  <2>. QED  BY <1>0, <1>2, <2>1, BecomesStep
<1>4. /\ mgr' \in [Managers -> ManagerObject]
      /\ \A k \in 1..made : mgr'[k].ready = mgr[k].ready /\ mgr'[k].sig = mgr[k].sig
                                /\ mgr'[k].engine = mgr[k].engine /\ mgr'[k].threw = mgr[k].threw
      /\ \A k \in Managers : k > made => mgr'[k] = mgr[k]
      /\ call' \in [Calls -> CallObject]
  <2>1. CASE UNCHANGED <<mgr, call>>
    BY <1>0, <2>1 DEF Typed
  <2>2. CASE mgr' = [mgr EXCEPT ![m] = Quits(m)] /\ call' = QuitCalls(m, "user")
    BY <1>0, <1>1, <2>2, QuitsStep, ManagerUpdate
  <2>. QED  BY <2>1, <2>2 DEF Checks
<1>. QED  BY <1>0, <1>2, <1>3, <1>4 DEF CallStep, Typed

LEMMA NewCallObject == \A p \in Peers, b \in BOOLEAN : NewCall(p, b) \in CallObject
BY DEF NewCall, CallObject

LEMMA CallUpdate ==
    ASSUME NEW x \in ManagerObject', NEW c \in 0..placed', NEW d \in 0..placed'
    PROVE  /\ [x EXCEPT !.cur = c, !.line = d] \in ManagerObject'
           /\ [x EXCEPT !.cur = c, !.line = d].ready = x.ready
           /\ [x EXCEPT !.cur = c, !.line = d].sig = x.sig
           /\ [x EXCEPT !.cur = c, !.line = d].engine = x.engine
           /\ [x EXCEPT !.cur = c, !.line = d].threw = x.threw
BY DEF ManagerObject

\* A new call of manager m, that its engine carries or does not.
LEMMA NewCallStep ==
    ASSUME IInv, NEW m \in 1..made, NEW p \in Peers, NEW b \in BOOLEAN, NEW c, NEW d, c = placed + 1, c \in Calls,
           d \in {c, mgr[m].line}, placed' = c, call' = [call EXCEPT ![c] = NewCall(p, b)],
           mgr' = [mgr EXCEPT ![m] = [mgr[m] EXCEPT !.cur = c, !.line = d]],
           UNCHANGED <<sock, socks, up, voip, made, closures>>,
           counted' \subseteq Peers, HandsOK'
    PROVE  CallStep
<1>. USE Made
<1>1. placed' \in placed..MaxCalls
  BY VoipAssumption DEF Calls
<1>2. ManagerObject \subseteq ManagerObject'
  BY <1>1 DEF ManagerObject
<1>3. mgr[m] \in ManagerObject /\ mgr[m] \in ManagerObject' /\ mgr[m].line \in 0..placed
  BY <1>2 DEF ManagerObject
<1>. DEFINE x == [mgr[m] EXCEPT !.cur = c, !.line = d]
<1>4. c \in 0..placed' /\ d \in 0..placed'
  BY <1>1, <1>3
<1>5. /\ x \in ManagerObject' /\ x.ready = mgr[m].ready /\ x.sig = mgr[m].sig
      /\ x.engine = mgr[m].engine /\ x.threw = mgr[m].threw
  <2>1. x \in ManagerObject'
    BY ONLY <1>3, <1>4, CallUpdate
  <2>. QED  BY <1>3, <2>1 DEF ManagerObject
<1>. HIDE DEF x
<1>6. /\ mgr' \in [Managers -> ManagerObject']
      /\ \A k \in 1..made : mgr'[k].ready = mgr[k].ready /\ mgr'[k].sig = mgr[k].sig
                                /\ mgr'[k].engine = mgr[k].engine /\ mgr'[k].threw = mgr[k].threw
      /\ \A k \in Managers : k > made => mgr'[k] = mgr[k]
  <2>1. mgr' = [mgr EXCEPT ![m] = x]
    BY DEF x
  <2>. QED  BY <1>2, <1>5, <2>1
<1>7. call' \in [Calls -> CallObject]
  BY NewCallObject DEF IInv, Typed
<1>. QED  BY <1>1, <1>6, <1>7 DEF CallStep
LEMMA PlacesStep ==
    ASSUME IInv, NEW h \in Handlers, NEW starts \in BOOLEAN, Places(h, starts)
    PROVE  CallStep
<1>. USE Made
<1>0. Typed
  BY DEF IInv
<1>. DEFINE m == hand[h].mgr
            c == placed + 1
            p == hand[h].peer
            d == IF starts /\ mgr[m].line = None THEN c ELSE mgr[m].line
<1>1. m \in 1..made /\ m \in Managers /\ p \in Peers /\ mgr[m] \in ManagerObject
  BY <1>0 DEF Places, Typed, HandObject, HandOK, None
<1>2. /\ c \in Calls /\ placed' = c /\ call' = [call EXCEPT ![c] = NewCall(p, FALSE)]
      /\ UNCHANGED <<sock, socks, up, voip, made, closures>>
      /\ counted' \in {counted, counted \cup {p}}
  BY DEF Places, link
<1>3. mgr' = [mgr EXCEPT ![m] = [mgr[m] EXCEPT !.cur = c, !.line = d]]
  BY <1>1 DEF Places, ManagerObject
<1>4. placed' \in Nat /\ placed <= placed' /\ placed' # None /\ placed' \in 0..placed'
  BY <1>2 DEF None
<1>5. HandsOK'
  <2>1. HandObject \subseteq HandObject' /\ Idle \in HandObject' /\ HandOK(Idle)
    BY <1>0, <1>2, <1>4, HandsWiden
  <2>. DEFINE x == hand'[h]
  <2>2. hand[h] \in HandObject' /\ HandOK(hand[h]) /\ hand[h].at = "dial"
    BY <1>0, <2>1 DEF Typed, Places
  <2>3. \E y \in {[hand[h] EXCEPT !.at = "failed"], [hand[h] EXCEPT !.at = "tell", !.call = c], Idle} :
           hand' = [hand EXCEPT ![h] = y]
    BY DEF Places
  <2>4. \A y \in {[hand[h] EXCEPT !.at = "failed"], [hand[h] EXCEPT !.at = "tell", !.call = c], Idle} :
           y \in HandObject' /\ HandOK(y)
    <3>1. [hand[h] EXCEPT !.at = "failed"] \in HandObject' /\ HandOK([hand[h] EXCEPT !.at = "failed"])
      BY <2>2 DEF HandObject, HandOK
    <3>2. ASSUME NEW y \in HandObject', NEW e \in 0..placed', HandOK(y), y.at = "dial", e # None
          PROVE  /\ [y EXCEPT !.at = "tell", !.call = e] \in HandObject'
                 /\ HandOK([y EXCEPT !.at = "tell", !.call = e])
      BY <3>2 DEF HandObject, HandOK
    <3>3. [hand[h] EXCEPT !.at = "tell", !.call = c] \in HandObject'
          /\ HandOK([hand[h] EXCEPT !.at = "tell", !.call = c])
      BY <1>2, <1>4, <2>2, <3>2
    <3>. QED  BY <2>1, <3>1, <3>3
  <2>5. PICK y : hand' = [hand EXCEPT ![h] = y] /\ y \in HandObject' /\ HandOK(y)
    BY <2>3, <2>4
  <2>6. hand' \in [Handlers -> HandObject'] /\ \A g \in Handlers : HandOK(hand'[g])
    BY <1>0, <2>1, <2>5 DEF Typed
  <2>. QED  BY <2>6 DEF HandsOK, HandOK
<1>6. d \in {c, mgr[m].line} /\ counted' \subseteq Peers
  BY <1>0, <1>1, <1>2 DEF Typed
<1>. HIDE DEF d, c, p, m
<1>7. c = placed + 1
  BY DEF c
<1>. QED  BY <1>1, <1>2, <1>3, <1>5, <1>6, <1>7, NewCallStep

LEMMA AnswersStep ==
    ASSUME IInv, NEW h \in Handlers, NEW same \in BOOLEAN, Answers(h, same)
    PROVE  CallStep
<1>. USE Made
<1>0. Typed
  BY DEF IInv
<1>. DEFINE m == hand[h].mgr
            c == placed + 1
            p == hand[h].peer
            d == mgr[m].line
<1>1. m \in 1..made /\ m \in Managers /\ p \in Peers /\ mgr[m] \in ManagerObject
  BY <1>0 DEF Answers, Typed, HandObject, HandOK, None
<1>2. /\ UNCHANGED <<sock, socks, up, voip, made, closures>>
      /\ counted' \in {counted, counted \cup {p}} /\ hand' = [hand EXCEPT ![h] = Idle]
      /\ placed' \in {placed, placed + 1}
  BY DEF Answers, link
<1>3. counted' \subseteq Peers
  BY <1>0, <1>1, <1>2 DEF Typed
<1>4. HandsOK'
  <2>1. made' \in Nat /\ made <= made' /\ placed' \in Nat /\ placed <= placed'
    BY <1>2
  <2>. QED  BY <1>0, <1>2, <2>1, IdleStep
<1>5. CASE same
  <2>1. UNCHANGED <<placed, call, mgr>>
    BY <1>5 DEF Answers
  <2>2. ManagerObject' = ManagerObject
    BY <1>0, <1>2, <2>1, SameTypes
  <2>3. call' \in [Calls -> CallObject]
    BY <1>0, <2>1 DEF Typed
  <2>4. placed' \in placed..MaxCalls /\ mgr' \in [Managers -> ManagerObject']
    BY <2>1, <2>2
  <2>. QED  BY <1>2, <1>3, <1>4, <2>1, <2>3, <2>4 DEF CallStep
<1>6. CASE ~same
  <2>1. /\ c \in Calls /\ placed' = c /\ call' = [call EXCEPT ![c] = NewCall(p, TRUE)]
        /\ mgr' = [mgr EXCEPT ![m].cur = c]
    BY <1>6 DEF Answers
  <2>2. [mgr[m] EXCEPT !.cur = c] = [mgr[m] EXCEPT !.cur = c, !.line = d]
    BY <1>1 DEF ManagerObject
  <2>3. mgr' = [mgr EXCEPT ![m] = [mgr[m] EXCEPT !.cur = c, !.line = d]]
    BY <2>1, <2>2
  <2>4. d \in {c, mgr[m].line}
    OBVIOUS
  <2>. HIDE DEF d, c, p, m
  <2>5. c = placed + 1
    BY DEF c
  <2>. QED  BY <1>1, <1>2, <1>3, <1>4, <2>1, <2>3, <2>4, <2>5, NewCallStep
<1>. QED  BY <1>5, <1>6

\* What the engine reports.
LEMMA HearsStep ==
    ASSUME NEW s \in {"dialing", "connected", "over"}, NEW calls \in [Calls -> CallObject], NEW c,
           counted \subseteq Peers, Hears(s, calls, c)
    PROVE  call' \in [Calls -> CallObject] /\ counted' \subseteq Peers
<1>. DEFINE x == calls[c]
<1>1. CASE c \notin Calls
  BY <1>1 DEF Hears
<1>2. CASE c \in Calls
  <2>1. x \in CallObject
    BY <1>2
  <2>. DEFINE e == x.ended \/ (s = "over" /\ x.connected /\ ~x.ended)
              k == x.connected \/ s = "connected"
  <2>2. e \in BOOLEAN /\ k \in BOOLEAN
    OBVIOUS
  <2>3. [x EXCEPT !.state = s, !.connected = k, !.ended = e] \in CallObject
    BY <2>1, <2>2 DEF CallObject
  <2>4. call' \in {calls, [calls EXCEPT ![c] = [x EXCEPT !.state = s, !.connected = k, !.ended = e]]}
    BY <2>1 DEF Hears, CallObject
  <2>5. counted' \subseteq Peers
    BY DEF Hears
  <2>. HIDE DEF x, e, k
  <2>. QED  BY <2>3, <2>4, <2>5
<1>. QED  BY <1>1, <1>2

LEMMA EngineSteps ==
    ASSUME IInv, NEW m \in Managers,
           \/ LineEnds(m) \/ ReportsEnd(m)
           \/ \E s \in {"dialing", "connected"} : Reports(m, s)
    PROVE  CallStep
<1>. USE Made
<1>0. Typed /\ HandsOK /\ mgr[m] \in ManagerObject
  BY DEF IInv, Typed, HandsOK
<1>1. UNCHANGED <<sock, socks, up, voip, made, closures, placed, hand>>
  BY DEF LineEnds, ReportsEnd, Reports, link
<1>2. ManagerObject' = ManagerObject /\ HandsOK'
  BY <1>0, <1>1, SameTypes DEF HandsOK, HandOK
<1>3. call' \in [Calls -> CallObject] /\ counted' \subseteq Peers
  <2>1. call \in [Calls -> CallObject] /\ counted \subseteq Peers
    BY <1>0 DEF Typed
  <2>2. [call EXCEPT ![mgr[m].line].how = "peer"] \in [Calls -> CallObject]
    BY <2>1 DEF CallObject
  <2>3. CASE LineEnds(m)
    BY <2>1, <2>2, <2>3, HearsStep DEF LineEnds
  <2>4. CASE ReportsEnd(m)
    BY <2>1, <2>4, HearsStep DEF ReportsEnd
  <2>5. ASSUME NEW s \in {"dialing", "connected"}, Reports(m, s)
        PROVE  call' \in [Calls -> CallObject] /\ counted' \subseteq Peers
    BY <2>1, <2>5, HearsStep DEF Reports
  <2>. QED  BY <2>3, <2>4, <2>5
<1>4. /\ mgr' \in [Managers -> ManagerObject]
      /\ \A k \in 1..made : mgr'[k].ready = mgr[k].ready /\ mgr'[k].sig = mgr[k].sig
                                /\ mgr'[k].engine = mgr[k].engine /\ mgr'[k].threw = mgr[k].threw
      /\ \A k \in Managers : k > made => mgr'[k] = mgr[k]
  <2>1. CASE mgr' = mgr
    BY <2>1
  <2>2. CASE LineEnds(m) \/ ReportsEnd(m)
    <3>1. m \in 1..made
      <4>1. ~(m > made)
        BY <2>2, <1>0 DEF LineEnds, ReportsEnd, IInv, Fresh, NewManager, None
      <4>. QED  BY <4>1 DEF Managers
    <3>2. CASE LineEnds(m)
      <4>. DEFINE x == [mgr[m] EXCEPT !.line = None]
      <4>1. mgr' = [mgr EXCEPT ![m] = x]
        BY <3>2 DEF LineEnds
      <4>2. x \in ManagerObject /\ x.ready = mgr[m].ready /\ x.sig = mgr[m].sig
            /\ x.engine = mgr[m].engine /\ x.threw = mgr[m].threw
        BY <1>0 DEF ManagerObject, None
      <4>. HIDE DEF x
      <4>. QED  BY <3>1, <4>1, <4>2, ManagerUpdate
    <3>3. CASE ReportsEnd(m)
      <4>. DEFINE x == [mgr[m] EXCEPT !.tail = FALSE]
      <4>1. mgr' = [mgr EXCEPT ![m] = x]
        BY <3>3 DEF ReportsEnd
      <4>2. x \in ManagerObject /\ x.ready = mgr[m].ready /\ x.sig = mgr[m].sig
            /\ x.engine = mgr[m].engine /\ x.threw = mgr[m].threw
        BY <1>0 DEF ManagerObject
      <4>. HIDE DEF x
      <4>. QED  BY <3>1, <4>1, <4>2, ManagerUpdate
    <3>. QED  BY <2>2, <3>2, <3>3
  <2>. QED  BY <2>1, <2>2 DEF Reports
<1>. QED  BY <1>1, <1>2, <1>3, <1>4 DEF CallStep
\* The runs of init.
LEMMA InitUpdate ==
    ASSUME NEW x \in ManagerObject, NEW s \in 0..socks, NEW e \in BOOLEAN, NEW l \in 0..placed,
           NEW t \in BOOLEAN, NEW y \in BOOLEAN, NEW n \in 0..MaxInits, NEW w \in BOOLEAN
    PROVE  /\ [x EXCEPT !.sig = s] \in ManagerObject
           /\ [x EXCEPT !.engine = e, !.line = l, !.tail = t] \in ManagerObject
           /\ [x EXCEPT !.ready = y] \in ManagerObject
           /\ [x EXCEPT !.ready = y, !.promise = n, !.threw = w] \in ManagerObject
BY DEF ManagerObject

LEMMA InitSteps ==
    ASSUME IInv, NEW r \in closures,
           InitReads(r) \/ InitMakes(r) \/ InitStacks(r) \/ InitEnds(r) \/ InitThrows(r)
    PROVE  IInv'
<1>. USE Made
<1>. DEFINE m == r.mgr
<1>0. Typed /\ HandsOK
  BY DEF IInv, Typed, HandsOK
<1>1. m \in 1..made /\ m \in Managers /\ mgr[m] \in ManagerObject
  BY <1>0 DEF Typed
<1>2. UNCHANGED <<sock, socks, up, voip, made, counted, placed, call, hand>>
  BY DEF InitReads, InitMakes, InitStacks, InitEnds, InitThrows, link
<1>3. \/ closures' = closures \ {r}
      \/ \E at \in {"signaling", "engine", "stack"} :
            /\ closures' = (closures \ {r}) \cup {[r EXCEPT !.at = at]}
            /\ at = "signaling" => InitReads(r) /\ mgr' = [mgr EXCEPT ![m].sig = sock] /\ sock # None
            /\ at = "engine" => InitMakes(r)
            /\ at = "stack" => InitStacks(r)
  BY DEF InitReads, InitMakes, InitStacks, InitEnds, InitThrows, GoesOn, IsOver
<1>4. mgr' \in [Managers -> ManagerObject] /\ \A k \in Managers \ {m} : mgr'[k] = mgr[k]
  <2>1. 0 \in 0..placed /\ 0 \in 0..MaxInits /\ sock \in 0..socks /\ None = 0
    BY <1>0, VoipAssumption DEF Typed, None
  <2>2. CASE InitReads(r)
    <3>1. [mgr[m] EXCEPT !.sig = sock] \in ManagerObject
      BY <1>1, <2>1, InitUpdate
    <3>. QED  BY <2>2, <3>1 DEF InitReads
  <2>3. CASE InitMakes(r)
    <3>1. [mgr[m] EXCEPT !.engine = TRUE, !.line = None, !.tail = FALSE] \in ManagerObject
      BY <1>1, <2>1, InitUpdate
    <3>. QED  BY <2>3, <3>1 DEF InitMakes
  <2>4. CASE InitStacks(r)
    BY <2>4 DEF InitStacks
  <2>5. CASE InitEnds(r)
    <3>1. [mgr[m] EXCEPT !.ready = TRUE] \in ManagerObject
      BY <1>1, <2>1, InitUpdate
    <3>. QED  BY <2>5, <3>1 DEF InitEnds
  <2>6. CASE InitThrows(r)
    <3>1. [mgr[m] EXCEPT !.ready = FALSE, !.promise = None, !.threw = TRUE] \in ManagerObject
      BY <1>1, <2>1, InitUpdate
    <3>. QED  BY <2>6, <3>1 DEF InitThrows
  <2>. QED  BY <2>2, <2>3, <2>4, <2>5, <2>6
<1>5. closures' \subseteq [mgr : 1..made, n : 1..MaxInits,
                           at : {"imports", "signaling", "engine", "stack"}]
  BY <1>0, <1>3 DEF Typed
<1>6. Typed'
  <2>1. ManagerObject' = ManagerObject /\ HandsOK'
    BY <1>0, <1>2, SameTypes DEF HandsOK, HandOK
  <2>. QED  BY <1>0, <1>2, <1>4, <1>5, <2>1 DEF Typed, HandsOK, CallObject
<1>7. Fresh'
  BY <1>1, <1>2, <1>4 DEF IInv, Fresh
<1>8. CASE voip # m
  <2>1. voip # None => voip \in Managers \ {m}
    BY <1>8
  <2>2. Bound'
    BY <1>2, <1>4, <2>1 DEF IInv, Bound
  <2>3. \A q \in closures' : q.mgr = voip => q \in closures
    BY <1>0, <1>3, <1>8 DEF Typed
  <2>4. Fitted'
    BY <1>2, <1>4, <2>1, <2>3 DEF IInv, Fitted
  <2>. QED  BY <1>6, <1>7, <2>2, <2>4 DEF IInv
<1>9. CASE voip = m
  <2>. DEFINE x == mgr[m]
              y == mgr'[m]
  <2>0. voip # None
    BY <1>1, <1>9 DEF None
  <2>1. /\ x.ready => x.engine /\ x.sig # None
        /\ \A q \in closures : q.mgr = m =>
              /\ q.at # "imports" => x.sig # None
              /\ q.at \in {"engine", "stack"} => x.engine
        /\ up => sock # None /\ x.sig \in {None, sock}
    BY <1>9, <2>0 DEF IInv, Fitted, Bound
  <2>2. /\ \/ y.sig = x.sig
           \/ y.sig = sock /\ sock # None
        /\ y.engine = x.engine \/ y.engine = TRUE
        /\ y.ready => x.ready \/ (r.at = "stack" /\ y.engine = x.engine)
    BY <1>1 DEF InitReads, InitMakes, InitStacks, InitEnds, InitThrows, ManagerObject
  <2>3. /\ InitReads(r) /\ mgr' = [mgr EXCEPT ![m].sig = sock] => y.sig = sock
        /\ InitMakes(r) => y.engine = TRUE /\ y.sig = x.sig /\ x.sig # None
        /\ InitStacks(r) => y = x /\ x.engine /\ x.sig # None
    BY <1>1, <2>1 DEF InitMakes, InitStacks, ManagerObject
  <2>4. Bound'
    BY <1>2, <1>9, <2>0, <2>1, <2>2 DEF Bound
  <2>5. y.ready => y.engine /\ y.sig # None
    BY <1>1, <2>1, <2>2
  <2>6. \A q \in closures' : q.mgr = m =>
           /\ q.at # "imports" => y.sig # None
           /\ q.at \in {"engine", "stack"} => y.engine
    <3>1. CASE closures' = closures \ {r}
      BY <2>1, <2>2, <3>1
    <3>2. ASSUME NEW at \in {"signaling", "engine", "stack"},
                 closures' = (closures \ {r}) \cup {[r EXCEPT !.at = at]},
                 at = "signaling" => InitReads(r) /\ mgr' = [mgr EXCEPT ![m].sig = sock] /\ sock # None,
                 at = "engine" => InitMakes(r), at = "stack" => InitStacks(r)
          PROVE  \A q \in closures' : q.mgr = m =>
                   /\ q.at # "imports" => y.sig # None
                   /\ q.at \in {"engine", "stack"} => y.engine
      <4>1. [r EXCEPT !.at = at].at = at
        BY <1>0 DEF Typed
      <4>2. y.sig # None /\ (at \in {"engine", "stack"} => y.engine)
        BY <2>3, <3>2
      <4>. QED  BY <2>1, <2>2, <3>2, <4>1, <4>2
    <3>. QED  BY <1>3, <3>1, <3>2
  <2>7. Fitted'
    BY <1>2, <1>9, <2>5, <2>6 DEF Fitted
  <2>. QED  BY <1>6, <1>7, <2>4, <2>7 DEF IInv
<1>. QED  BY <1>8, <1>9
\* A manager the session goes on with, or a new one, is given its init.
LEMMA ManagerStarts ==
    ASSUME IInv, NEW m \in Managers, CallInit(m),
           \/ voip' = voip /\ made' = made /\ m \in 1..made /\ up' = up
           \/ voip' = m /\ m = made + 1 /\ made' = m /\ (up' => sock # None),
           UNCHANGED <<sock, socks, placed, call>>, counted' \subseteq Peers, up' \in BOOLEAN, HandsOK'
    PROVE  IInv'
<1>. USE Made
<1>0. Typed /\ closures \subseteq Closure(made')
  BY DEF IInv, Typed, Closure
<1>1. m \in 1..made' /\ made' \in 0..MaxManagers /\ voip' \in 0..made' /\ made' \in Nat
  BY <1>0, VoipAssumption DEF Typed, Managers
<1>2. /\ mgr' \in [Managers -> ManagerObject]
      /\ \A k \in Managers \ {m} : mgr'[k] = mgr[k]
      /\ \A k \in Managers : /\ mgr'[k].sig = mgr[k].sig /\ mgr'[k].ready = mgr[k].ready
                             /\ mgr'[k].engine = mgr[k].engine /\ mgr'[k].threw = mgr[k].threw
      /\ closures' \subseteq Closure(made')
      /\ \A r \in closures' \ closures : r.mgr = m /\ r.at = "imports"
  BY <1>0, <1>1, CallInitStep
<1>3. Typed'
  <2>1. ManagerObject' = ManagerObject
    BY DEF ManagerObject
  <2>. QED  BY <1>0, <1>1, <1>2, <2>1 DEF Typed, Closure, HandsOK, CallObject
<1>4. Fresh'
  BY <1>1, <1>2 DEF IInv, Fresh
<1>5. CASE voip' = voip /\ made' = made /\ up' = up
  <2>1. voip # None => voip \in Managers
    BY DEF Managers
  <2>2. Bound'
    BY <1>2, <1>5, <2>1 DEF IInv, Bound
  <2>3. Fitted'
    BY <1>2, <1>5, <2>1 DEF IInv, Fitted
  <2>. QED  BY <1>3, <1>4, <2>2, <2>3 DEF IInv
<1>6. CASE voip' = m /\ m = made + 1 /\ (up' => sock # None)
  <2>1. mgr[m] = NewManager
    BY <1>6 DEF IInv, Fresh
  <2>2. mgr'[m].sig = None /\ ~mgr'[m].ready
    BY <1>2, <2>1 DEF NewManager
  <2>3. \A r \in closures : r.mgr # m
    BY <1>0, <1>6 DEF Typed
  <2>4. Bound'
    BY <1>6, <2>2 DEF Bound, None
  <2>5. Fitted'
    BY <1>2, <1>6, <2>2, <2>3 DEF Fitted
  <2>. QED  BY <1>3, <1>4, <2>4, <2>5 DEF IInv
<1>. QED  BY <1>5, <1>6

\* The record of a command that waits for init.
LEMMA AwaitsHands ==
    ASSUME IInv, NEW h \in Handlers, NEW m \in Managers, NEW x \in HandObject',
           NEW at \in {"first", "init", "again"}, Awaits(h, m, at, x), x.peer \in Peers,
           made' \in Nat, made <= made', m \in 1..made', placed' = placed
    PROVE  HandsOK'
<1>. USE Made
<1>. DEFINE w == Awaited(m)
            y == [x EXCEPT !.at = at, !.mgr = m, !.wait = w]
<1>0. Typed /\ closures \subseteq Closure(made')
  BY DEF IInv, Typed, Closure
<1>1. w \in 0..MaxInits
  BY <1>0, CallInitStep DEF Awaits
<1>2. hand' = [hand EXCEPT ![h] = y]
  BY DEF Awaits
<1>. HIDE DEF w
<1>3. y \in HandObject' /\ HandOK(y)
  <2>1. m \in 0..made' /\ m # None
    BY DEF None
  <2>2. y \in HandObject'
    BY <1>1, <2>1 DEF HandObject
  <2>3. HandOK(y)
    BY <1>1, <2>1 DEF HandObject, HandOK
  <2>. QED  BY <2>2, <2>3
<1>4. HandObject \subseteq HandObject'
  BY <1>0, HandsWiden
<1>. HIDE DEF y
<1>5. hand' \in [Handlers -> HandObject'] /\ \A g \in Handlers : HandOK(hand'[g])
  BY <1>0, <1>2, <1>3, <1>4 DEF Typed
<1>. QED  BY <1>5 DEF HandsOK, HandOK
LEMMA WaitingCommands ==
    ASSUME IInv, NEW h \in Handlers, CallsManager(h) \/ Wakes(h) \/ Caught(h)
    PROVE  IInv'
<1>. USE Made
<1>0. Typed /\ hand[h] \in HandObject /\ HandOK(hand[h])
  BY DEF IInv, Typed
<1>1. UNCHANGED <<sock, socks, up, counted, placed, call>> /\ counted' \subseteq Peers
  BY <1>0 DEF CallsManager, Wakes, Caught, link, Typed
<1>2. up \in BOOLEAN /\ (up => sock # None)
  BY DEF IInv, Typed, Bound
<1>3. CASE UNCHANGED <<voip, made, mgr, closures>> /\ HandsOK'
  <2>1. CallStep
    BY <1>0, <1>1, <1>3, SameTypes DEF CallStep, Typed
  <2>. QED  BY <2>1, CallStepKeeps
<1>4. ASSUME NEW m \in 1..made, UNCHANGED <<voip, made>>, NEW at \in {"init", "again"},
             Awaits(h, m, at, hand[h]), hand[h].at \notin {"idle", "clear", "leave"}
      PROVE  IInv'
  <2>1. m \in Managers /\ hand[h] \in HandObject' /\ hand[h].peer \in Peers
    BY <1>0, <1>1, <1>4, SameTypes, HandsWiden DEF HandOK, HandObject
  <2>2. HandsOK'
    BY <1>1, <1>4, <2>1, AwaitsHands
  <2>. QED  BY <1>1, <1>2, <1>4, <2>1, <2>2, ManagerStarts DEF Awaits
<1>5. CASE CallsManager(h)
  <2>1. CASE voip # None /\ sock # None
    BY <1>4, <1>5, <2>1 DEF CallsManager
  <2>2. CASE ~(voip # None /\ sock # None)
    <3>1. Becomes(h, "failed") /\ UNCHANGED <<voip, made, mgr, closures>> /\ hand[h].at = "first"
      BY <1>5, <2>2 DEF CallsManager
    <3>. QED  BY <1>0, <1>1, <1>3, <3>1, BecomesStep
  <2>. QED  BY <2>1, <2>2
<1>6. CASE Wakes(h)
  <2>1. hand[h].mgr \in 1..made
    BY <1>0, <1>6 DEF Wakes, HandObject, HandOK, None
  <2>. QED  BY <1>4, <1>6, <2>1 DEF Wakes
<1>7. CASE Caught(h)
  <2>1. CASE hand[h].kind = "call" /\ ~hand[h].retried
    <3>. DEFINE m == made + 1
                x == [hand[h] EXCEPT !.retried = TRUE]
    <3>1. m \in Managers /\ made' = m /\ voip' = m /\ Awaits(h, m, "first", x)
      BY <1>7, <2>1, VoipAssumption DEF Caught, Managers
    <3>2. HandObject \subseteq HandObject'
      BY <1>0, <1>1, <3>1, HandsWiden
    <3>3. x \in HandObject' /\ x.peer \in Peers
      <4>1. x \in HandObject /\ x.peer = hand[h].peer
        BY <1>0 DEF HandObject
      <4>. QED  BY <1>0, <1>7, <3>2, <4>1 DEF HandOK, Caught
    <3>4. m \in 1..made' /\ made' \in Nat /\ made <= made'
      BY <3>1
    <3>. HIDE DEF x
    <3>5. HandsOK'
      BY <1>1, <3>1, <3>3, <3>4, AwaitsHands
    <3>. QED  BY <1>1, <1>2, <3>1, <3>5, ManagerStarts DEF Awaits
  <2>2. CASE ~(hand[h].kind = "call" /\ ~hand[h].retried)
    <3>1. hand' = [hand EXCEPT ![h] = Idle] /\ UNCHANGED <<voip, made, mgr, closures>>
      BY <1>7, <2>2 DEF Caught
    <3>2. made' \in Nat /\ made <= made' /\ placed' \in Nat /\ placed <= placed'
      BY <1>1, <3>1
    <3>. QED  BY <1>0, <1>3, <3>1, <3>2, IdleStep
  <2>. QED  BY <2>1, <2>2
<1>. QED  BY <1>5, <1>6, <1>7

LEMMA CommandStarts ==
    ASSUME IInv, NEW h \in Handlers, NEW k \in Kinds, NEW p \in Peers, Command(h, k, p)
    PROVE  IInv'
<1>. USE Made
<1>. DEFINE m == IF voip = None THEN made + 1 ELSE voip
            x == [Idle EXCEPT !.kind = k, !.peer = p]
<1>0. Typed
  BY DEF IInv
<1>1. /\ UNCHANGED <<sock, socks, up, placed, call>>
      /\ m \in Managers /\ voip' = m /\ made' = IF voip = None THEN m ELSE made
      /\ counted' \subseteq Peers
  BY <1>0 DEF Command, link, Typed
<1>2. m \in 1..made' /\ made' \in Nat /\ made <= made'
  BY <1>1 DEF Managers
<1>3. up \in BOOLEAN /\ (up => sock # None /\ voip # None)
  BY DEF IInv, Typed, Bound
<1>4. ASSUME NEW at \in {"first", "init"}, Awaits(h, m, at, x)
      PROVE  IInv'
  <2>1. x \in HandObject' /\ x.peer \in Peers
    <3>1. Idle \in HandObject'
      BY <1>0, <1>1, <1>2, HandsWiden
    <3>. QED  BY <3>1 DEF HandObject
  <2>. HIDE DEF x
  <2>2. HandsOK'
    BY <1>1, <1>2, <1>4, <2>1, AwaitsHands
  <2>. QED  BY <1>1, <1>2, <1>3, <1>4, <2>2, ManagerStarts DEF Awaits
<1>5. CASE UNCHANGED <<mgr, closures, hand>>
  <2>1. HandsOK'
    <3>1. HandObject \subseteq HandObject'
      BY <1>0, <1>1, <1>2, HandsWiden
    <3>. QED  BY <1>0, <1>5, <3>1 DEF Typed, HandsOK, HandOK
  <2>2. made' \in 0..MaxManagers /\ voip' \in 0..made' /\ 1..made \subseteq 1..made'
    BY <1>0, <1>1, <1>2, VoipAssumption DEF Managers, Typed
  <2>3. Typed'
    <3>1. ManagerObject' = ManagerObject
      BY <1>1 DEF ManagerObject
    <3>. QED  BY <1>0, <1>1, <1>5, <2>1, <2>2, <3>1 DEF Typed, HandsOK, CallObject
  <2>4. Fresh'
    BY <1>2, <1>5 DEF IInv, Fresh, Managers
  <2>5. CASE voip = None
    <3>1. mgr'[m] = NewManager
      BY <1>1, <1>5, <2>5 DEF IInv, Fresh
    <3>2. \A r \in closures' : r.mgr # m
      BY <1>0, <1>5, <2>5 DEF Typed
    <3>3. Bound' /\ Fitted'
      BY <1>1, <1>3, <2>5, <3>1, <3>2 DEF Bound, Fitted, NewManager
    <3>. QED  BY <2>3, <2>4, <3>3 DEF IInv
  <2>6. CASE voip # None
    BY <1>1, <1>5, <2>3, <2>4, <2>6 DEF IInv, Bound, Fitted
  <2>. QED  BY <2>5, <2>6
<1>6. \/ Awaits(h, m, "first", x) \/ Awaits(h, m, "init", x)
      \/ UNCHANGED <<mgr, closures, hand>>
  BY DEF Command
<1>. QED  BY <1>4, <1>5, <1>6
\* The socket.
LEMMA ConnectStep ==
    ASSUME IInv, Connect
    PROVE  IInv'
<1>. USE Made
<1>0. Typed
  BY DEF IInv
<1>1. /\ UNCHANGED <<up, voip, made, mgr, closures, counted, placed, call, hand>>
      /\ sock = None /\ sock' = socks' /\ socks' = socks + 1 /\ socks' \in 0..MaxSocks
  BY <1>0, VoipAssumption DEF Connect, Typed
<1>2. ManagerObject \subseteq ManagerObject' /\ HandObject' = HandObject
  BY <1>0, <1>1 DEF ManagerObject, HandObject, Typed
<1>3. Typed'
  BY <1>0, <1>1, <1>2 DEF Typed, CallObject, HandOK
<1>4. ~up
  BY <1>1 DEF IInv, Bound
<1>. QED  BY <1>1, <1>3, <1>4 DEF IInv, Fresh, Bound, Fitted

LEMMA OpensStep ==
    ASSUME IInv, Opens
    PROVE  IInv'
<1>. USE Made
<1>0. Typed
  BY DEF IInv
<1>. DEFINE m == made + 1
<1>1. /\ sock # None /\ up' = TRUE /\ m \in Managers /\ made' = m /\ voip' = m /\ CallInit(m)
      /\ UNCHANGED <<sock, socks, counted, placed, call, hand>>
  BY VoipAssumption DEF Opens, Managers
<1>2. HandsOK'
  <2>1. HandObject \subseteq HandObject'
    BY <1>0, <1>1, HandsWiden
  <2>. QED  BY <1>0, <1>1, <2>1 DEF Typed, HandsOK, HandOK
<1>3. counted' \subseteq Peers
  BY <1>0, <1>1 DEF Typed
<1>. QED  BY <1>1, <1>2, <1>3, ManagerStarts

LEMMA DestroyUpdate ==
    ASSUME NEW x \in ManagerObject, NEW z \in 0..socks, z \in 0..placed, z \in 0..MaxInits
    PROVE  [x EXCEPT !.cur = z, !.line = z, !.tail = FALSE, !.engine = FALSE,
                     !.sig = z, !.ready = FALSE, !.promise = z] \in ManagerObject
<1>1. [x EXCEPT !.cur = z, !.line = z, !.tail = FALSE, !.engine = FALSE] \in ManagerObject
  BY DEF ManagerObject
<1>2. \A y \in ManagerObject : [y EXCEPT !.sig = z, !.ready = FALSE, !.promise = z] \in ManagerObject
  BY DEF ManagerObject
<1>. QED  BY <1>1, <1>2

LEMMA ShutsStep ==
    ASSUME IInv, Shuts
    PROVE  IInv'
<1>1. /\ sock' = None /\ up' = FALSE
      /\ UNCHANGED <<socks, voip, made, mgr, closures, counted, placed, call, hand>>
  BY DEF Shuts
<1>2. ManagerObject' = ManagerObject /\ HandObject' = HandObject
  BY <1>1 DEF ManagerObject, HandObject
<1>3. Typed'
  BY <1>1, <1>2 DEF IInv, Typed, CallObject, HandOK
<1>. QED  BY <1>1, <1>3 DEF IInv, Fresh, Bound, Fitted

LEMMA ClosesStep ==
    ASSUME IInv, Closes
    PROVE  IInv'
<1>. USE Made
<1>0. Typed /\ HandsOK
  BY DEF IInv, Typed, HandsOK
<1>1. /\ sock' = None /\ up' = FALSE
      /\ UNCHANGED <<socks, made, closures, counted, placed, hand>>
  BY DEF Closes
<1>2. HandsOK' /\ ManagerObject' = ManagerObject
  BY <1>0, <1>1, SameTypes DEF HandsOK, HandOK
<1>3. CASE UNCHANGED <<mgr, call, voip>>
  <2>1. Typed'
    BY <1>0, <1>1, <1>2, <1>3 DEF Typed, HandsOK, CallObject
  <2>. QED  BY <1>1, <1>3, <2>1 DEF IInv, Fresh, Bound, Fitted
<1>4. CASE /\ voip # None /\ voip' = None
           /\ mgr' = [mgr EXCEPT ![voip] = Destroyed(voip)]
           /\ call' = [c \in Calls |->
                         [QuitCalls(voip, "cut")[c] EXCEPT
                             !.how = IF c = mgr[voip].line THEN "cut" ELSE @]]
  <2>1. voip \in 1..made /\ voip \in Managers
    BY <1>4
  <2>2. Destroyed(voip) \in ManagerObject
    <3>1. None \in 0..socks /\ None \in 0..placed /\ None \in 0..MaxInits
      BY VoipAssumption DEF None
    <3>2. mgr[voip] \in ManagerObject
      BY <2>1
    <3>. QED  BY ONLY <3>1, <3>2, DestroyUpdate DEF Destroyed
  <2>3. call' \in [Calls -> CallObject]
    <3>1. QuitCalls(voip, "cut") \in [Calls -> CallObject]
      BY <1>0, <2>1, QuitsStep
    <3>. QED  BY <1>4, <3>1 DEF CallObject
  <2>4. mgr' \in [Managers -> ManagerObject] /\ \A m \in Managers : m > made => mgr'[m] = mgr[m]
    BY <1>4, <2>1, <2>2
  <2>5. Typed'
    <3>1. voip' \in 0..made' /\ sock' \in {None, socks'}
      BY <1>1, <1>4 DEF None
    <3>. QED  BY <1>0, <1>1, <1>2, <2>3, <2>4, <3>1 DEF Typed, HandsOK, CallObject
  <2>6. Fresh'
    BY <1>1, <2>4 DEF IInv, Fresh
  <2>7. Bound' /\ Fitted'
    BY <1>1, <1>4 DEF Bound, Fitted
  <2>. QED  BY <2>5, <2>6, <2>7 DEF IInv
<1>. QED  BY <1>3, <1>4 DEF Closes
-----------------------------------------------------------------------------
LEMMA InitIInv == Init => IInv
<1>. SUFFICES ASSUME Init PROVE IInv
  OBVIOUS
<1>1. \A m \in Managers : mgr[m] \in ManagerObject
  BY VoipAssumption DEF Init, NewManager, ManagerObject, None
<1>2. \A c \in Calls : call[c] \in CallObject
  BY DEF Init, NewCall, CallObject
<1>3. /\ socks = 0 /\ sock = 0 /\ made = 0 /\ voip = 0 /\ placed = 0 /\ up = FALSE
      /\ closures = {} /\ counted = {} /\ hand = [h \in Handlers |-> Idle]
      /\ mgr = [m \in Managers |-> NewManager] /\ call = [c \in Calls |-> NewCall(None, FALSE)]
  BY DEF Init, None
<1>4. Idle \in HandObject /\ HandOK(Idle)
  BY <1>3, IdleObject
<1>5. /\ mgr \in [Managers -> ManagerObject] /\ call \in [Calls -> CallObject]
      /\ hand \in [Handlers -> HandObject] /\ \A h \in Handlers : HandOK(hand[h])
  BY <1>1, <1>2, <1>3, <1>4
<1>6. Typed
  <2>1. /\ socks \in 0..MaxSocks /\ sock \in {None, socks} /\ up \in BOOLEAN
        /\ made \in 0..MaxManagers /\ voip \in 0..made /\ placed \in 0..MaxCalls
    <3>1. up \in BOOLEAN
      BY <1>3
    <3>2. /\ socks \in 0..MaxSocks /\ sock \in {None, socks} /\ made \in 0..MaxManagers
          /\ voip \in 0..made /\ placed \in 0..MaxCalls
      <4>1. socks = 0 /\ sock = 0 /\ made = 0 /\ voip = 0 /\ placed = 0
        BY <1>3
      <4>. QED  BY ONLY <4>1, VoipAssumption DEF None
    <3>. QED  BY <3>1, <3>2
  <2>2. closures \subseteq [mgr : 1..made, n : 1..MaxInits,
                           at : {"imports", "signaling", "engine", "stack"}]
    BY <1>3
  <2>3. counted \subseteq Peers
    BY <1>3
  <2>. QED  BY <1>5, <2>1, <2>2, <2>3 DEF Typed
<1>. QED  BY <1>6 DEF Init, IInv, Fresh, Bound, Fitted, None

\* Every step of the specification keeps the invariant.
THEOREM CallsInductive == Spec => []IInv
<1>1. IInv /\ [Next]_vars => IInv'
  <2>. SUFFICES ASSUME IInv, [Next]_vars PROVE IInv'
    OBVIOUS
  <2>1. CASE Connect \/ Shuts \/ Opens \/ Closes
    BY <2>1, ConnectStep, ShutsStep, OpensStep, ClosesStep
  <2>2. CASE StopAll
    BY <2>2, SessionEnds, CallStepKeeps
  <2>3. ASSUME NEW r \in closures,
               InitReads(r) \/ InitMakes(r) \/ InitStacks(r) \/ InitEnds(r) \/ InitThrows(r)
        PROVE  IInv'
    BY <2>3, InitSteps
  <2>4. ASSUME NEW p \in Peers, PeerEvent(p) PROVE IInv'
    BY <2>4, SessionEnds, CallStepKeeps
  <2>5. ASSUME NEW h \in Handlers, NEW k \in Kinds, NEW p \in Peers, Command(h, k, p)
        PROVE  IInv'
    BY <2>5, CommandStarts
  <2>6. ASSUME NEW h \in Handlers, CallsManager(h) \/ Wakes(h) \/ Caught(h) PROVE IInv'
    BY <2>6, WaitingCommands
  <2>7. ASSUME NEW h \in Handlers,
               \/ Checks(h) \/ LookupThrows(h) \/ EndCommand(h) \/ Clears(h) \/ Leaves(h)
               \/ \E p \in Peers : LeaveCommand(h, p)
        PROVE  IInv'
    BY <2>7, ChecksStep, CommandSteps, SessionEnds, CallStepKeeps
  <2>8. ASSUME NEW h \in Handlers, NEW b \in BOOLEAN, Places(h, b) \/ Tells(h, b) \/ Answers(h, b)
        PROVE  IInv'
    BY <2>8, PlacesStep, CommandSteps, AnswersStep, CallStepKeeps
  <2>9. ASSUME NEW m \in Managers, LineEnds(m) \/ ReportsEnd(m)
                                   \/ \E s \in {"dialing", "connected"} : Reports(m, s)
        PROVE  IInv'
    BY <2>9, EngineSteps, CallStepKeeps
  <2>10. CASE UNCHANGED vars
    BY <2>10 DEF vars, IInv, Typed, Fresh, Bound, Fitted, ManagerObject, HandObject,
                 CallObject, HandOK
  <2>. QED  BY <2>1, <2>2, <2>3, <2>4, <2>5, <2>6, <2>7, <2>8, <2>9, <2>10 DEF Next
<1>. QED  BY <1>1, InitIInv, PTL DEF Spec

-----------------------------------------------------------------------------
\* Lines and engines.
LinesOK == \A m \in Managers : LineOK(mgr[m])

LEMMA OneLine ==
    ASSUME IInv, LinesOK, NEW m, NEW x, LineOK(x), mgr' = [mgr EXCEPT ![m] = x]
    PROVE  LinesOK'
<1>1. \A k \in Managers : mgr'[k] = mgr[k] \/ mgr'[k] = x
  BY Made
<1>. QED  BY <1>1 DEF LinesOK, LineOK

LEMMA CallInitLines ==
    ASSUME IInv, LinesOK, NEW m \in Managers, CallInit(m)
    PROVE  LinesOK'
<1>1. CASE Starts(m)
  <2>. DEFINE x == [mgr[m] EXCEPT !.inits = @ + 1, !.promise = mgr[m].inits + 1]
  <2>1. mgr' = [mgr EXCEPT ![m] = x]
    BY <1>1 DEF CallInit
  <2>2. mgr[m] \in ManagerObject
    BY Made
  <2>3. LineOK(x)
    BY <2>2 DEF LinesOK, LineOK, ManagerObject
  <2>. HIDE DEF x
  <2>. QED  BY <2>1, <2>3, OneLine
<1>2. CASE ~Starts(m)
  BY <1>2 DEF CallInit, LinesOK, LineOK
<1>. QED  BY <1>1, <1>2

\* The line goes with the call that is ended, and the engine stays.
LEMMA QuitsLine ==
    ASSUME IInv, LinesOK, NEW m \in Managers
    PROVE  LineOK(Quits(m)) /\ LineOK([Quits(m) EXCEPT !.cur = None])
<1>1. mgr[m] \in ManagerObject /\ LineOK(mgr[m])
  BY Made DEF LinesOK
<1>2. CASE Hangs(m)
  BY <1>1, <1>2 DEF Quits, LineOK, ManagerObject
<1>3. CASE ~Hangs(m)
  BY <1>1, <1>3 DEF Quits, LineOK, ManagerObject
<1>. QED  BY <1>2, <1>3

LEMMA EndLines ==
    ASSUME IInv, LinesOK, NEW by \in {"user", "peer", "cut"}, End(by)
    PROVE  LinesOK'
<1>1. CASE voip = None
  BY <1>1 DEF End, LinesOK, LineOK
<1>2. CASE voip # None
  <2>. DEFINE x == [Quits(voip) EXCEPT !.cur = None]
  <2>1. voip \in Managers
    BY <1>2, Made
  <2>2. LineOK(x)
    BY <2>1, QuitsLine
  <2>3. mgr' = [mgr EXCEPT ![voip] = x]
    BY <1>2 DEF End
  <2>. HIDE DEF x
  <2>. QED  BY <2>2, <2>3, OneLine
<1>. QED  BY <1>1, <1>2

LEMMA InitLines ==
    ASSUME IInv, LinesOK, NEW r \in closures,
           InitReads(r) \/ InitMakes(r) \/ InitStacks(r) \/ InitEnds(r) \/ InitThrows(r)
    PROVE  LinesOK'
<1>. DEFINE m == r.mgr
<1>1. m \in Managers /\ mgr[m] \in ManagerObject /\ LineOK(mgr[m])
  BY Made DEF IInv, Typed, LinesOK
<1>2. /\ LineOK([mgr[m] EXCEPT !.sig = sock])
      /\ LineOK([mgr[m] EXCEPT !.engine = TRUE, !.line = None, !.tail = FALSE])
      /\ LineOK([mgr[m] EXCEPT !.ready = TRUE])
      /\ LineOK([mgr[m] EXCEPT !.ready = FALSE, !.promise = None, !.threw = TRUE])
  BY <1>1 DEF LineOK, ManagerObject
<1>3. CASE mgr' = mgr
  BY <1>3 DEF LinesOK, LineOK
<1>. HIDE DEF m
<1>4. CASE InitReads(r) \/ InitStacks(r)
  <2>1. mgr' = mgr \/ mgr' = [mgr EXCEPT ![m] = [mgr[m] EXCEPT !.sig = sock]]
    BY <1>4 DEF InitReads, InitStacks, m
  <2>. QED  BY <1>2, <1>3, <2>1, OneLine
<1>5. CASE InitMakes(r)
  <2>1. mgr' = [mgr EXCEPT ![m] = [mgr[m] EXCEPT !.engine = TRUE, !.line = None, !.tail = FALSE]]
    BY <1>1, <1>5 DEF InitMakes, m
  <2>. QED  BY <1>2, <2>1, OneLine
<1>6. CASE InitEnds(r)
  <2>1. mgr' = [mgr EXCEPT ![m] = [mgr[m] EXCEPT !.ready = TRUE]]
    BY <1>6 DEF InitEnds, m
  <2>. QED  BY <1>2, <2>1, OneLine
<1>7. CASE InitThrows(r)
  <2>1. mgr' = [mgr EXCEPT ![m] = [mgr[m] EXCEPT !.ready = FALSE, !.promise = None, !.threw = TRUE]]
    BY <1>1, <1>7 DEF InitThrows, m
  <2>. QED  BY <1>2, <2>1, OneLine
<1>. QED  BY <1>4, <1>5, <1>6, <1>7

LEMMA CommandLines ==
    ASSUME IInv, LinesOK, NEW h \in Handlers, NEW b \in BOOLEAN,
           Checks(h) \/ Places(h, b) \/ Answers(h, b)
    PROVE  LinesOK'
<1>. DEFINE m == hand[h].mgr
            c == placed + 1
<1>1. m \in Managers /\ mgr[m] \in ManagerObject /\ LineOK(mgr[m])
  <2>1. hand[h].at \notin {"idle", "clear", "leave"}
    BY DEF Checks, Places, Answers
  <2>2. m \in Managers
    BY <2>1, Made DEF IInv, Typed, HandObject, HandOK, None
  <2>. QED  BY <2>2, Made DEF LinesOK
<1>2. CASE mgr' = mgr
  BY <1>2 DEF LinesOK, LineOK
<1>3. CASE Checks(h)
  BY <1>1, <1>2, <1>3, QuitsLine, OneLine DEF Checks
<1>4. CASE Places(h, b)
  <2>1. /\ mgr' = [mgr EXCEPT ![m] = [mgr[m] EXCEPT !.cur = c,
                       !.line = IF b /\ mgr[m].line = None THEN c ELSE mgr[m].line]]
        /\ b => mgr[m].engine
    BY <1>1, <1>4 DEF Places, ManagerObject
  <2>2. LineOK([mgr[m] EXCEPT !.cur = c, !.line = IF b /\ mgr[m].line = None THEN c ELSE mgr[m].line])
    BY <1>1, <2>1 DEF LineOK, ManagerObject
  <2>. QED  BY <2>1, <2>2, OneLine
<1>5. CASE Answers(h, b)
  <2>1. LineOK([mgr[m] EXCEPT !.cur = c])
    BY <1>1 DEF LineOK, ManagerObject
  <2>2. mgr' = mgr \/ mgr' = [mgr EXCEPT ![m] = [mgr[m] EXCEPT !.cur = c]]
    BY <1>5 DEF Answers
  <2>. QED  BY <1>2, <2>1, <2>2, OneLine
<1>. QED  BY <1>3, <1>4, <1>5

LEMMA EngineLines ==
    ASSUME IInv, LinesOK, NEW m \in Managers, LineEnds(m) \/ ReportsEnd(m)
    PROVE  LinesOK'
<1>1. mgr[m] \in ManagerObject /\ LineOK(mgr[m])
  BY Made DEF LinesOK
<1>2. LineOK([mgr[m] EXCEPT !.line = None]) /\ LineOK([mgr[m] EXCEPT !.tail = FALSE])
  BY <1>1 DEF LineOK, ManagerObject
<1>. QED  BY <1>2, OneLine DEF LineEnds, ReportsEnd

LEMMA StepKeepsLines == IInv /\ LinesOK /\ [Next]_vars => LinesOK'
<1>. SUFFICES ASSUME IInv, LinesOK, [Next]_vars PROVE LinesOK'
  OBVIOUS
<1>. USE Made
<1>1. CASE mgr' = mgr
  BY <1>1 DEF LinesOK, LineOK
<1>2. ASSUME NEW m \in Managers, CallInit(m) PROVE LinesOK'
  BY <1>2, CallInitLines
<1>3. ASSUME NEW by \in {"user", "peer", "cut"}, End(by) PROVE LinesOK'
  BY <1>3, EndLines
<1>4. CASE UNCHANGED vars \/ Connect \/ Shuts
  BY <1>1, <1>4 DEF vars, Connect, Shuts
<1>5. CASE Opens
  BY <1>2, <1>5, VoipAssumption DEF Opens, Managers
<1>6. CASE Closes
  <2>1. LineOK(Destroyed(voip)) \/ mgr' = mgr
    <3>1. CASE voip # None
      <4>1. mgr[voip] \in ManagerObject
        BY <3>1
      <4>. QED  BY <4>1 DEF Destroyed, LineOK, ManagerObject
    <3>. QED  BY <1>6, <3>1 DEF Closes
  <2>2. mgr' = mgr \/ mgr' = [mgr EXCEPT ![voip] = Destroyed(voip)]
    BY <1>6 DEF Closes
  <2>. QED  BY <1>1, <2>1, <2>2, OneLine
<1>7. CASE StopAll \/ \E p \in Peers : PeerEvent(p)
  BY <1>3, <1>7 DEF StopAll, PeerEvent
<1>8. ASSUME NEW h \in Handlers,
             \/ \E k \in Kinds, p \in Peers : Command(h, k, p)
             \/ CallsManager(h) \/ Wakes(h) \/ Caught(h)
      PROVE  LinesOK'
  <2>1. ASSUME NEW k \in Kinds, NEW p \in Peers, Command(h, k, p) PROVE LinesOK'
    BY <1>1, <1>2, <2>1 DEF Command, Awaits
  <2>2. CASE CallsManager(h)
    BY <1>1, <1>2, <2>2 DEF CallsManager, Awaits
  <2>3. CASE Wakes(h)
    <3>1. hand[h].mgr \in Managers
      BY <2>3 DEF Wakes, IInv, Typed, HandObject, HandOK, None
    <3>. QED  BY <1>2, <2>3, <3>1 DEF Wakes, Awaits
  <2>4. CASE Caught(h)
    BY <1>1, <1>2, <2>4, VoipAssumption DEF Caught, Awaits, Managers
  <2>. QED  BY <1>8, <2>1, <2>2, <2>3, <2>4
<1>9. ASSUME NEW h \in Handlers,
             \/ LookupThrows(h) \/ EndCommand(h) \/ Clears(h) \/ Leaves(h)
             \/ \E p \in Peers : LeaveCommand(h, p)
             \/ \E b \in BOOLEAN : Tells(h, b)
      PROVE  LinesOK'
  BY <1>1, <1>3, <1>9 DEF LookupThrows, EndCommand, Clears, Leaves, LeaveCommand, Tells
<1>10. ASSUME NEW h \in Handlers, NEW b \in BOOLEAN, Checks(h) \/ Places(h, b) \/ Answers(h, b)
       PROVE  LinesOK'
  BY <1>10, CommandLines
<1>11. ASSUME NEW m \in Managers,
              LineEnds(m) \/ ReportsEnd(m) \/ \E s \in {"dialing", "connected"} : Reports(m, s)
       PROVE  LinesOK'
  BY <1>1, <1>11, EngineLines DEF Reports
<1>12. ASSUME NEW h \in Handlers, Checks(h) PROVE LinesOK'
  BY <1>10, <1>12
<1>. QED  BY <1>4, <1>5, <1>6, <1>7, <1>8, <1>9, <1>10, <1>11, <1>12, InitLines DEF Next

\* TypeOK: what the session and its commands refer to was made, a manager
\* carries only calls that were placed, and one without an engine none at all:
\* destroy and a new engine take the call with them (lines 929-950, 1270-1279).
THEOREM CallsTypeOK == Spec => []TypeOK
<1>1. Init => LinesOK
  BY DEF Init, LinesOK, LineOK, NewManager, None
<1>2. Spec => []LinesOK
  BY <1>1, StepKeepsLines, CallsInductive, PTL DEF Spec
<1>3. IInv /\ LinesOK => TypeOK
  BY DEF IInv, LinesOK, TypeOK
<1>. QED  BY <1>2, <1>3, CallsInductive, PTL

\* SignalsOnLiveSocket: an online session has a manager that, once ready, has
\* an engine and signals on the session's own socket (connection 'open' makes a
\* new SessionVoipManager whatever the close before it kept).
THEOREM ReadyOnLiveSocket == Spec => []SignalsOnLiveSocket
<1>1. IInv => SignalsOnLiveSocket
  BY DEF IInv, Bound, Fitted, SignalsOnLiveSocket
<1>. QED  BY <1>1, CallsInductive, PTL

-----------------------------------------------------------------------------
\* ReadyIsComing.  A step that leaves the session its manager, what init made
\* of that, and the runs under way.
GoesOnWaiting ==
    /\ up' => up
    /\ voip' = voip
    /\ voip # None => /\ mgr'[voip].ready = mgr[voip].ready
                      /\ mgr'[voip].engine = mgr[voip].engine
                      /\ mgr'[voip].threw = mgr[voip].threw
    /\ closures \subseteq closures'

LEMMA WaitingKeepsComing ==
    ASSUME ReadyIsComing, GoesOnWaiting
    PROVE  ReadyIsComing'
BY DEF ReadyIsComing, GoesOnWaiting, Inited

\* A call of init, for a manager there is or one that is being made, takes no
\* run away and leaves what earlier runs made.
LEMMA CallInitGoesOn ==
    ASSUME IInv, NEW m \in Managers, m \in 1..(made + 1), CallInit(m)
    PROVE  /\ closures \subseteq closures'
           /\ \A k \in Managers : /\ mgr'[k].ready = mgr[k].ready
                                  /\ mgr'[k].engine = mgr[k].engine
                                  /\ mgr'[k].threw = mgr[k].threw
<1>1. made + 1 \in Nat /\ closures \subseteq Closure(made + 1)
  BY Made DEF IInv, Typed, Closure
<1>2. closures \subseteq closures'
  BY DEF CallInit
<1>. QED  BY <1>1, <1>2, Made, CallInitStep

\* A manager that is made begins a run of its init at once.
LEMMA NewManagerIsComing ==
    ASSUME IInv, made + 1 \in Managers, CallInit(made + 1), voip' = made + 1
    PROVE  ReadyIsComing'
<1>1. mgr[made + 1] = NewManager
  BY Made DEF IInv, Fresh
<1>2. Starts(made + 1)
  BY <1>1 DEF Starts, Inited, NewManager
<1>3. [mgr |-> made + 1, n |-> mgr[made + 1].inits + 1, at |-> "imports"] \in closures'
  BY <1>2 DEF CallInit
<1>. QED  BY <1>3, Made DEF ReadyIsComing, None

\* A run of an online session's manager goes on to the end, or throws.
LEMMA InitStepsKeepComing ==
    ASSUME IInv, ReadyIsComing, NEW r \in closures,
           InitReads(r) \/ InitMakes(r) \/ InitStacks(r) \/ InitEnds(r) \/ InitThrows(r)
    PROVE  ReadyIsComing'
<1>1. /\ UNCHANGED <<sock, up, voip>> /\ mgr \in [Managers -> ManagerObject]
      /\ r.mgr \in Managers /\ mgr[r.mgr] \in ManagerObject
      /\ r \in [mgr : 1..made, n : 1..MaxInits, at : {"imports", "signaling", "engine", "stack"}]
  BY Made DEF IInv, Typed, InitReads, InitMakes, InitStacks, InitEnds, InitThrows, link
<1>2. SUFFICES ASSUME up
               PROVE  Inited(voip)' \/ mgr'[voip].threw \/ \E q \in closures' : q.mgr = voip
  BY <1>1 DEF ReadyIsComing
<1>3. sock # None /\ voip \in Managers
  BY <1>2, Made DEF IInv, Bound, ReadyIsComing
<1>4. CASE r.mgr # voip
  <2>1. mgr'[voip] = mgr[voip]
    BY <1>1, <1>3, <1>4 DEF InitReads, InitMakes, InitStacks, InitEnds, InitThrows
  <2>2. closures \ {r} \subseteq closures'
    BY DEF InitReads, InitMakes, InitStacks, InitEnds, InitThrows, GoesOn, IsOver
  <2>. QED  BY <1>1, <1>2, <1>4, <2>1, <2>2 DEF ReadyIsComing, Inited
<1>5. CASE r.mgr = voip
  <2>1. CASE InitReads(r) \/ InitMakes(r) \/ InitStacks(r)
    <3>1. PICK at \in {"signaling", "engine", "stack"} : [r EXCEPT !.at = at] \in closures'
      BY <1>3, <2>1 DEF InitReads, InitMakes, InitStacks, GoesOn
    <3>2. [r EXCEPT !.at = at].mgr = voip
      BY <1>1, <1>5
    <3>. QED  BY <3>1, <3>2
  <2>2. CASE InitEnds(r)
    <3>1. mgr[voip].engine
      BY <1>3, <1>5, <2>2, Made DEF IInv, Fitted, InitEnds, None, Managers
    <3>2. mgr'[voip].ready /\ mgr'[voip].engine = mgr[voip].engine
      BY <1>1, <1>5, <2>2 DEF InitEnds, ManagerObject
    <3>. QED  BY <1>1, <3>1, <3>2 DEF Inited
  <2>3. CASE InitThrows(r)
    BY <1>1, <1>5, <2>3 DEF InitThrows, ManagerObject
  <2>. QED  BY <2>1, <2>2, <2>3
<1>. QED  BY <1>4, <1>5

\* The commands that call init.
LEMMA CommandsKeepComing ==
    ASSUME IInv, ReadyIsComing, NEW h \in Handlers,
           \/ \E k \in Kinds, p \in Peers : Command(h, k, p)
           \/ CallsManager(h) \/ Wakes(h) \/ Caught(h)
    PROVE  ReadyIsComing'
<1>. USE Made
<1>1. up' = up
  BY DEF Command, CallsManager, Wakes, Caught, link
<1>2. SUFFICES ASSUME up PROVE ReadyIsComing'
  BY <1>1 DEF ReadyIsComing
<1>3. voip # None /\ voip \in Managers /\ voip \in 1..(made + 1)
  BY <1>2 DEF ReadyIsComing
<1>4. ASSUME voip' = voip, NEW m \in Managers, m \in 1..(made + 1), CallInit(m)
      PROVE  ReadyIsComing'
  BY <1>1, <1>3, <1>4, CallInitGoesOn, WaitingKeepsComing DEF GoesOnWaiting
<1>5. ASSUME voip' = voip, UNCHANGED <<mgr, closures>>
      PROVE  ReadyIsComing'
  BY <1>1, <1>5, WaitingKeepsComing DEF GoesOnWaiting
<1>6. ASSUME NEW k \in Kinds, NEW p \in Peers, Command(h, k, p) PROVE ReadyIsComing'
  BY <1>3, <1>4, <1>5, <1>6 DEF Command, Awaits
<1>7. CASE CallsManager(h)
  BY <1>3, <1>4, <1>5, <1>7 DEF CallsManager, Awaits
<1>8. CASE Wakes(h)
  <2>1. hand[h].mgr \in Managers /\ hand[h].mgr \in 1..(made + 1)
    BY <1>8 DEF Wakes, IInv, Typed, HandObject, HandOK, None
  <2>. QED  BY <1>4, <1>8, <2>1 DEF Wakes, Awaits
<1>9. CASE Caught(h)
  <2>1. CASE made < MaxManagers /\ voip' = made + 1 /\ CallInit(made + 1)
    BY <2>1, VoipAssumption, NewManagerIsComing DEF Managers
  <2>. QED  BY <1>5, <1>9, <2>1 DEF Caught, Awaits
<1>. QED  BY <1>6, <1>7, <1>8, <1>9

LEMMA ComingStep == IInv /\ ReadyIsComing /\ [Next]_vars => ReadyIsComing'
<1>. SUFFICES ASSUME IInv, ReadyIsComing, [Next]_vars PROVE ReadyIsComing'
  OBVIOUS
<1>1. CASE CallStep
  <2>1. GoesOnWaiting
    BY <1>1, Made DEF CallStep, GoesOnWaiting
  <2>. QED  BY <2>1, WaitingKeepsComing
<1>2. CASE Shuts \/ Closes
  BY <1>2 DEF Shuts, Closes, ReadyIsComing
<1>3. CASE Connect
  BY <1>3 DEF Connect, ReadyIsComing, Inited
<1>4. CASE Opens
  BY <1>4, VoipAssumption, Made, NewManagerIsComing DEF Opens, Managers
<1>5. CASE UNCHANGED vars
  BY <1>5 DEF vars, link, ReadyIsComing, Inited
<1>6. ASSUME NEW r \in closures,
             InitReads(r) \/ InitMakes(r) \/ InitStacks(r) \/ InitEnds(r) \/ InitThrows(r)
      PROVE  ReadyIsComing'
  BY <1>6, InitStepsKeepComing
<1>7. ASSUME NEW h \in Handlers, NEW k \in Kinds, NEW p \in Peers, Command(h, k, p)
      PROVE  ReadyIsComing'
  BY <1>7, CommandsKeepComing
<1>8. ASSUME NEW h \in Handlers, CallsManager(h) \/ Wakes(h) \/ Caught(h) PROVE ReadyIsComing'
  BY <1>8, CommandsKeepComing
<1>9. ASSUME NEW h \in Handlers,
             \/ Checks(h) \/ LookupThrows(h) \/ EndCommand(h) \/ Clears(h) \/ Leaves(h)
             \/ \E p \in Peers : LeaveCommand(h, p)
             \/ \E b \in BOOLEAN : Places(h, b) \/ Tells(h, b) \/ Answers(h, b)
      PROVE  ReadyIsComing'
  BY <1>1, <1>9, ChecksStep, CommandSteps, SessionEnds, AnswersStep, PlacesStep
<1>10. CASE StopAll \/ \E p \in Peers : PeerEvent(p)
  BY <1>1, <1>10, SessionEnds
<1>11. ASSUME NEW m \in Managers,
              LineEnds(m) \/ ReportsEnd(m) \/ \E s \in {"dialing", "connected"} : Reports(m, s)
       PROVE  ReadyIsComing'
  BY <1>1, <1>11, EngineSteps
<1>. QED  BY <1>2, <1>3, <1>4, <1>5, <1>6, <1>7, <1>8, <1>9, <1>10, <1>11 DEF Next

\* The safety that ReadyAgain rests on: whatever closes, retries and runs of
\* init that found no socket came before, the manager of an online session is
\* ready, has a run of init under way, or one of its runs threw.
THEOREM ReadinessIsNeverLost == Spec => []ReadyIsComing
<1>1. Init => ReadyIsComing
  BY DEF Init, ReadyIsComing
<1>. QED  BY <1>1, ComingStep, CallsInductive, PTL DEF Spec
=============================================================================
