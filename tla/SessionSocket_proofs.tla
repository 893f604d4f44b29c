------------------------ MODULE SessionSocket_proofs ------------------------
(***************************************************************************)
(* The type invariant, SockIsLive and OnlineIsBacked of SessionSocket, for *)
(* any numbers of session objects, overlapping calls, requests and faults. *)
(* The three are inductive together: what TypeOK says of free slots makes  *)
(* the owner of a live socket an object that exists.  With them, when the  *)
(* answer of a /disconnect is final.                                       *)
(***************************************************************************)
EXTENDS SessionSocket, TLAPS

IInv == TypeOK /\ SockIsLive /\ OnlineIsBacked

Watched == {"INITIALIZING", "AWAITING_SCAN", "ONLINE", "RECONNECTING"}
Backed(s) ==
    \/ \E k \in Slots : slot[k].owner = s
    \/ timer[s] \/ leaving[s] > 0 \/ failed[s]

LEMMA Facts ==
    ASSUME IInv
    PROVE  /\ None \notin Slots /\ 0 = None /\ Gone \notin Slots /\ Gone # None
           /\ made \in Nat /\ active \in 0..made /\ made <= MaxSessions
           /\ active # None => active \in Objects
           /\ \A k \in Slots : slot[k].at # "free" =>
                 slot[k].owner \in Objects /\ slot[k].owner \in 1..made
           /\ \A s \in Objects : sock[s] \in Slots =>
                 Live(sock[s]) /\ slot[sock[s]].owner = s
           /\ \A s \in Objects : sock[s] \in Slots \cup {None, Gone}
           /\ active # None => sock[active] \in Slots \cup {None}
           /\ active # None /\ status[active] \in Watched => Backed(active)
           /\ MaxSessions \in Nat
<1>. USE SessionAssumption DEF IInv, None, Objects
<1>1. /\ made \in Nat /\ active \in 0..made /\ made <= MaxSessions
      /\ None \notin Slots /\ Gone \notin Slots /\ Gone # None
  BY DEF TypeOK, Gone
<1>2. active # None => active \in Objects
  BY <1>1 DEF TypeOK
<1>3. /\ \A s \in Objects : sock[s] \in Slots \cup {None, Gone}
      /\ active # None => sock[active] \in Slots \cup {None}
  BY <1>2 DEF TypeOK, SockIsLive
<1>4. \A k \in Slots : slot[k].at # "free" =>
         slot[k].owner \in Objects /\ slot[k].owner \in 1..made
  <2>1. \A k \in Slots : slot[k].owner \in 0..made /\ (slot[k].at = "free" <=> slot[k].owner = None)
    BY DEF TypeOK
  <2>. QED  BY <2>1, <1>1
<1>5. \A s \in Objects : sock[s] \in Slots => Live(sock[s]) /\ slot[sock[s]].owner = s
  BY DEF SockIsLive
<1>6. active # None /\ status[active] \in Watched => Backed(active)
  BY DEF OnlineIsBacked, Watched, Backed
<1>. QED  BY <1>1, <1>2, <1>3, <1>4, <1>5, <1>6

LEMMA InitKeeps == Init => IInv
<1>. SUFFICES ASSUME Init PROVE IInv
  OBVIOUS
<1>. USE SessionAssumption DEF Init, None, Objects
<1>1. \A k \in Slots : slot[k] = FreeSlot
  OBVIOUS
<1>2. TypeOK
  <2>1. slot \in [Slots -> [at : Stages, owner : 0..made, creds : Creds, pairing : BOOLEAN]]
    BY DEF FreeSlot, Stages, Creds
  <2>2. \A k \in Slots : slot[k].at = "free" <=> slot[k].owner = None
    BY DEF FreeSlot
  <2>3. status \in [Objects -> Statuses]
    BY DEF Statuses
  <2>4. timer \in [Objects -> BOOLEAN] /\ code \in [Objects -> BOOLEAN] /\ failed \in [Objects -> BOOLEAN]
    OBVIOUS
  <2>5. sock \in [Objects -> Slots \cup {None, Gone}] /\ attempts \in [Objects -> 0..MaxAttempts]
    OBVIOUS
  <2>6. booting \in BOOLEAN
    OBVIOUS
  <2>7. /\ active \in 0..made /\ made \in 0..MaxSessions
        /\ leaving \in [Objects -> Nat]
        /\ pairWait \in [Objects -> Nat] /\ pairAsked \in [Objects -> Nat]
        /\ requests \in 0..MaxRequests /\ faults \in 0..MaxFaults
    OBVIOUS
  <2>8. disk \in Creds \cup {"none"}
    BY DEF Creds
  <2>. QED  BY ONLY <2>1, <2>2, <2>3, <2>4, <2>5, <2>6, <2>7, <2>8 DEF TypeOK
<1>3. SockIsLive /\ OnlineIsBacked
  BY DEF SockIsLive, OnlineIsBacked, Gone
<1>. QED  BY <1>2, <1>3 DEF IInv

-----------------------------------------------------------------------------
\* Shutting the socket of an object frees the slot it was in, and no other.
LEMMA ShutSlots ==
    ASSUME IInv, NEW n \in Slots \cup {None, Gone}
    PROVE  /\ Shut(n) \in [Slots -> [at : Stages, owner : 0..made, creds : Creds, pairing : BOOLEAN]]
           /\ \A k \in Slots : Shut(n)[k].at = "free" <=> Shut(n)[k].owner = None
           /\ \A k \in Slots : Shut(n)[k] = IF k = n THEN FreeSlot ELSE slot[k]
<1>1. FreeSlot \in [at : Stages, owner : 0..made, creds : Creds, pairing : BOOLEAN]
  BY Facts DEF FreeSlot, Stages, Creds
<1>2. FreeSlot.at = "free" /\ FreeSlot.owner = None
  BY DEF FreeSlot
<1>. QED  BY <1>1, <1>2 DEF Shut, IInv, TypeOK

SlotType(m) == [Slots -> [at : Stages, owner : 0..m, creds : Creds, pairing : BOOLEAN]]
SlotsSettled == \A k \in Slots : slot[k].at = "free" <=> slot[k].owner = None

\* What every call of initSessionSocket that gets to its first await leaves.
LEMMA StartInitKeeps ==
    ASSUME IInv, NEW p \in BOOLEAN, NEW tm \in [Objects -> BOOLEAN], NEW sv \in BOOLEAN,
           StartInit(p, tm, sv)
    PROVE  /\ made' \in 0..MaxSessions /\ made <= made'
           /\ active' \in 0..made' /\ active' \in Objects /\ active' # None
           /\ status' \in [Objects -> Statuses]
           /\ sock' \in [Objects -> Slots \cup {None, Gone}]
           /\ timer' \in [Objects -> BOOLEAN]
           /\ slot' \in SlotType(made') /\ SlotsSettled'
           /\ SockIsLive'
           /\ \E k \in Slots : slot'[k].owner = active'
<1>. USE SessionAssumption
<1>. DEFINE s == IF active = None THEN made + 1 ELSE active
            free == {k \in Slots : slot[k].at = "free"}
            n == CHOOSE k \in free : TRUE
            new == [at |-> "reading", owner |-> s, creds |-> "fresh", pairing |-> p]
<1>1. /\ free # {} /\ s \in Objects /\ active' = s
      /\ made' = IF active = None THEN s ELSE made
      /\ status' = IF active # None THEN status
                   ELSE [status EXCEPT ![s] = IF sv THEN "INITIALIZING" ELSE "STANDBY"]
      /\ sock' = [sock EXCEPT ![s] = None]
      /\ timer' = [tm EXCEPT ![s] = FALSE]
      /\ slot' = [Shut(sock[s]) EXCEPT ![n] = new]
  BY DEF StartInit
<1>2. n \in Slots /\ slot[n].at = "free"
  BY <1>1
<1>3. /\ made \in Nat /\ made' \in 0..MaxSessions /\ made <= made'
      /\ s \in 1..made' /\ s # None
  BY <1>1, Facts DEF Objects, None
<1>4. new \in [at : Stages, owner : 0..made', creds : Creds, pairing : BOOLEAN]
      /\ new.at = "reading" /\ new.owner = s
  <2>1. s \in 0..made'
    BY <1>3
  <2>. HIDE DEF s
  <2>. QED  BY <2>1 DEF Stages, Creds
<1>5. sock[s] \in Slots \cup {None, Gone}
  BY <1>1 DEF IInv, TypeOK
<1>. HIDE DEF s, n, new, free
<1>6. \A k \in Slots : slot'[k] = IF k = n THEN new
                                  ELSE IF k = sock[s] THEN FreeSlot ELSE slot[k]
  BY <1>1, <1>2, <1>5, ShutSlots
<1>7. slot' \in SlotType(made')
  <2>1. \A k \in Slots : Shut(sock[s])[k] \in [at : Stages, owner : 0..made', creds : Creds, pairing : BOOLEAN]
    <3>1. Shut(sock[s]) \in SlotType(made)
      BY <1>5, ShutSlots DEF SlotType
    <3>2. 0..made \subseteq 0..made'
      BY <1>3
    <3>. QED  BY <3>1, <3>2 DEF SlotType
  <2>2. DOMAIN Shut(sock[s]) = Slots
    BY DEF Shut
  <2>. QED  BY <1>1, <1>4, <2>1, <2>2 DEF SlotType, Shut
<1>8. SlotsSettled'
  <2>1. \A k \in Slots : Shut(sock[s])[k].at = "free" <=> Shut(sock[s])[k].owner = None
    BY <1>5, ShutSlots
  <2>2. \A k \in Slots \ {n} : slot'[k] = Shut(sock[s])[k]
    BY <1>5, <1>6, ShutSlots
  <2>. QED  BY <1>3, <1>4, <1>6, <2>1, <2>2 DEF SlotsSettled
<1>9. SockIsLive'
  <2>0. active' = s /\ sock'[s] = None /\ Gone # None
    BY <1>1, Facts DEF IInv, TypeOK
  <2>. SUFFICES ASSUME NEW t \in Objects, sock'[t] \in Slots
                PROVE  /\ slot'[sock'[t]].at \in {"connecting", "open"}
                       /\ slot'[sock'[t]].owner = t
    BY <2>0 DEF SockIsLive, Live
  <2>1. t # s /\ sock'[t] = sock[t]
    BY <1>1, <2>0, Facts DEF IInv, TypeOK
  <2>2. sock[t] \in Slots /\ Live(sock[t]) /\ slot[sock[t]].owner = t
    BY <2>1, Facts
  <2>3. sock[t] # sock[s] /\ sock[t] # n
    <3>1. sock[s] \in Slots => slot[sock[s]].owner = s
      BY <1>1, Facts
    <3>. QED  BY <1>2, <2>1, <2>2, <3>1 DEF Live
  <2>. QED  BY <1>6, <2>1, <2>2, <2>3 DEF Live
<1>10. /\ status' \in [Objects -> Statuses]
       /\ sock' \in [Objects -> Slots \cup {None, Gone}]
       /\ timer' \in [Objects -> BOOLEAN]
  BY <1>1 DEF IInv, TypeOK, Statuses
<1>. QED  BY <1>1, <1>2, <1>3, <1>4, <1>6, <1>7, <1>8, <1>9, <1>10

\* ... and that it keeps the invariant, whatever its caller does to the rest.
LEMMA StartInitInv ==
    ASSUME IInv, NEW p \in BOOLEAN, NEW tm \in [Objects -> BOOLEAN], NEW sv \in BOOLEAN,
           StartInit(p, tm, sv),
           attempts' \in [Objects -> 0..MaxAttempts], code' \in [Objects -> BOOLEAN],
           failed' = failed, disk' \in Creds \cup {"none"}, leaving' = leaving,
           pairWait' \in [Objects -> Nat], pairAsked' = pairAsked, booting' \in BOOLEAN,
           requests' \in 0..MaxRequests, faults' \in 0..MaxFaults
    PROVE  IInv'
<1>1. /\ made' \in 0..MaxSessions /\ made <= made' /\ made \in Nat
      /\ active' \in 0..made' /\ active' \in 1..made'
      /\ status' \in [Objects -> Statuses]
      /\ sock' \in [Objects -> Slots \cup {None, Gone}]
      /\ timer' \in [Objects -> BOOLEAN]
      /\ slot' \in SlotType(made') /\ SlotsSettled'
      /\ SockIsLive'
      /\ \E k \in Slots : slot'[k].owner = active'
  BY StartInitKeeps, Facts DEF None
<1>2. leaving' \in [Objects -> Nat] /\ pairAsked' \in [Objects -> Nat]
  BY DEF IInv, TypeOK
<1>3. failed' \in [Objects -> BOOLEAN]
  BY DEF IInv, TypeOK
<1>4. TypeOK'
  BY <1>1, <1>2, <1>3 DEF TypeOK, SlotType, SlotsSettled
<1>5. OnlineIsBacked'
  BY <1>1 DEF OnlineIsBacked
<1>. QED  BY <1>1, <1>4, <1>5 DEF IInv

LEMMA ForgetTypes ==
    ASSUME IInv, ForgetAttempts
    PROVE  attempts' \in [Objects -> 0..MaxAttempts] /\ code' \in [Objects -> BOOLEAN]
<1>. USE SessionAssumption
<1>1. attempts \in [Objects -> 0..MaxAttempts] /\ code \in [Objects -> BOOLEAN]
  BY DEF IInv, TypeOK
<1>2. 0 \in 0..MaxAttempts
  OBVIOUS
<1>. QED  BY <1>1, <1>2 DEF ForgetAttempts

\* The types of what a caller of StartInit may leave alone.
LEMMA RestTypes ==
    ASSUME IInv
    PROVE  /\ timer \in [Objects -> BOOLEAN] /\ HasSavedAuthCreds \in BOOLEAN
           /\ attempts \in [Objects -> 0..MaxAttempts] /\ code \in [Objects -> BOOLEAN]
           /\ disk \in Creds \cup {"none"} /\ booting \in BOOLEAN
           /\ pairWait \in [Objects -> Nat]
           /\ requests \in 0..MaxRequests /\ faults \in 0..MaxFaults
<1>1. HasSavedAuthCreds \in BOOLEAN
  BY DEF HasSavedAuthCreds
<1>. QED  BY <1>1 DEF IInv, TypeOK

LEMMA TimersKeep ==
    ASSUME IInv, NEW s \in Objects, TimerFires(s)
    PROVE  IInv'
<1>. USE SessionAssumption
<1>. DEFINE off == [timer EXCEPT ![s] = FALSE]
<1>1. off \in [Objects -> BOOLEAN]
  BY DEF IInv, TypeOK
<1>2. UNCHANGED <<attempts, code, failed, disk, waits, booting, counts>>
  BY DEF TimerFires
<1>3. CASE active # None /\ status[active] # "LOGGED_OUT"
  <2>1. StartInit(FALSE, off, HasSavedAuthCreds)
    BY <1>3 DEF TimerFires
  <2>2. /\ attempts' = attempts /\ code' = code /\ failed' = failed /\ disk' = disk
        /\ leaving' = leaving /\ pairWait' = pairWait /\ pairAsked' = pairAsked
        /\ booting' = booting /\ requests' = requests /\ faults' = faults
    BY <1>2 DEF counts, waits
  <2>. HIDE DEF off
  <2>. QED  BY <1>1, <2>1, <2>2, RestTypes, StartInitInv
<1>4. CASE ~(active # None /\ status[active] # "LOGGED_OUT")
  <2>1. timer' = off /\ UNCHANGED <<active, made, status, sock, slot>>
    BY <1>4 DEF TimerFires
  <2>. HIDE DEF off
  <2>2. TypeOK'
    BY <1>1, <1>2, <2>1 DEF IInv, TypeOK, counts, waits
  <2>3. SockIsLive'
    BY <2>1 DEF IInv, SockIsLive, Live
  <2>4. OnlineIsBacked'
    BY <1>4, <2>1 DEF OnlineIsBacked
  <2>. QED  BY <2>2, <2>3, <2>4 DEF IInv
<1>. QED  BY <1>3, <1>4

LEMMA StartersKeep ==
    ASSUME IInv, InitRequest \/ StatusRequest \/ RefreshQr \/ Pair \/ AutoResume
    PROVE  IInv'
<1>. USE SessionAssumption
<1>1. /\ timer \in [Objects -> BOOLEAN] /\ HasSavedAuthCreds \in BOOLEAN
      /\ attempts \in [Objects -> 0..MaxAttempts] /\ code \in [Objects -> BOOLEAN]
      /\ disk \in Creds \cup {"none"} /\ booting \in BOOLEAN
      /\ pairWait \in [Objects -> Nat]
      /\ requests \in 0..MaxRequests /\ faults \in 0..MaxFaults
  BY RestTypes
<1>2. ASSUME Requested PROVE requests' \in 0..MaxRequests /\ faults' \in 0..MaxFaults
  BY <1>1, <1>2 DEF Requested
<1>3. CASE InitRequest
  BY <1>1, <1>2, <1>3, StartInitInv DEF InitRequest, waits
<1>4. CASE StatusRequest
  BY <1>1, <1>2, <1>4, StartInitInv DEF StatusRequest, waits
<1>5. CASE RefreshQr
  <2>1. /\ Requested /\ StartInit(FALSE, timer, FALSE) /\ ForgetAttempts
        /\ disk' = "none" /\ UNCHANGED <<failed, leaving, pairWait, pairAsked, booting>>
    BY <1>5 DEF RefreshQr, waits
  <2>2. disk' \in Creds \cup {"none"} /\ booting' \in BOOLEAN
    BY <2>1 DEF IInv, TypeOK
  <2>. QED  BY <1>1, <1>2, <2>1, <2>2, ForgetTypes, StartInitInv
<1>6. CASE Pair
  <2>. DEFINE purges == ~HasSavedAuthCreds \/ (active # None /\ status[active] # "ONLINE")
  <2>1. /\ Requested /\ StartInit(TRUE, timer, HasSavedAuthCreds /\ ~purges) /\ ForgetAttempts
        /\ disk' = IF purges THEN "none" ELSE disk
        /\ pairWait' = [pairWait EXCEPT ![active'] = @ + 1]
        /\ UNCHANGED <<failed, leaving, pairAsked, booting>>
    BY <1>6 DEF Pair
  <2>4. pairWait' \in [Objects -> Nat]
    <3>1. active' \in Objects /\ pairWait \in [Objects -> Nat]
      BY <1>1, <2>1 DEF StartInit
    <3>. QED  BY <2>1, <3>1
  <2>2. disk' \in Creds \cup {"none"} /\ booting' \in BOOLEAN
    BY <2>1 DEF IInv, TypeOK
  <2>3. (HasSavedAuthCreds /\ ~purges) \in BOOLEAN
    BY DEF HasSavedAuthCreds
  <2>. HIDE DEF purges
  <2>. QED  BY <1>1, <1>2, <2>1, <2>2, <2>3, <2>4, ForgetTypes, StartInitInv
<1>7. CASE AutoResume
  <2>1. /\ booting' = FALSE
        /\ UNCHANGED <<attempts, code, failed, disk, waits, counts>>
    BY <1>7 DEF AutoResume
  <2>2. CASE disk # "none"
    <3>1. StartInit(FALSE, timer, HasSavedAuthCreds)
      BY <1>7, <2>2 DEF AutoResume
    <3>2. /\ attempts' = attempts /\ code' = code /\ failed' = failed /\ disk' = disk
          /\ leaving' = leaving /\ pairWait' = pairWait /\ pairAsked' = pairAsked
          /\ booting' \in BOOLEAN /\ requests' = requests /\ faults' = faults
      BY <2>1 DEF counts, waits
    <3>. QED  BY <1>1, <3>1, <3>2, StartInitInv
  <2>3. CASE disk = "none"
    <3>1. UNCHANGED <<active, made, status, sock, timer, slot>>
      BY <1>7, <2>3 DEF AutoResume
    <3>2. TypeOK'
      BY <2>1, <3>1 DEF IInv, TypeOK, counts, waits
    <3>3. SockIsLive' /\ OnlineIsBacked'
      BY <2>1, <3>1 DEF IInv, SockIsLive, Live, OnlineIsBacked, waits
    <3>. QED  BY <3>2, <3>3 DEF IInv
  <2>. QED  BY <2>2, <2>3
<1>. QED  BY <1>3, <1>4, <1>5, <1>6, <1>7

-----------------------------------------------------------------------------
\* A slot in use that moves to another stage or gets other credentials keeps
\* its owner, and no reference to a socket is lost if a socket stays one.
LEMMA SlotMoves ==
    ASSUME IInv, NEW k \in Slots, NEW a \in Stages \ {"free"}, NEW c \in Creds,
           slot[k].at # "free", Live(k) => a \in {"connecting", "open"},
           slot' = [slot EXCEPT ![k].at = a, ![k].creds = c], made' = made
    PROVE  /\ slot' \in SlotType(made') /\ SlotsSettled'
           /\ \A j \in Slots : slot'[j].owner = slot[j].owner
           /\ \A j \in Slots : Live(j) => slot'[j].at \in {"connecting", "open"}
           /\ slot'[k].at = a
<1>1. slot \in SlotType(made) /\ SlotsSettled
  BY DEF IInv, TypeOK, SlotType, SlotsSettled
<1>2. slot'[k] = [slot[k] EXCEPT !.at = a, !.creds = c]
  BY <1>1 DEF SlotType
<1>3. \A j \in Slots \ {k} : slot'[j] = slot[j]
  BY <1>1 DEF SlotType
<1>4. slot' \in SlotType(made')
  BY <1>1 DEF SlotType
<1>5. slot'[k].at = a /\ slot'[k].owner = slot[k].owner
  BY <1>1, <1>2 DEF SlotType
<1>6. SlotsSettled'
  BY <1>1, <1>3, <1>5 DEF SlotsSettled
<1>. QED  BY <1>3, <1>4, <1>5, <1>6 DEF Live

LEMMA SameSocks ==
    ASSUME IInv, sock' = sock, active' = active,
           \A j \in Slots : slot'[j].owner = slot[j].owner,
           \A j \in Slots : Live(j) => slot'[j].at \in {"connecting", "open"}
    PROVE  SockIsLive'
<1>. SUFFICES ASSUME NEW s \in Objects, sock'[s] \in Slots
              PROVE  /\ slot'[sock'[s]].at \in {"connecting", "open"}
                     /\ slot'[sock'[s]].owner = s
  BY DEF IInv, SockIsLive, Live
<1>1. sock[s] \in Slots /\ Live(sock[s]) /\ slot[sock[s]].owner = s
  BY Facts
<1>. QED  BY <1>1

\* The references that stay when the socket n is shut: those to other sockets.
LEMMA SlotShut ==
    ASSUME IInv, NEW n \in Slots \cup {None, Gone}, slot' = Shut(n), made' = made,
           NEW S \in SUBSET Objects,
           sock' \in [Objects -> Slots \cup {None, Gone}],
           \A s \in S : sock'[s] \in {None, Gone},
           \A s \in Objects \ S : sock'[s] = sock[s] /\ (sock[s] \in Slots => sock[s] # n),
           \A s \in Objects : sock'[s] = Gone => s # active'
    PROVE  /\ slot' \in SlotType(made') /\ SlotsSettled'
           /\ SockIsLive'
           /\ \A j \in Slots : j # n => slot'[j] = slot[j]
<1>1. /\ slot' \in SlotType(made') /\ SlotsSettled'
      /\ \A j \in Slots : j # n => slot'[j] = slot[j]
  <2>1. /\ Shut(n) \in SlotType(made)
        /\ \A k \in Slots : Shut(n)[k].at = "free" <=> Shut(n)[k].owner = None
        /\ \A k \in Slots : Shut(n)[k] = IF k = n THEN FreeSlot ELSE slot[k]
    BY ShutSlots DEF SlotType
  <2>2. slot' \in SlotType(made')
    BY <2>1
  <2>3. SlotsSettled'
    BY <2>1 DEF SlotsSettled
  <2>. QED  BY <2>1, <2>2, <2>3
<1>2. SockIsLive'
  <2>. SUFFICES ASSUME NEW s \in Objects, sock'[s] \in Slots
                PROVE  /\ slot'[sock'[s]].at \in {"connecting", "open"}
                       /\ slot'[sock'[s]].owner = s
    BY DEF SockIsLive, Live
  <2>1. s \notin S /\ sock'[s] = sock[s] /\ sock[s] # n /\ sock[s] \in Slots
    BY Facts
  <2>2. sock[s] \in Slots /\ Live(sock[s]) /\ slot[sock[s]].owner = s
    BY <2>1, Facts
  <2>3. slot'[sock[s]] = slot[sock[s]]
    BY <1>1, <2>1, <2>2
  <2>. QED  BY <2>1, <2>2, <2>3 DEF Live
<1>. QED  BY <1>1, <1>2

\* Objects refer to sockets of their own, so no two of them share one.
LEMMA OwnSockets ==
    ASSUME IInv, NEW s \in Objects, NEW k \in Slots, slot[k].owner = s
    PROVE  \A t \in Objects \ {s} : sock[t] \in Slots => sock[t] # k
BY Facts

LEMMA InitReadsKeeps ==
    ASSUME IInv, NEW k \in Slots, InitReads(k) PROVE IInv'
<1>. DEFINE c == IF disk = "none" THEN "fresh" ELSE disk
<1>1. /\ slot[k].at = "reading"
      /\ slot' = [slot EXCEPT ![k].at = "preparing", ![k].creds = c]
      /\ active' = active /\ made' = made /\ status' = status /\ sock' = sock
      /\ timer' = timer /\ attempts' = attempts /\ code' = code /\ failed' = failed
      /\ disk' = disk /\ leaving' = leaving /\ pairWait' = pairWait /\ pairAsked' = pairAsked
      /\ booting' = booting /\ requests' = requests /\ faults' = faults
  BY DEF InitReads, object, counts, waits
<1>2. c \in Creds
  BY DEF IInv, TypeOK, Creds
<1>. HIDE DEF c
<1>3. /\ slot' \in SlotType(made') /\ SlotsSettled'
      /\ \A j \in Slots : slot'[j].owner = slot[j].owner
      /\ \A j \in Slots : Live(j) => slot'[j].at \in {"connecting", "open"}
  <2>1. "preparing" \in Stages \ {"free"} /\ ~Live(k) /\ slot[k].at # "free"
    BY <1>1 DEF Stages, Live
  <2>. QED  BY <1>1, <1>2, <2>1, SlotMoves
<1>4. TypeOK'
  BY <1>1, <1>3 DEF IInv, TypeOK, SlotType, SlotsSettled
<1>5. SockIsLive'
  BY <1>1, <1>3, SameSocks
<1>6. OnlineIsBacked'
  BY <1>1, <1>3 DEF IInv, OnlineIsBacked
<1>. QED  BY <1>4, <1>5, <1>6 DEF IInv

LEMMA InitMakesKeeps ==
    ASSUME IInv, NEW k \in Slots, InitMakes(k) PROVE IInv'
<1>. DEFINE s == slot[k].owner
<1>1. /\ slot[k].at = "preparing"
      /\ slot' = [slot EXCEPT ![k].at = "connecting"]
      /\ sock' = [sock EXCEPT ![s] = k]
      /\ active' = active /\ made' = made /\ status' = status
      /\ timer' = timer /\ attempts' = attempts /\ code' = code /\ failed' = failed
      /\ disk' = disk /\ leaving' = leaving /\ pairWait' = pairWait /\ pairAsked' = pairAsked
      /\ booting' = booting /\ requests' = requests /\ faults' = faults
  BY DEF InitMakes, counts, waits
<1>2. s \in Objects /\ slot[k].creds \in Creds
  <2>1. s \in Objects
    BY <1>1, Facts
  <2>. HIDE DEF s
  <2>. QED  BY <2>1 DEF IInv, TypeOK
<1>3. slot' = [slot EXCEPT ![k].at = "connecting", ![k].creds = slot[k].creds]
  <2>1. slot[k] \in [at : Stages, owner : 0..made, creds : Creds, pairing : BOOLEAN]
    BY DEF IInv, TypeOK
  <2>2. [slot[k] EXCEPT !.at = "connecting"]
           = [slot[k] EXCEPT !.at = "connecting", !.creds = slot[k].creds]
    BY <2>1
  <2>. QED  BY <1>1, <2>2
<1>4. /\ slot' \in SlotType(made') /\ SlotsSettled'
      /\ \A j \in Slots : slot'[j].owner = slot[j].owner
      /\ \A j \in Slots : Live(j) => slot'[j].at \in {"connecting", "open"}
      /\ slot'[k].at = "connecting"
  <2>1. "connecting" \in Stages \ {"free"} /\ slot[k].at # "free"
    BY <1>1 DEF Stages
  <2>. QED  BY <1>1, <1>2, <1>3, <2>1, SlotMoves
<1>. HIDE DEF s
<1>5. sock' \in [Objects -> Slots \cup {None, Gone}] /\ \A t \in Objects : sock'[t] = IF t = s THEN k ELSE sock[t]
  BY <1>1, <1>2 DEF IInv, TypeOK
<1>6. TypeOK'
  BY <1>1, <1>4, <1>5 DEF IInv, TypeOK, SlotType, SlotsSettled
<1>7. SockIsLive'
  <2>0. \A t \in Objects : sock'[t] = Gone => t # active'
    BY <1>1, <1>5, Facts DEF IInv, SockIsLive
  <2>. SUFFICES ASSUME NEW t \in Objects, sock'[t] \in Slots
                PROVE  /\ slot'[sock'[t]].at \in {"connecting", "open"}
                       /\ slot'[sock'[t]].owner = t
    BY <2>0 DEF SockIsLive, Live
  <2>1. CASE t = s
    BY <1>4, <1>5, <2>1 DEF s
  <2>2. CASE t # s
    BY <1>4, <1>5, <2>2, Facts
  <2>. QED  BY <2>1, <2>2
<1>8. OnlineIsBacked'
  BY <1>1, <1>4 DEF IInv, OnlineIsBacked
<1>. QED  BY <1>6, <1>7, <1>8 DEF IInv

LEMMA InitFailsKeeps ==
    ASSUME IInv, NEW k \in Slots, InitFails(k) PROVE IInv'
<1>. USE SessionAssumption
<1>1. /\ Initing(k) /\ faults < MaxFaults /\ faults' = faults + 1
      /\ slot' = Shut(k) /\ failed' = [failed EXCEPT ![slot[k].owner] = TRUE]
      /\ active' = active /\ made' = made /\ status' = status /\ sock' = sock
      /\ timer' = timer /\ attempts' = attempts /\ code' = code
      /\ disk' = disk /\ leaving' = leaving /\ pairWait' = pairWait /\ pairAsked' = pairAsked
      /\ booting' = booting /\ requests' = requests
  BY DEF InitFails, waits
<1>2. /\ slot' \in SlotType(made') /\ SlotsSettled' /\ SockIsLive'
      /\ \A j \in Slots : j # k => slot'[j] = slot[j]
  <2>1. \A s \in Objects : sock[s] \in Slots => sock[s] # k
    BY <1>1, Facts DEF Live, Initing
  <2>2. sock' \in [Objects -> Slots \cup {None, Gone}]
    BY <1>1 DEF IInv, TypeOK
  <2>. DEFINE S == {}
  <2>3. S \in SUBSET Objects /\ \A s \in S : sock'[s] \in {None, Gone}
    OBVIOUS
  <2>4. \A s \in Objects \ S : sock'[s] = sock[s] /\ (sock[s] \in Slots => sock[s] # k)
    BY <1>1, <2>1
  <2>. HIDE DEF S
  <2>5. \A s \in Objects : sock'[s] = Gone => s # active'
    BY <1>1 DEF IInv, SockIsLive
  <2>. QED  BY <1>1, <2>2, <2>3, <2>4, <2>5, SlotShut
<1>3. failed' \in [Objects -> BOOLEAN] /\ faults' \in 0..MaxFaults
  <2>1. failed \in [Objects -> BOOLEAN] /\ faults \in 0..MaxFaults
    BY DEF IInv, TypeOK
  <2>2. faults' \in 0..MaxFaults
    BY <1>1, <2>1
  <2>3. failed' \in [Objects -> BOOLEAN]
    BY <1>1, <2>1
  <2>. QED  BY <2>2, <2>3
<1>4. TypeOK'
  BY <1>1, <1>2, <1>3 DEF IInv, TypeOK, SlotType, SlotsSettled
<1>5. OnlineIsBacked'
  <2>. SUFFICES ASSUME active # None, status[active] \in Watched
                PROVE  \/ \E j \in Slots : slot'[j].owner = active
                       \/ timer[active] \/ leaving[active] > 0 \/ failed'[active]
    BY <1>1 DEF OnlineIsBacked, Watched
  <2>1. active \in Objects /\ Backed(active)
    BY Facts
  <2>2. CASE slot[k].owner = active
    BY <1>1, <2>1, <2>2 DEF IInv, TypeOK
  <2>3. CASE slot[k].owner # active
    <3>1. failed[active] => failed'[active]
      BY <1>1, <2>1 DEF IInv, TypeOK
    <3>. QED  BY <1>2, <2>1, <2>3, <3>1 DEF Backed
  <2>. QED  BY <2>2, <2>3
<1>. QED  BY <1>2, <1>4, <1>5 DEF IInv

LEMMA SavesCredsKeeps ==
    ASSUME IInv, NEW k \in Slots, SavesCreds(k) PROVE IInv'
<1>1. /\ disk' = slot[k].creds /\ slot' = slot
      /\ active' = active /\ made' = made /\ status' = status /\ sock' = sock
      /\ timer' = timer /\ attempts' = attempts /\ code' = code /\ failed' = failed
      /\ leaving' = leaving /\ pairWait' = pairWait /\ pairAsked' = pairAsked
      /\ booting' = booting /\ requests' = requests /\ faults' = faults
  BY DEF SavesCreds, object, counts, waits
<1>2. disk' \in Creds \cup {"none"}
  BY <1>1 DEF IInv, TypeOK
<1>3. TypeOK'
  BY <1>1, <1>2 DEF IInv, TypeOK
<1>4. SockIsLive' /\ OnlineIsBacked'
  BY <1>1 DEF IInv, SockIsLive, Live, OnlineIsBacked
<1>. QED  BY <1>3, <1>4 DEF IInv

LEMMA QrKeeps ==
    ASSUME IInv, NEW k \in Slots, Qr(k) PROVE IInv'
<1>. USE SessionAssumption
<1>. DEFINE s == slot[k].owner
<1>1. /\ slot[k].at = "connecting" /\ slot' = slot
      /\ status' = [status EXCEPT ![s] = "AWAITING_SCAN"]
      /\ attempts' = [attempts EXCEPT ![s] = IF @ < MaxAttempts THEN @ + 1 ELSE @]
      /\ active' = active /\ made' = made /\ sock' = sock
      /\ timer' = timer /\ code' = code /\ failed' = failed
      /\ disk' = disk /\ leaving' = leaving /\ pairWait' = pairWait /\ pairAsked' = pairAsked
      /\ booting' = booting /\ requests' = requests /\ faults' = faults
  BY DEF Qr, counts, waits
<1>2. s \in Objects
  BY <1>1, Facts
<1>. HIDE DEF s
<1>3. status' \in [Objects -> Statuses] /\ attempts' \in [Objects -> 0..MaxAttempts]
  <2>1. status \in [Objects -> Statuses] /\ attempts \in [Objects -> 0..MaxAttempts]
    BY DEF IInv, TypeOK
  <2>2. \A a \in 0..MaxAttempts : (IF a < MaxAttempts THEN a + 1 ELSE a) \in 0..MaxAttempts
    OBVIOUS
  <2>. QED  BY <1>1, <1>2, <2>1, <2>2 DEF Statuses
<1>4. TypeOK'
  BY <1>1, <1>3 DEF IInv, TypeOK
<1>5. SockIsLive'
  BY <1>1 DEF IInv, SockIsLive, Live
<1>6. OnlineIsBacked'
  <2>1. CASE active = s
    BY <1>1, <2>1 DEF OnlineIsBacked, s
  <2>2. CASE active # s
    <3>1. active # None => status'[active] = status[active]
      BY <1>1, <2>2, Facts DEF IInv, TypeOK
    <3>. QED  BY <1>1, <3>1 DEF IInv, OnlineIsBacked
  <2>. QED  BY <2>1, <2>2
<1>. QED  BY <1>4, <1>5, <1>6 DEF IInv

LEMMA ScannedKeeps ==
    ASSUME IInv, NEW k \in Slots, Scanned(k) PROVE IInv'
<1>1. /\ slot[k].at = "connecting" /\ slot' = [slot EXCEPT ![k].creds = "linked"]
      /\ disk' = "linked"
      /\ active' = active /\ made' = made /\ status' = status /\ sock' = sock
      /\ timer' = timer /\ attempts' = attempts /\ code' = code /\ failed' = failed
      /\ leaving' = leaving /\ pairWait' = pairWait /\ pairAsked' = pairAsked
      /\ booting' = booting /\ requests' = requests /\ faults' = faults
  BY DEF Scanned, object, counts, waits
<1>2. slot' = [slot EXCEPT ![k].at = "connecting", ![k].creds = "linked"]
  <2>1. slot[k] \in [at : Stages, owner : 0..made, creds : Creds, pairing : BOOLEAN]
    BY DEF IInv, TypeOK
  <2>2. [slot[k] EXCEPT !.creds = "linked"]
           = [slot[k] EXCEPT !.at = "connecting", !.creds = "linked"]
    BY <1>1, <2>1
  <2>. QED  BY <1>1, <2>2
<1>3. /\ slot' \in SlotType(made') /\ SlotsSettled'
      /\ \A j \in Slots : slot'[j].owner = slot[j].owner
      /\ \A j \in Slots : Live(j) => slot'[j].at \in {"connecting", "open"}
  <2>1. "connecting" \in Stages \ {"free"} /\ "linked" \in Creds /\ slot[k].at # "free"
    BY <1>1 DEF Stages, Creds
  <2>. QED  BY <1>1, <1>2, <2>1, SlotMoves
<1>4. TypeOK'
  BY <1>1, <1>3 DEF IInv, TypeOK, SlotType, SlotsSettled, Creds
<1>5. SockIsLive'
  BY <1>1, <1>3, SameSocks
<1>6. OnlineIsBacked'
  BY <1>1, <1>3 DEF IInv, OnlineIsBacked
<1>. QED  BY <1>4, <1>5, <1>6 DEF IInv

LEMMA OpenKeeps ==
    ASSUME IInv, NEW k \in Slots, Open(k) PROVE IInv'
<1>. USE SessionAssumption
<1>. DEFINE s == slot[k].owner
<1>1. /\ slot[k].at = "connecting" /\ slot' = [slot EXCEPT ![k].at = "open"]
      /\ status' = [status EXCEPT ![s] = "ONLINE"]
      /\ timer' = [timer EXCEPT ![s] = FALSE]
      /\ attempts' = [attempts EXCEPT ![s] = 0]
      /\ code' = [code EXCEPT ![s] = FALSE]
      /\ failed' = [failed EXCEPT ![s] = FALSE]
      /\ active' = active /\ made' = made /\ sock' = sock
      /\ disk' = disk /\ leaving' = leaving /\ pairWait' = pairWait /\ pairAsked' = pairAsked
      /\ booting' = booting /\ requests' = requests /\ faults' = faults
  BY DEF Open, counts, waits
<1>2. s \in Objects
  BY <1>1, Facts
<1>3. slot' = [slot EXCEPT ![k].at = "open", ![k].creds = slot[k].creds]
  <2>1. slot[k] \in [at : Stages, owner : 0..made, creds : Creds, pairing : BOOLEAN]
    BY DEF IInv, TypeOK
  <2>2. [slot[k] EXCEPT !.at = "open"]
           = [slot[k] EXCEPT !.at = "open", !.creds = slot[k].creds]
    BY <2>1
  <2>. QED  BY <1>1, <2>2
<1>4. /\ slot' \in SlotType(made') /\ SlotsSettled'
      /\ \A j \in Slots : slot'[j].owner = slot[j].owner
      /\ \A j \in Slots : Live(j) => slot'[j].at \in {"connecting", "open"}
  <2>1. "open" \in Stages \ {"free"} /\ slot[k].at # "free"
    BY <1>1 DEF Stages
  <2>2. slot[k].creds \in Creds
    BY DEF IInv, TypeOK
  <2>. QED  BY <1>1, <1>3, <2>1, <2>2, SlotMoves
<1>. HIDE DEF s
<1>5. /\ status' \in [Objects -> Statuses] /\ attempts' \in [Objects -> 0..MaxAttempts]
      /\ timer' \in [Objects -> BOOLEAN] /\ code' \in [Objects -> BOOLEAN]
      /\ failed' \in [Objects -> BOOLEAN]
  <2>1. /\ status \in [Objects -> Statuses] /\ attempts \in [Objects -> 0..MaxAttempts]
        /\ timer \in [Objects -> BOOLEAN] /\ code \in [Objects -> BOOLEAN]
        /\ failed \in [Objects -> BOOLEAN]
    BY DEF IInv, TypeOK
  <2>2. 0 \in 0..MaxAttempts /\ "ONLINE" \in Statuses
    BY DEF Statuses
  <2>. QED  BY <1>1, <2>1, <2>2
<1>6. TypeOK'
  BY <1>1, <1>4, <1>5 DEF IInv, TypeOK, SlotType, SlotsSettled
<1>7. SockIsLive'
  BY <1>1, <1>4, SameSocks
<1>8. OnlineIsBacked'
  <2>1. CASE active = s
    BY <1>1, <1>4, <2>1 DEF OnlineIsBacked, s
  <2>2. CASE active # s
    <3>1. active # None =>
             /\ status'[active] = status[active] /\ timer'[active] = timer[active]
             /\ failed'[active] = failed[active]
      BY <1>1, <2>2, Facts DEF IInv, TypeOK
    <3>. QED  BY <1>1, <1>4, <3>1 DEF IInv, OnlineIsBacked
  <2>. QED  BY <2>1, <2>2
<1>. QED  BY <1>6, <1>7, <1>8 DEF IInv

\* A closed socket leaves its session either logged out or expired, or with a
\* timer: also when another socket took its place.
LEMMA CloseKeeps ==
    ASSUME IInv, NEW k \in Slots, NEW why, NEW calls \in BOOLEAN, NEW pairing \in BOOLEAN,
           Close(k, why, calls, pairing)
    PROVE  IInv'
<1>. USE SessionAssumption
<1>. DEFINE s == slot[k].owner
<1>1. /\ Live(k) /\ faults < MaxFaults /\ faults' = faults + 1
      /\ slot' = Shut(k) /\ sock' = [sock EXCEPT ![s] = None]
      /\ active' = active /\ made' = made /\ attempts' = attempts /\ failed' = failed
      /\ leaving' = leaving /\ pairWait' = pairWait /\ pairAsked' = pairAsked
      /\ booting' = booting /\ requests' = requests
  BY DEF Close, waits
<1>2. \/ CloseLoggedOut(s) \/ CloseRestarts(s, calls, pairing)
      \/ CloseBacksOff(s, calls) \/ CloseUnlinked(s)
  BY DEF Close
<1>3. s \in Objects
  <2>1. slot[k].at # "free"
    BY <1>1 DEF Live
  <2>. QED  BY <2>1, Facts
<1>. HIDE DEF s
<1>4. /\ status' \in [Objects -> Statuses] /\ timer' \in [Objects -> BOOLEAN]
      /\ code' \in [Objects -> BOOLEAN] /\ disk' \in Creds \cup {"none"}
      /\ \A t \in Objects \ {s} : status'[t] = status[t] /\ timer'[t] = timer[t]
      /\ status'[s] \in Watched => timer'[s]
  <2>1. /\ status \in [Objects -> Statuses] /\ timer \in [Objects -> BOOLEAN]
        /\ code \in [Objects -> BOOLEAN] /\ disk \in Creds \cup {"none"}
    BY DEF IInv, TypeOK
  <2>2. CASE CloseLoggedOut(s)
    BY <1>3, <2>1, <2>2 DEF CloseLoggedOut, Statuses, Watched
  <2>3. CASE CloseRestarts(s, calls, pairing)
    BY <1>3, <2>1, <2>3 DEF CloseRestarts, Statuses, Watched
  <2>4. CASE CloseBacksOff(s, calls)
    BY <1>3, <2>1, <2>4 DEF CloseBacksOff, Statuses, Watched
  <2>5. CASE CloseUnlinked(s)
    <3>1. CASE attempts[s] >= MaxAttempts
      BY <1>3, <2>1, <2>5, <3>1 DEF CloseUnlinked, Statuses, Watched
    <3>2. CASE ~(attempts[s] >= MaxAttempts)
      BY <1>3, <2>1, <2>5, <3>2 DEF CloseUnlinked, Statuses, Watched
    <3>. QED  BY <3>1, <3>2
  <2>. QED  BY <1>2, <2>2, <2>3, <2>4, <2>5
<1>5. /\ sock' \in [Objects -> Slots \cup {None, Gone}]
      /\ sock'[s] = None /\ \A t \in Objects \ {s} : sock'[t] = sock[t]
  BY <1>1, <1>3 DEF IInv, TypeOK
<1>6. /\ slot' \in SlotType(made') /\ SlotsSettled' /\ SockIsLive'
      /\ \A j \in Slots : j # k => slot'[j] = slot[j]
  <2>. DEFINE S == {s}
  <2>1. S \in SUBSET Objects /\ \A t \in S : sock'[t] \in {None, Gone}
    BY <1>3, <1>5
  <2>2. \A t \in Objects \ S : sock'[t] = sock[t] /\ (sock[t] \in Slots => sock[t] # k)
    BY <1>3, <1>5, OwnSockets DEF s
  <2>. HIDE DEF S
  <2>3. \A t \in Objects : sock'[t] = Gone => t # active'
    BY <1>1, <1>5, Facts DEF IInv, SockIsLive
  <2>4. /\ slot' = Shut(k) /\ made' = made /\ k \in Slots \cup {None, Gone}
        /\ sock' \in [Objects -> Slots \cup {None, Gone}]
    BY <1>1, <1>5
  <2>. QED  BY ONLY IInv, <2>1, <2>2, <2>3, <2>4, SlotShut
<1>7. faults' \in 0..MaxFaults
  <2>1. faults \in 0..MaxFaults
    BY DEF IInv, TypeOK
  <2>. QED  BY <1>1, <2>1
<1>8. TypeOK'
  BY <1>1, <1>4, <1>5, <1>6, <1>7 DEF IInv, TypeOK, SlotType, SlotsSettled
<1>9. OnlineIsBacked'
  <2>. SUFFICES ASSUME active # None, status'[active] \in Watched
                PROVE  \/ \E j \in Slots : slot'[j].owner = active
                       \/ timer'[active] \/ leaving[active] > 0 \/ failed[active]
    BY <1>1 DEF OnlineIsBacked, Watched
  <2>1. active \in Objects
    BY Facts
  <2>2. CASE active = s
    BY <1>4, <2>2
  <2>3. CASE active # s
    <3>1. Backed(active)
      BY <1>4, <2>1, <2>3, Facts
    <3>2. slot[k].owner # active
      BY <2>3 DEF s
    <3>. QED  BY <1>4, <1>6, <2>1, <2>3, <3>1, <3>2 DEF Backed
  <2>. QED  BY <2>2, <2>3
<1>. QED  BY <1>6, <1>8, <1>9 DEF IInv

-----------------------------------------------------------------------------
LEMMA CodeExpiresKeeps == ASSUME IInv, CodeExpires PROVE IInv'
<1>1. /\ active # None /\ sock[active] # None
      /\ code' = [code EXCEPT ![active] = FALSE]
      /\ status' = [status EXCEPT ![active] = "AWAITING_SCAN"]
      /\ active' = active /\ made' = made /\ sock' = sock /\ timer' = timer
      /\ attempts' = attempts /\ failed' = failed /\ slot' = slot /\ disk' = disk
      /\ leaving' = leaving /\ pairWait' = pairWait /\ pairAsked' = pairAsked
      /\ booting' = booting /\ requests' = requests /\ faults' = faults
  BY DEF CodeExpires, counts, waits
<1>2. status' \in [Objects -> Statuses] /\ code' \in [Objects -> BOOLEAN]
  <2>1. status \in [Objects -> Statuses] /\ code \in [Objects -> BOOLEAN]
    BY DEF IInv, TypeOK
  <2>2. status' \in [Objects -> Statuses]
    BY <1>1, <2>1 DEF Statuses
  <2>3. code' \in [Objects -> BOOLEAN]
    BY <1>1, <2>1
  <2>. QED  BY <2>2, <2>3
<1>3. TypeOK'
  BY <1>1, <1>2 DEF IInv, TypeOK
<1>4. SockIsLive'
  BY <1>1 DEF IInv, SockIsLive, Live
<1>5. OnlineIsBacked'
  <2>1. sock[active] \in Slots /\ slot[sock[active]].owner = active
    BY <1>1, Facts
  <2>. QED  BY <1>1, <2>1 DEF OnlineIsBacked
<1>. QED  BY <1>3, <1>4, <1>5 DEF IInv

LEMMA PairAsksKeeps == ASSUME IInv, NEW s \in Objects, PairAsks(s) PROVE IInv'
<1>1. /\ pairWait[s] > 0 /\ pairWait' = [pairWait EXCEPT ![s] = @ - 1]
      /\ active' = active /\ made' = made /\ status' = status /\ sock' = sock
      /\ timer' = timer /\ attempts' = attempts /\ code' = code /\ failed' = failed
      /\ leaving' = leaving
      /\ booting' = booting /\ requests' = requests /\ faults' = faults
  BY DEF PairAsks, object, counts
<1>2. pairWait' \in [Objects -> Nat]
  <2>1. pairWait \in [Objects -> Nat]
    BY DEF IInv, TypeOK
  <2>2. pairWait[s] - 1 \in Nat
    BY <1>1, <2>1
  <2>. QED  BY <1>1, <2>1, <2>2
<1>3. CASE sock[s] \notin Slots \/ slot[sock[s]].creds = "linked"
  <2>1. UNCHANGED <<slot, disk, pairAsked>>
    BY <1>3 DEF PairAsks
  <2>2. TypeOK'
    BY <1>1, <1>2, <2>1 DEF IInv, TypeOK
  <2>3. SockIsLive' /\ OnlineIsBacked'
    BY <1>1, <2>1 DEF IInv, SockIsLive, Live, OnlineIsBacked
  <2>. QED  BY <2>2, <2>3 DEF IInv
<1>4. CASE ~(sock[s] \notin Slots \/ slot[sock[s]].creds = "linked")
  <2>. DEFINE k == sock[s]
  <2>1. /\ slot' = [slot EXCEPT ![k].creds = "named"] /\ disk' = "named"
        /\ pairAsked' = [pairAsked EXCEPT ![s] = @ + 1]
    BY <1>4 DEF PairAsks
  <2>2. k \in Slots /\ Live(k)
    BY <1>4, Facts
  <2>. HIDE DEF k
  <2>3. slot' = [slot EXCEPT ![k].at = slot[k].at, ![k].creds = "named"]
    <3>1. slot[k] \in [at : Stages, owner : 0..made, creds : Creds, pairing : BOOLEAN]
      BY <2>2 DEF IInv, TypeOK
    <3>2. [slot[k] EXCEPT !.creds = "named"]
             = [slot[k] EXCEPT !.at = slot[k].at, !.creds = "named"]
      BY <3>1
    <3>. QED  BY <2>1, <3>2
  <2>4. /\ slot' \in SlotType(made') /\ SlotsSettled'
        /\ \A j \in Slots : slot'[j].owner = slot[j].owner
        /\ \A j \in Slots : Live(j) => slot'[j].at \in {"connecting", "open"}
    <3>1. slot[k].at \in Stages \ {"free"} /\ slot[k].at \in {"connecting", "open"}
      BY <2>2 DEF Live, Stages
    <3>2. "named" \in Creds
      BY DEF Creds
    <3>. QED  BY <1>1, <2>2, <2>3, <3>1, <3>2, SlotMoves
  <2>5. pairAsked' \in [Objects -> Nat]
    <3>1. pairAsked \in [Objects -> Nat]
      BY DEF IInv, TypeOK
    <3>. QED  BY <2>1, <3>1
  <2>6. TypeOK'
    BY <1>1, <1>2, <2>1, <2>4, <2>5 DEF IInv, TypeOK, SlotType, SlotsSettled, Creds
  <2>7. SockIsLive'
    BY <1>1, <2>4, SameSocks
  <2>8. OnlineIsBacked'
    BY <1>1, <2>4 DEF IInv, OnlineIsBacked
  <2>. QED  BY <2>6, <2>7, <2>8 DEF IInv
<1>. QED  BY <1>3, <1>4

LEMMA PairCodeKeeps ==
    ASSUME IInv, NEW s \in Objects, NEW answered \in BOOLEAN, PairCode(s, answered)
    PROVE  IInv'
<1>1. /\ pairAsked[s] > 0 /\ pairAsked' = [pairAsked EXCEPT ![s] = @ - 1]
      /\ active' = active /\ made' = made /\ sock' = sock /\ timer' = timer
      /\ attempts' = attempts /\ failed' = failed /\ slot' = slot /\ disk' = disk
      /\ leaving' = leaving /\ pairWait' = pairWait
      /\ booting' = booting /\ requests' = requests /\ faults' = faults
  BY DEF PairCode, counts
<1>2. pairAsked' \in [Objects -> Nat]
  <2>1. pairAsked \in [Objects -> Nat]
    BY DEF IInv, TypeOK
  <2>2. pairAsked[s] - 1 \in Nat
    BY <1>1, <2>1
  <2>. QED  BY <1>1, <2>1, <2>2
<1>3. /\ status' \in [Objects -> Statuses] /\ code' \in [Objects -> BOOLEAN]
      /\ \A t \in Objects : status'[t] = status[t] \/ status'[t] = "PAIRING"
  <2>1. status \in [Objects -> Statuses] /\ code \in [Objects -> BOOLEAN]
    BY DEF IInv, TypeOK
  <2>2. CASE answered
    <3>1. /\ code' = [code EXCEPT ![s] = TRUE]
          /\ status' = [status EXCEPT ![s] = "PAIRING"]
      BY <2>2 DEF PairCode
    <3>2. code' \in [Objects -> BOOLEAN]
      BY <2>1, <3>1
    <3>. QED  BY <2>1, <3>1, <3>2 DEF Statuses
  <2>3. CASE ~answered
    BY <2>1, <2>3 DEF PairCode
  <2>. QED  BY <2>2, <2>3
<1>4. TypeOK'
  BY <1>1, <1>2, <1>3 DEF IInv, TypeOK
<1>5. SockIsLive'
  BY <1>1 DEF IInv, SockIsLive, Live
<1>6. OnlineIsBacked'
  <2>1. active # None => status'[active] = status[active] \/ status'[active] = "PAIRING"
    BY <1>3, Facts
  <2>. QED  BY <1>1, <2>1 DEF IInv, OnlineIsBacked
<1>. QED  BY <1>4, <1>5, <1>6 DEF IInv

\* The end of a /disconnect: what the session waited with is of no use to one
\* that is DISCONNECTED, and other objects lose nothing.
LEMMA LogsOffKeeps ==
    ASSUME IInv, NEW s \in Objects, LogsOff(s),
           timer' \in [Objects -> BOOLEAN],
           \A t \in Objects \ {s} : timer'[t] = timer[t],
           leaving' \in [Objects -> Nat], \A t \in Objects \ {s} : leaving'[t] = leaving[t],
           requests' \in 0..MaxRequests, faults' \in 0..MaxFaults
    PROVE  IInv'
<1>. USE SessionAssumption
<1>. DEFINE n == sock[s]
<1>1. /\ slot' = Shut(n) /\ sock' = [sock EXCEPT ![s] = None]
      /\ status' = [status EXCEPT ![s] = "DISCONNECTED"]
      /\ code' = [code EXCEPT ![s] = FALSE] /\ disk' = "none"
      /\ active' = active /\ made' = made /\ attempts' = attempts /\ failed' = failed
      /\ pairWait' = pairWait /\ pairAsked' = pairAsked /\ booting' = booting
  BY DEF LogsOff
<1>2. n \in Slots \cup {None, Gone} /\ (n \in Slots => slot[n].owner = s)
  BY Facts DEF IInv, TypeOK
<1>. HIDE DEF n
<1>3. /\ sock' \in [Objects -> Slots \cup {None, Gone}]
      /\ sock'[s] = None /\ \A t \in Objects \ {s} : sock'[t] = sock[t]
  BY <1>1 DEF IInv, TypeOK
<1>4. /\ slot' \in SlotType(made') /\ SlotsSettled' /\ SockIsLive'
      /\ \A j \in Slots : j # n => slot'[j] = slot[j]
  <2>. DEFINE S == {s}
  <2>1. S \in SUBSET Objects /\ \A t \in S : sock'[t] \in {None, Gone}
    BY <1>3
  <2>2. \A t \in Objects \ S : sock'[t] = sock[t] /\ (sock[t] \in Slots => sock[t] # n)
    BY <1>2, <1>3, Facts
  <2>. HIDE DEF S
  <2>3. \A t \in Objects : sock'[t] = Gone => t # active'
    BY <1>1, <1>3, Facts DEF IInv, SockIsLive
  <2>. QED  BY <1>1, <1>2, <1>3, <2>1, <2>2, <2>3, SlotShut
<1>5. /\ status' \in [Objects -> Statuses] /\ code' \in [Objects -> BOOLEAN]
      /\ status'[s] = "DISCONNECTED"
      /\ \A t \in Objects \ {s} : status'[t] = status[t]
  <2>1. status \in [Objects -> Statuses] /\ code \in [Objects -> BOOLEAN]
    BY DEF IInv, TypeOK
  <2>2. code' \in [Objects -> BOOLEAN]
    BY <1>1, <2>1
  <2>. QED  BY <1>1, <2>1, <2>2 DEF Statuses
<1>6. TypeOK'
  BY <1>1, <1>3, <1>4, <1>5 DEF IInv, TypeOK, SlotType, SlotsSettled
<1>7. OnlineIsBacked'
  <2>. SUFFICES ASSUME active # None, status'[active] \in Watched
                PROVE  \/ \E j \in Slots : slot'[j].owner = active
                       \/ timer'[active] \/ leaving'[active] > 0 \/ failed[active]
    BY <1>1 DEF OnlineIsBacked, Watched
  <2>1. active \in Objects /\ active # s
    BY <1>5, Facts DEF Watched
  <2>2. Backed(active)
    BY <1>5, <2>1, Facts
  <2>3. \A j \in Slots : slot[j].owner = active => slot'[j] = slot[j]
    BY <1>2, <1>4, <2>1, Facts
  <2>. QED  BY <2>1, <2>2, <2>3 DEF Backed
<1>. QED  BY <1>4, <1>6, <1>7 DEF IInv

LEMMA DisconnectsKeep ==
    ASSUME IInv, Disconnect \/ DisconnectAtOnce \/ \E s \in Objects : DisconnectEnds(s)
    PROVE  IInv'
<1>. USE SessionAssumption
<1>1. /\ timer \in [Objects -> BOOLEAN] /\ leaving \in [Objects -> Nat]
      /\ requests \in 0..MaxRequests /\ faults \in 0..MaxFaults
  BY DEF IInv, TypeOK
<1>2. CASE Disconnect
  <2>1. /\ active # None /\ leaving' = [leaving EXCEPT ![active] = @ + 1]
        /\ requests < MaxRequests /\ requests' = requests + 1
        /\ timer' = [timer EXCEPT ![active] = FALSE]
        /\ active' = active /\ made' = made /\ status' = status /\ sock' = sock
        /\ attempts' = attempts /\ code' = code /\ failed' = failed
        /\ slot' = slot /\ disk' = disk /\ pairWait' = pairWait /\ pairAsked' = pairAsked
        /\ booting' = booting /\ faults' = faults
    BY <1>2 DEF Disconnect, Requested
  <2>2. /\ timer' \in [Objects -> BOOLEAN] /\ leaving' \in [Objects -> Nat]
        /\ requests' \in 0..MaxRequests
    BY <1>1, <2>1, Facts
  <2>3. TypeOK'
    BY <2>1, <2>2 DEF IInv, TypeOK
  <2>4. SockIsLive'
    BY <2>1 DEF IInv, SockIsLive, Live
  <2>5. OnlineIsBacked'
    <3>1. leaving'[active] > 0
      BY <1>1, <2>1, Facts
    <3>. QED  BY <2>1, <3>1 DEF OnlineIsBacked
  <2>. QED  BY <2>3, <2>4, <2>5 DEF IInv
<1>3. CASE DisconnectAtOnce
  <2>1. /\ active # None /\ LogsOff(active) /\ leaving' = leaving /\ faults' = faults
        /\ requests < MaxRequests /\ requests' = requests + 1
        /\ timer' = [timer EXCEPT ![active] = FALSE]
    BY <1>3 DEF DisconnectAtOnce
  <2>2. active \in Objects /\ active <= made
    BY <2>1, Facts
  <2>3. /\ timer' \in [Objects -> BOOLEAN]
        /\ \A t \in Objects \ {active} : timer'[t] = timer[t]
        /\ requests' \in 0..MaxRequests
    BY <1>1, <2>1, <2>2
  <2>. QED  BY <1>1, <2>1, <2>2, <2>3, LogsOffKeeps
<1>4. ASSUME NEW s \in Objects, DisconnectEnds(s) PROVE IInv'
  <2>1. /\ leaving[s] > 0 /\ leaving' = [leaving EXCEPT ![s] = @ - 1] /\ LogsOff(s)
        /\ timer' = timer /\ requests' = requests /\ faults' = faults
    BY <1>4 DEF DisconnectEnds, counts
  <2>2. /\ leaving' \in [Objects -> Nat]
        /\ \A t \in Objects \ {s} : leaving'[t] = leaving[t]
    <3>1. leaving[s] - 1 \in Nat
      BY <1>1, <2>1
    <3>. QED  BY <1>1, <2>1, <3>1
  <2>. QED  BY <1>1, <2>1, <2>2, LogsOffKeeps
<1>. QED  BY <1>2, <1>3, <1>4

\* Without an entry there is nothing to be backed.
LEMMA RemovalsKeep ==
    ASSUME IInv, Delete \/ RemoveUserbot \/ Restart
    PROVE  IInv'
<1>. USE SessionAssumption
<1>1. active' = None
  BY DEF Delete, RemoveUserbot, Restart
<1>2. requests' \in 0..MaxRequests /\ faults' = faults
  <2>1. requests \in 0..MaxRequests /\ requests < MaxRequests /\ requests' = requests + 1
        /\ faults' = faults
    BY DEF IInv, TypeOK, Delete, RemoveUserbot, Restart, Requested
  <2>. QED  BY <2>1
<1>3. OnlineIsBacked'
  BY <1>1 DEF OnlineIsBacked
<1>4. CASE Delete
  <2>. DEFINE s == active
              n == sock[s]
  <2>1. /\ disk' = "none"
        /\ made' = made /\ status' = status /\ attempts' = attempts /\ code' = code
        /\ failed' = failed /\ leaving' = leaving /\ pairWait' = pairWait
        /\ pairAsked' = pairAsked /\ booting' = booting
    BY <1>4 DEF Delete, waits
  <2>2. active' \in 0..made'
    BY <1>1, <2>1, Facts DEF None
  <2>3. CASE active = None
    <3>1. UNCHANGED <<slot, sock, timer>>
      BY <1>4, <2>3 DEF Delete
    <3>2. TypeOK'
      BY <1>2, <2>1, <2>2, <3>1 DEF IInv, TypeOK
    <3>3. SockIsLive'
      BY <1>1, <2>3, <3>1 DEF IInv, SockIsLive, Live
    <3>. QED  BY <1>3, <3>2, <3>3 DEF IInv
  <2>4. CASE active # None
    <3>1. /\ slot' = Shut(n) /\ sock' = [sock EXCEPT ![s] = IF @ = None THEN None ELSE Gone]
          /\ timer' = [timer EXCEPT ![s] = FALSE]
      BY <1>4, <2>4 DEF Delete
    <3>2. s \in Objects
      BY <2>4, Facts
    <3>. HIDE DEF s
    <3>3. n \in Slots \cup {None, Gone} /\ (n \in Slots => slot[n].owner = s)
      BY <3>2, Facts DEF IInv, TypeOK
    <3>4. /\ sock' \in [Objects -> Slots \cup {None, Gone}] /\ timer' \in [Objects -> BOOLEAN]
          /\ sock'[s] \in {None, Gone} /\ \A t \in Objects \ {s} : sock'[t] = sock[t]
      BY <3>1, <3>2 DEF IInv, TypeOK
    <3>. HIDE DEF n
    <3>5. slot' \in SlotType(made') /\ SlotsSettled' /\ SockIsLive'
      <4>. DEFINE S == {s}
      <4>1. S \in SUBSET Objects /\ \A t \in S : sock'[t] \in {None, Gone}
        BY <3>2, <3>4
      <4>2. \A t \in Objects \ S : sock'[t] = sock[t] /\ (sock[t] \in Slots => sock[t] # n)
        BY <3>3, <3>4, Facts
      <4>3. \A t \in Objects : sock'[t] = Gone => t # active'
        BY <1>1 DEF Objects, None
      <4>. HIDE DEF S
      <4>. QED  BY <2>1, <3>1, <3>3, <3>4, <4>1, <4>2, <4>3, SlotShut
    <3>6. TypeOK'
      BY <1>2, <2>1, <2>2, <3>4, <3>5 DEF IInv, TypeOK, SlotType, SlotsSettled
    <3>. QED  BY <1>3, <3>5, <3>6 DEF IInv
  <2>. QED  BY <2>3, <2>4
<1>5. CASE RemoveUserbot
  <2>1. /\ disk' = "none" /\ slot' = slot /\ sock' = sock /\ timer' = timer
        /\ made' = made /\ status' = status /\ attempts' = attempts /\ code' = code
        /\ failed' = failed /\ leaving' = leaving /\ pairWait' = pairWait
        /\ pairAsked' = pairAsked /\ booting' = booting
    BY <1>5 DEF RemoveUserbot, object, waits
  <2>2. active' \in 0..made'
    BY <1>1, <2>1, Facts DEF None
  <2>3. TypeOK'
    BY <1>2, <2>1, <2>2 DEF IInv, TypeOK
  <2>4. SockIsLive'
    BY <1>1, <2>1 DEF IInv, SockIsLive, Live, Objects, None
  <2>. QED  BY <1>3, <2>3, <2>4 DEF IInv
<1>6. CASE Restart
  <2>1. /\ made' = 0 /\ sock' = [s \in Objects |-> None] /\ disk' = disk
        /\ slot' = [k \in Slots |-> FreeSlot]
        /\ status' = [s \in Objects |-> "STANDBY"] /\ timer' = [s \in Objects |-> FALSE]
        /\ attempts' = [s \in Objects |-> 0] /\ code' = [s \in Objects |-> FALSE]
        /\ failed' = [s \in Objects |-> FALSE]
        /\ leaving' = [s \in Objects |-> 0] /\ pairWait' = [s \in Objects |-> 0]
        /\ pairAsked' = [s \in Objects |-> 0] /\ booting' = TRUE
    BY <1>6 DEF Restart
  <2>2. slot' \in SlotType(made') /\ SlotsSettled'
    BY <2>1 DEF SlotType, SlotsSettled, FreeSlot, Stages, Creds, None
  <2>3. /\ active' \in 0..made' /\ made' \in 0..MaxSessions
        /\ leaving' \in [Objects -> Nat] /\ pairWait' \in [Objects -> Nat]
        /\ pairAsked' \in [Objects -> Nat] /\ booting' \in BOOLEAN
    BY <1>1, <2>1 DEF None
  <2>4. /\ status' \in [Objects -> Statuses] /\ sock' \in [Objects -> Slots \cup {None, Gone}]
        /\ attempts' \in [Objects -> 0..MaxAttempts]
    BY <2>1 DEF Statuses
  <2>5. /\ timer' \in [Objects -> BOOLEAN] /\ code' \in [Objects -> BOOLEAN]
        /\ failed' \in [Objects -> BOOLEAN]
    BY <2>1
  <2>6. disk' \in Creds \cup {"none"} /\ faults' \in 0..MaxFaults
    BY <1>2, <2>1 DEF IInv, TypeOK
  <2>7. TypeOK'
    BY <1>2, <2>2, <2>3, <2>4, <2>5, <2>6 DEF TypeOK, SlotType, SlotsSettled
  <2>8. SockIsLive'
    BY <2>1, Facts DEF SockIsLive
  <2>. QED  BY <1>3, <2>7, <2>8 DEF IInv
<1>. QED  BY <1>4, <1>5, <1>6

-----------------------------------------------------------------------------
LEMMA StepKeeps == IInv /\ [Next]_vars => IInv'
<1>. SUFFICES ASSUME IInv, [Next]_vars PROVE IInv'
  OBVIOUS
<1>1. ASSUME NEW k \in Slots, SocketSteps(k) PROVE IInv'
  BY <1>1, InitReadsKeeps, InitMakesKeeps, InitFailsKeeps, SavesCredsKeeps, QrKeeps,
     ScannedKeeps, OpenKeeps, CloseKeeps DEF SocketSteps
<1>2. ASSUME NEW s \in Objects,
             \/ TimerFires(s) \/ PairAsks(s)
             \/ \E answered \in BOOLEAN : PairCode(s, answered)
      PROVE  IInv'
  BY <1>2, TimersKeep, PairAsksKeeps, PairCodeKeeps
<1>3. CASE InitRequest \/ StatusRequest \/ RefreshQr \/ Pair \/ AutoResume
  BY <1>3, StartersKeep
<1>4. CASE CodeExpires
  BY <1>4, CodeExpiresKeeps
<1>5. CASE Disconnect \/ DisconnectAtOnce \/ \E s \in Objects : DisconnectEnds(s)
  BY <1>5, DisconnectsKeep
<1>6. CASE Delete \/ RemoveUserbot \/ Restart
  BY <1>6, RemovalsKeep
<1>7. CASE UNCHANGED vars
  BY <1>7 DEF vars, object, waits, counts, IInv, TypeOK, SockIsLive, Live, OnlineIsBacked
<1>. QED  BY <1>1, <1>2, <1>3, <1>4, <1>5, <1>6, <1>7 DEF Next

(* The three invariants hold in every state of a session                    *)
(* (wp_baileys_service.js, initSessionSocket and the session routes).       *)
THEOREM Inductive == Spec => []IInv
<1>. QED  BY InitKeeps, StepKeeps, PTL DEF Spec

(* However requests, timers, retries and events of sockets overlap, slots,  *)
(* objects and credentials keep their types (wp_baileys_service.js:2248).   *)
THEOREM SessionTypeOK == Spec => []TypeOK
<1>1. IInv => TypeOK
  BY DEF IInv
<1>. QED  BY <1>1, Inductive, PTL

(* The session that is the entry never refers to a socket that was shut or  *)
(* closed, or to another object's, and neither does any object that /delete *)
(* did not drop with a socket (lines 6719-6733), for any number of          *)
(* overlapping calls of initSessionSocket and of close events (lines        *)
(* 2331-2374, 2437-2513).                                                   *)
THEOREM SocketsAreLive == Spec => []SockIsLive
<1>1. IInv => SockIsLive
  BY DEF IInv
<1>. QED  BY <1>1, Inductive, PTL

(* The session that shows ONLINE or waits for its user always has a socket, *)
(* a call of initSessionSocket or a timer to come back by, unless a         *)
(* /disconnect is finishing it or initSessionSocket threw.                  *)
THEOREM OnlineSessionsAreBacked == Spec => []OnlineIsBacked
<1>1. IInv => OnlineIsBacked
  BY DEF IInv
<1>. QED  BY <1>1, Inductive, PTL
-----------------------------------------------------------------------------
\* An unlinked session refers to no socket: each one it could would be live.
LEMMA UnlinkedHasNoSock ==
    ASSUME IInv, Unlinked
    PROVE  \A s \in Objects : sock[s] \notin Slots
BY Facts DEF Unlinked, Live

\* What goes on by itself in an unlinked session: the end of a /pair or of a
\* /disconnect, which find no socket, and the resumption, which finds no file.
LEMMA UnlinkedStays ==
    ASSUME IInv, Unlinked, [Next]_vars
    PROVE  Unlinked' \/ requests' # requests
<1>. SUFFICES ASSUME requests' = requests PROVE Unlinked'
  OBVIOUS
<1>1. /\ \A s \in Objects : sock[s] \notin Slots
      /\ None \notin Slots /\ requests \in Nat
      /\ active # None => active \in Objects
  BY UnlinkedHasNoSock, Facts, SessionAssumption DEF IInv, TypeOK
<1>2. ASSUME NEW k \in Slots, SocketSteps(k) PROVE FALSE
  BY <1>2 DEF SocketSteps, InitReads, InitMakes, InitFails, SavesCreds, Qr, Scanned, Open,
        Close, Live, Initing, Unlinked
<1>3. ASSUME NEW s \in Objects, TimerFires(s) PROVE FALSE
  BY <1>3 DEF TimerFires, Unlinked
<1>4. ASSUME NEW s \in Objects,
             PairAsks(s) \/ \E answered \in BOOLEAN : PairCode(s, answered)
      PROVE  Unlinked'
  BY <1>1, <1>4 DEF PairAsks, PairCode, Unlinked, object
<1>5. CASE \/ InitRequest \/ StatusRequest \/ RefreshQr \/ Pair
           \/ Disconnect \/ DisconnectAtOnce \/ Delete \/ RemoveUserbot \/ Restart
  <2>1. requests' = requests + 1
    BY <1>5 DEF InitRequest, StatusRequest, RefreshQr, Pair, Disconnect, DisconnectAtOnce,
          Delete, RemoveUserbot, Restart, Requested
  <2>. QED  BY <1>1, <2>1
<1>6. CASE CodeExpires
  BY <1>6 DEF CodeExpires, Unlinked
<1>7. ASSUME NEW s \in Objects, DisconnectEnds(s) PROVE Unlinked'
  <2>1. /\ slot' = Shut(sock[s]) /\ disk' = "none" /\ timer' = timer
    BY <1>7 DEF DisconnectEnds, LogsOff
  <2>. QED  BY <1>1, <2>1 DEF Shut, Unlinked
<1>8. CASE AutoResume
  BY <1>8 DEF AutoResume, Unlinked
<1>9. CASE UNCHANGED vars
  BY <1>9 DEF vars, object, Unlinked
<1>. QED  BY <1>2, <1>3, <1>4, <1>5, <1>6, <1>7, <1>8, <1>9 DEF Next

\* The answer of a /disconnect that was alone leaves the session unlinked.
LEMMA AnswerUnlinks ==
    ASSUME IInv, NEW s \in Objects, Alone(s), LogsOff(s),
           (timer' = timer /\ ~timer[s]) \/ timer' = [timer EXCEPT ![s] = FALSE]
    PROVE  Unlinked'
<1>1. slot' = Shut(sock[s]) /\ disk' = "none"
  BY DEF LogsOff
<1>2. \A k \in Slots : slot'[k].at = "free"
  BY <1>1 DEF Shut, Alone, FreeSlot
<1>3. \A t \in Objects : ~timer'[t]
  <2>1. timer \in [Objects -> BOOLEAN]
    BY DEF IInv, TypeOK
  <2>. QED  BY <2>1 DEF Alone
<1>. QED  BY <1>1, <1>2, <1>3 DEF Unlinked

(* /disconnect is final, for any number of sessions, slots and faults, when *)
(* nothing else of the session is under way as it answers: what the finding *)
(* of DisconnectIsFinal shows needs an initialisation, a socket or a timer  *)
(* left over from another operation (wp_baileys_service.js:6703-6711).      *)
THEOREM DisconnectAloneFinal == Spec => DisconnectAloneIsFinal
<1>. DEFINE Step ==
       /\ DisconnectAtOnce /\ Alone(active) => Unlinked'
       /\ \A s \in Objects : DisconnectEnds(s) /\ Alone(s) /\ ~timer[s] => Unlinked'
       /\ Unlinked => Unlinked' \/ requests' # requests
<1>1. IInv /\ [Next]_vars => [Step]_vars
  <2>. SUFFICES ASSUME IInv, [Next]_vars PROVE Step
    OBVIOUS
  <2>1. ASSUME DisconnectAtOnce, Alone(active) PROVE Unlinked'
    <3>1. active \in Objects /\ LogsOff(active) /\ timer' = [timer EXCEPT ![active] = FALSE]
      BY <2>1, Facts DEF DisconnectAtOnce
    <3>. QED  BY <2>1, <3>1, AnswerUnlinks
  <2>2. ASSUME NEW s \in Objects, DisconnectEnds(s), Alone(s), ~timer[s] PROVE Unlinked'
    <3>1. LogsOff(s) /\ timer' = timer
      BY <2>2 DEF DisconnectEnds
    <3>. QED  BY <2>2, <3>1, AnswerUnlinks
  <2>. QED  BY <2>1, <2>2, UnlinkedStays
<1>. QED  BY <1>1, Inductive, PTL DEF Spec, DisconnectAloneIsFinal
=============================================================================
