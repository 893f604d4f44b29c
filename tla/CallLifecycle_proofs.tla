----------------------- MODULE CallLifecycle_proofs -----------------------
(***************************************************************************)
(* Proofs about CallLifecycle, for every number of engineCall objects,     *)
(* handles and goroutines, with and without repeated offers; only that     *)
(* every handle is told of its end needs that no offer is repeated.        *)
(***************************************************************************)
EXTENDS CallLifecycle, TLAPS

(***************************************************************************)
(* Type correctness.                                                       *)
(***************************************************************************)

\* A goroutine that is about to hand out a handle has one.
Deliverable ==
    \A t \in Threads : pc[t] \in {"placed", "offered"} => c[t] \in Handles

TypeInv == TypeOK /\ Deliverable

\* What the steps do to the fields of one entry keeps it an entry.
LEMMA EntryUpdates ==
    ASSUME NEW x \in Entry
    PROVE  /\ [x EXCEPT !.relay = TRUE] \in Entry
           /\ [x EXCEPT !.acceptPending = TRUE] \in Entry
           /\ [x EXCEPT !.acceptPending = FALSE] \in Entry
           /\ [x EXCEPT !.started = TRUE, !.cancel = TRUE] \in Entry
           /\ [x EXCEPT !.cancel = FALSE] \in Entry
  BY DEF Entry

\* A new entry has the fields of an entry.
LEMMA EntryCreation ==
    ASSUME NEW x \in Entry, NEW h \in Handles, NEW b \in BOOLEAN
    PROVE  /\ [x EXCEPT !.call = h, !.relay = x.relay \/ b] \in Entry
           /\ [NewEntry EXCEPT !.call = h, !.dir = "outgoing"] \in Entry
  BY DEF Entry, NewEntry, Directions

\* The same for one component of a function.
LEMMA UpdateType ==
    ASSUME NEW D, NEW R, NEW f \in [D -> R], NEW d, NEW r, d \in D => r \in R
    PROVE  [f EXCEPT ![d] = r] \in [D -> R]
  OBVIOUS

\* Every step keeps the variables typed.
LEMMA TypeInvStep == TypeInv /\ [Next]_vars => TypeInv'
<1> SUFFICES ASSUME TypeInv, [Next]_vars PROVE TypeInv'
  OBVIOUS
<1> USE LifecycleAssumption
    DEF TypeInv, TypeOK, Deliverable, Threads, Goto, At, SetPhase,
        objects, mediaVars, locals, history
<1>1. ASSUME NEW t \in Apps, NEW e \in Entries, NEW h \in Handles, Place(t, e, h) PROVE TypeInv'
  <2>1. entry' = [entry EXCEPT ![e] = [NewEntry EXCEPT !.call = h, !.dir = "outgoing"]]
    BY <1>1 DEF Place
  <2>2. [NewEntry EXCEPT !.call = h, !.dir = "outgoing"] \in Entry
    BY EntryCreation
  <2>3. entry' \in [Entries -> Entry]
    BY <1>1, <2>1, <2>2, UpdateType DEF Place
  <2>4. QED
    BY <1>1, <2>3 DEF Place, Labels, Phases
<1>2. ASSUME NEW t \in Apps, NEW h \in Handles, Answer(t, h) PROVE TypeInv'
  BY <1>2 DEF Answer, Labels, Phases
<1>3. ASSUME NEW t \in Apps, NEW h \in Handles, HangUp(t, h) PROVE TypeInv'
  BY <1>3 DEF HangUp, Labels, Phases
<1>4. ASSUME NEW e \in Entries, NEW h \in Handles, NEW r \in BOOLEAN, Offer(e, h, r) PROVE TypeInv'
  <2>1. entry' = [entry EXCEPT ![e] = [entry[e] EXCEPT !.call = h, !.relay = entry[e].relay \/ r]]
    BY <1>4 DEF Offer
  <2>2. [entry[e] EXCEPT !.call = h, !.relay = entry[e].relay \/ r] \in Entry
    BY EntryCreation
  <2>3. entry' \in [Entries -> Entry]
    BY <1>4, <2>1, <2>2, UpdateType DEF Offer
  <2>4. QED
    BY <1>4, <2>3 DEF Offer, Labels, Phases
<1>5. CASE Relay
  <2>1. entry' = [entry EXCEPT ![reg] = [entry[reg] EXCEPT !.relay = TRUE]]
    BY <1>5 DEF Relay
  <2>2. reg \in Entries => [entry[reg] EXCEPT !.relay = TRUE] \in Entry
    BY EntryUpdates
  <2>3. entry' \in [Entries -> Entry]
    BY <1>5, <2>1, <2>2, UpdateType DEF Relay
  <2>4. QED
    BY <1>5, <2>3 DEF Relay, Labels, Phases
<1>6. CASE PreAccept
  <2>1. entry[reg].call \in Handles \cup {None}
    BY <1>6 DEF PreAccept, Entry
  <2>2. QED
    BY <1>6, <2>1 DEF PreAccept, Labels, Phases
<1>7. CASE Accept
  <2>1. entry[reg].call \in Handles \cup {None}
    BY <1>7 DEF Accept, Entry
  <2>2. QED
    BY <1>7, <2>1 DEF Accept, Labels, Phases
<1>8. CASE Mute \/ Terminated
  BY <1>8 DEF Mute, Terminated, Labels, Phases
<1>9. ASSUME NEW t \in Threads, Deliver(t) \/ PlaceFailed(t) PROVE TypeInv'
  BY <1>9 DEF Deliver, PlaceFailed, Labels, Phases
<1>10. ASSUME NEW t \in Threads, AnswerMark(t) PROVE TypeInv'
  <2>1. entry' = [entry EXCEPT ![m[t]] = [entry[m[t]] EXCEPT !.acceptPending = TRUE]]
    BY <1>10 DEF AnswerMark
  <2>2. m[t] \in Entries => [entry[m[t]] EXCEPT !.acceptPending = TRUE] \in Entry
    BY EntryUpdates
  <2>3. entry' \in [Entries -> Entry]
    BY <1>10, <2>1, <2>2, UpdateType DEF AnswerMark
  <2>4. answers' \in [Entries -> Nat]
    <3>1. answers' = [answers EXCEPT ![m[t]] = answers[m[t]] + 1]
      BY <1>10 DEF AnswerMark
    <3>2. m[t] \in Entries => answers[m[t]] + 1 \in Nat
      OBVIOUS
    <3>3. QED
      BY <3>1, <3>2, UpdateType
  <2>5. QED
    BY <1>10, <2>3, <2>4 DEF AnswerMark, Labels, Phases
<1>11. ASSUME NEW t \in Threads, AnswerPhase(t) PROVE TypeInv'
  BY <1>11 DEF AnswerPhase, Labels, Phases
<1>12. ASSUME NEW t \in Threads, StartPhase(t) PROVE TypeInv'
  BY <1>12 DEF StartPhase, Labels, Phases
<1>13. ASSUME NEW t \in Threads, FinishPhase(t) PROVE TypeInv'
  BY <1>13 DEF FinishPhase, Labels, Phases
<1>14. ASSUME NEW t \in Threads, Start(t) PROVE TypeInv'
  <2>1. entry' = [entry EXCEPT ![reg] = [entry[reg] EXCEPT !.started = TRUE, !.cancel = TRUE]]
    BY <1>14 DEF Start, MayStart
  <2>2. reg \in Entries => [entry[reg] EXCEPT !.started = TRUE, !.cancel = TRUE] \in Entry
    BY EntryUpdates
  <2>3. entry' \in [Entries -> Entry]
    BY <1>14, <2>1, <2>2, UpdateType DEF Start, MayStart
  <2>4. mediaCall' \in [Entries -> Handles \cup {None}]
    BY <1>14 DEF Start, MayStart, Entry
  <2>5. QED
    BY <1>14, <2>3, <2>4 DEF Start, MayStart, Labels, Phases
<1>15. ASSUME NEW t \in Threads, StartNothing(t) \/ FinishNothing(t) \/ FinishCheck(t) PROVE TypeInv'
  BY <1>15 DEF StartNothing, FinishNothing, FinishCheck, Labels, Phases
<1>16. ASSUME NEW t \in Threads, Spawn(t) PROVE TypeInv'
  <2>1. loops' \in [Entries -> Nat]
    <3>1. loops' = [loops EXCEPT ![m[t]] = loops[m[t]] + 1]
      BY <1>16 DEF Spawn
    <3>2. m[t] \in Entries => loops[m[t]] + 1 \in Nat
      OBVIOUS
    <3>3. QED
      BY <3>1, <3>2, UpdateType
  <2>2. QED
    BY <1>16, <2>1 DEF Spawn, Labels, Phases
<1>17. ASSUME NEW t \in Threads, Finish(t) PROVE TypeInv'
  <2>1. entry' = [entry EXCEPT ![reg] = [entry[reg] EXCEPT !.cancel = FALSE]]
    BY <1>17 DEF Finish
  <2>2. reg \in Entries => [entry[reg] EXCEPT !.cancel = FALSE] \in Entry
    BY EntryUpdates
  <2>3. entry' \in [Entries -> Entry]
    BY <1>17, <2>1, <2>2, UpdateType DEF Finish
  <2>4. entry[reg].call \in Handles \cup {None} /\ entry[reg].cancel \in BOOLEAN
    BY <1>17 DEF Finish, Entry
  <2>5. QED
    BY <1>17, <2>3, <2>4 DEF Finish, Labels, Phases
<1>18. ASSUME NEW t \in Threads, FinishCancel(t) PROVE TypeInv'
  BY <1>18 DEF FinishCancel, Labels, Phases
<1>19. ASSUME NEW t \in Threads, FinishNotify(t) PROVE TypeInv'
  <2>1. onEnds' \in [Handles -> Nat]
    <3>1. onEnds' = [onEnds EXCEPT ![c[t]] = onEnds[c[t]] + 1]
      BY <1>19 DEF FinishNotify
    <3>2. c[t] \in Handles => onEnds[c[t]] + 1 \in Nat
      OBVIOUS
    <3>3. QED
      BY <3>1, <3>2, UpdateType
  <2>2. QED
    BY <1>19, <2>1 DEF FinishNotify, Labels, Phases
<1>20. CASE PreAcceptPhase \/ AcceptPhase
  BY <1>20 DEF PreAcceptPhase, AcceptPhase, Labels, Phases
<1>21. CASE AcceptCheck \/ AcceptMark \/ SendAcceptNothing
  BY <1>21 DEF AcceptCheck, AcceptMark, SendAcceptNothing, Labels, Phases
<1>22. CASE SendAccept
  <2>1. entry' = [entry EXCEPT ![reg] = [entry[reg] EXCEPT !.acceptPending = FALSE]]
    BY <1>22 DEF SendAccept, AcceptPending
  <2>2. reg \in Entries => [entry[reg] EXCEPT !.acceptPending = FALSE] \in Entry
    BY EntryUpdates
  <2>3. entry' \in [Entries -> Entry]
    BY <1>22, <2>1, <2>2, UpdateType DEF SendAccept, AcceptPending
  <2>4. accepts' \in [Entries -> Nat]
    <3>1. accepts' = [accepts EXCEPT ![reg] = accepts[reg] + 1]
      BY <1>22 DEF SendAccept
    <3>2. reg \in Entries => accepts[reg] + 1 \in Nat
      OBVIOUS
    <3>3. QED
      BY <3>1, <3>2, UpdateType
  <2>5. QED
    BY <1>22, <2>3, <2>4 DEF SendAccept, AcceptPending, Labels, Phases
<1>23. ASSUME NEW e \in Entries, MediaStep(e) PROVE TypeInv'
  BY <1>23 DEF MediaStep, MediaConnected, MediaConnectFailed,
               MediaLoop, MediaActive, MediaGoto, Labels, Phases
<1>24. ASSUME NEW e \in Entries, Received(e) PROVE TypeInv'
  BY <1>24 DEF Received, MediaPacket, MediaFirstAudio, MediaRecvFailed, MediaGoto, Labels, Phases
<1>25. CASE UNCHANGED vars
  BY <1>25 DEF vars, Labels, Phases
<1> HIDE LifecycleAssumption
    DEF TypeInv, TypeOK, Deliverable, Threads, Goto, At, SetPhase,
        objects, mediaVars, locals, history
<1>26. QED
  BY <1>1, <1>2, <1>3, <1>4, <1>5, <1>6, <1>7, <1>8, <1>9, <1>10, <1>11, <1>12,
     <1>13, <1>14, <1>15, <1>16, <1>17, <1>18, <1>19, <1>20, <1>21, <1>22, <1>23, <1>24, <1>25
     DEF Next, Begin, Continue, ContinueNet

\* The variables of CallLifecycle keep their types.
THEOREM LifecycleTypeOK == SafetySpec => []TypeOK
<1>1. Init => TypeInv
  BY LifecycleAssumption DEF Init, TypeInv, TypeOK, Deliverable, Entry, NewEntry, Labels, Directions
<1>2. TypeInv => TypeOK
  BY DEF TypeInv
<1>3. QED
  BY <1>1, <1>2, TypeInvStep, PTL DEF SafetySpec

(***************************************************************************)
(* Media and the end of a call.                                            *)
(***************************************************************************)

\* A registered entry has a handle, and has its cancel func as soon as it has
\* media; an object that was never registered has no media.
Registered ==
    /\ reg # None => entry[reg].call # None /\ (entry[reg].started => entry[reg].cancel)
    /\ \A e \in Entries : entry[e].call = None => ~entry[e].started

\* A goroutine that tears a call down does so for an entry it removed.
Removed ==
    \A t \in Threads : pc[t] \in Finishing =>
        m[t] \in Entries /\ m[t] # reg /\ entry[m[t]].call # None

\* The inductive invariant of the teardown.  Registered says that the remover
\* finds the cancel func, Removed that it cannot cancel the media of a call
\* that is registered meanwhile.
MediaInv == Registered /\ Removed /\ NoOrphanMedia /\ RegisteredMediaLives

\* A step of goroutine t that neither removes an entry nor calls a cancel
\* func nor changes the media of an entry.
Passes(t) ==
    /\ UNCHANGED <<reg, ctx, grabbed>>
    /\ \A e \in Entries : /\ entry'[e].call = entry[e].call
                          /\ entry'[e].started = entry[e].started
                          /\ entry'[e].cancel = entry[e].cancel
    /\ \A u \in Threads \ {t} : pc'[u] = pc[u] /\ m'[u] = m[u]
    /\ pc[t] # "finishCancel" /\ pc'[t] # "finishCancel"
    /\ pc'[t] \in Finishing => pc[t] \in Finishing /\ m'[t] = m[t]

\* A step that passes (moves on without touching media) keeps the invariant.
LEMMA PassingKeepsMediaInv ==
    ASSUME TypeOK, MediaInv, NEW t \in Threads, Passes(t)
    PROVE  MediaInv'
<1> USE DEF Passes, MediaInv
<1>1. Registered'
  BY DEF Registered, TypeOK
<1>2. Removed'
  BY DEF Removed
<1>3. \A e \in Entries : Cancelling(e)' <=> Cancelling(e)
  BY DEF Cancelling, At
<1>4. NoOrphanMedia'
  BY <1>3 DEF NoOrphanMedia
<1>5. RegisteredMediaLives'
  BY <1>3 DEF RegisteredMediaLives, TypeOK
<1>6. QED
  BY <1>1, <1>2, <1>4, <1>5

\* The steps of an operation that pass: all but the registration, the start
\* of media, the removal and the cancellation.
LEMMA AppSteps ==
    ASSUME TypeOK, NEW t \in Apps, NEW h \in Handles, Answer(t, h) \/ HangUp(t, h)
    PROVE  t \in Threads /\ Passes(t)
  BY DEF Answer, HangUp, Passes, At, Goto, TypeOK, Threads, Finishing,
         objects, mediaVars, locals, history

\* The same for the steps only Net takes.
LEMMA NetSteps ==
    ASSUME TypeOK, Relay \/ PreAccept \/ Accept \/ Mute \/ Terminated \/ ContinueNet
    PROVE  Net \in Threads /\ Passes(Net)
<1> USE DEF Passes, At, Goto, TypeOK, Threads, Finishing, objects, mediaVars, locals, history
<1>1. CASE Relay
  BY <1>1 DEF Relay, Entry
<1>2. CASE PreAccept \/ Accept \/ Mute \/ Terminated
  BY <1>2 DEF PreAccept, Accept, Mute, Terminated
<1>3. CASE PreAcceptPhase \/ AcceptCheck \/ AcceptPhase \/ AcceptMark
  BY <1>3 DEF PreAcceptPhase, AcceptCheck, AcceptPhase, AcceptMark
<1>4. CASE SendAccept
  BY <1>4 DEF SendAccept, AcceptPending, Entry
<1>5. CASE SendAcceptNothing
  BY <1>5 DEF SendAcceptNothing
<1>6. QED
  BY <1>1, <1>2, <1>3, <1>4, <1>5 DEF ContinueNet

\* The same for the shared steps, but for Start, Finish and FinishCancel.
LEMMA ThreadSteps ==
    ASSUME TypeOK, NEW t \in Threads,
           \/ Deliver(t) \/ PlaceFailed(t) \/ AnswerMark(t) \/ AnswerPhase(t)
           \/ StartNothing(t) \/ StartPhase(t) \/ Spawn(t)
           \/ FinishNothing(t) \/ FinishCheck(t) \/ FinishPhase(t) \/ FinishNotify(t)
    PROVE  Passes(t)
<1> USE DEF Passes, At, Goto, TypeOK, Finishing, objects, mediaVars, locals, history
<1>1. CASE Deliver(t) \/ PlaceFailed(t)
  BY <1>1 DEF Deliver, PlaceFailed
<1>2. CASE AnswerMark(t)
  BY <1>2 DEF AnswerMark, Entry
<1>3. CASE AnswerPhase(t) \/ StartNothing(t) \/ StartPhase(t) \/ Spawn(t)
  BY <1>3 DEF AnswerPhase, StartNothing, StartPhase, Spawn
<1>4. CASE FinishNothing(t) \/ FinishCheck(t) \/ FinishPhase(t) \/ FinishNotify(t)
  BY <1>4 DEF FinishNothing, FinishCheck, FinishPhase, FinishNotify
<1>5. QED
  BY <1>1, <1>2, <1>3, <1>4

\* What the media goroutines do is no concern of the registry.
LEMMA MediaSteps ==
    ASSUME NEW e \in Entries, MediaStep(e) \/ Received(e)
    PROVE  UNCHANGED <<reg, entry, ctx, pc, m, c, grabbed, loops, onEnds, answers, accepts>>
  BY DEF MediaStep, Received, MediaConnected, MediaConnectFailed, MediaLoop, MediaActive,
         MediaPacket, MediaFirstAudio, MediaRecvFailed, objects, locals, history

\* The registration of an entry by placeCall or by onOffer: goroutine t
\* registers an unused entry, or gives the registered one a new handle.
Registers(t, e, h) ==
    /\ (reg = None /\ entry[e].call = None) \/ reg = e
    /\ reg' = e /\ entry'[e].call = h
    /\ \A f \in Entries \ {e} : entry'[f] = entry[f]
    /\ entry'[e].started = entry[e].started
    /\ entry[e].started => entry'[e].cancel = entry[e].cancel
    /\ UNCHANGED <<ctx, m, grabbed>>
    /\ pc[t] = "idle" /\ pc'[t] \in {"placed", "offered"}
    /\ \A u \in Threads \ {t} : pc'[u] = pc[u] /\ c'[u] = c[u]

\* A placed call registers an entry nobody has used.
LEMMA PlaceRegisters ==
    ASSUME TypeOK, Registered, NEW t \in Apps, NEW e \in Entries, NEW h \in Handles, Place(t, e, h)
    PROVE  t \in Threads /\ Registers(t, e, h)
<1> USE DEF Place, TypeOK, Threads, Goto, At, objects, mediaVars, locals, history
<1>1. reg = None /\ entry[e].call = None /\ ~entry[e].started
  BY DEF Registered, Unused, FreshEntry
<1>2. entry'[e] = [NewEntry EXCEPT !.call = h, !.dir = "outgoing"]
  OBVIOUS
<1>3. entry'[e].call = h /\ entry'[e].started = FALSE
  BY <1>2 DEF NewEntry
<1>4. entry[e].started = FALSE
  BY <1>1 DEF Entry
<1>5. QED
  BY <1>1, <1>3, <1>4 DEF Registers

\* An offer registers a fresh entry, or gives the registered one a new handle.
LEMMA OfferRegisters ==
    ASSUME TypeOK, NEW e \in Entries, NEW h \in Handles, NEW r \in BOOLEAN, Offer(e, h, r)
    PROVE  Net \in Threads /\ Registers(Net, e, h)
<1> USE DEF Offer, TypeOK, Threads, Goto, At, objects, mediaVars, locals, history
<1>1. (reg = None /\ entry[e].call = None) \/ reg = e
  BY DEF FreshEntry
<1>2. entry'[e] = [entry[e] EXCEPT !.call = h, !.relay = entry[e].relay \/ r]
  OBVIOUS
<1>3. entry'[e].call = h /\ entry'[e].started = entry[e].started
      /\ entry'[e].cancel = entry[e].cancel
  BY <1>2 DEF Entry
<1>4. QED
  BY <1>1, <1>3 DEF Registers

\* A newly registered entry has no media yet, so nothing is orphaned.
LEMMA RegistrationKeepsMediaInv ==
    ASSUME TypeOK, MediaInv, NEW t \in Threads, NEW e \in Entries, NEW h \in Handles,
           Registers(t, e, h)
    PROVE  MediaInv'
<1> USE LifecycleAssumption DEF MediaInv, Registers
<1>1. Registered'
  BY DEF Registered
<1>2. Removed'
  BY DEF Removed, Finishing
<1>3. \A f \in Entries : Cancelling(f)' <=> Cancelling(f)
  BY DEF Cancelling, At
<1>4. NoOrphanMedia'
  BY <1>3 DEF NoOrphanMedia
<1>5. ~Cancelling(e)
  BY DEF Cancelling, At, Removed, Finishing
<1>6. RegisteredMediaLives'
  BY <1>3, <1>5 DEF RegisteredMediaLives, Registered
<1>7. QED
  BY <1>1, <1>2, <1>4, <1>6

\* maybeStartMedia gives the registered entry a live context and its cancel
\* func in one critical section.
LEMMA StartKeepsMediaInv ==
    ASSUME TypeOK, MediaInv, NEW t \in Threads, Start(t)
    PROVE  MediaInv'
<1> USE DEF MediaInv
<1>1. /\ reg \in Entries /\ UNCHANGED <<reg, grabbed>>
      /\ \A f \in Entries \ {reg} : entry'[f] = entry[f] /\ ctx'[f] = ctx[f]
      /\ ctx'[reg] = "live"
      /\ \A u \in Threads \ {t} : pc'[u] = pc[u] /\ m'[u] = m[u]
      /\ pc[t] = "start" /\ pc'[t] = "startPhase"
  BY DEF Start, MayStart, TypeOK, Goto, At
<1>2. entry'[reg] = [entry[reg] EXCEPT !.started = TRUE, !.cancel = TRUE]
  BY <1>1 DEF Start, TypeOK
<1>3. /\ entry'[reg].call = entry[reg].call /\ entry'[reg].started /\ entry'[reg].cancel
  BY <1>1, <1>2 DEF TypeOK, Entry
<1>4. Registered'
  BY <1>1, <1>3, LifecycleAssumption DEF Registered
<1>5. Removed'
  BY <1>1, <1>3 DEF Removed, Finishing
<1>6. \A f \in Entries : Cancelling(f)' <=> Cancelling(f)
  BY <1>1 DEF Cancelling, At
<1>7. NoOrphanMedia'
  BY <1>1, <1>6 DEF NoOrphanMedia
<1>8. ~Cancelling(reg)
  BY DEF Cancelling, At, Removed, Finishing
<1>9. RegisteredMediaLives'
  BY <1>1, <1>6, <1>8 DEF RegisteredMediaLives
<1>10. QED
  BY <1>4, <1>5, <1>7, <1>9

\* finishCall takes the entry and its cancel func in one critical section.
LEMMA FinishKeepsMediaInv ==
    ASSUME TypeOK, MediaInv, NEW t \in Threads, Finish(t)
    PROVE  MediaInv'
<1> USE DEF MediaInv
<1>1. /\ reg \in Entries /\ reg' = None /\ ctx' = ctx
      /\ \A f \in Entries \ {reg} : entry'[f] = entry[f]
      /\ \A u \in Threads \ {t} : pc'[u] = pc[u] /\ m'[u] = m[u] /\ grabbed'[u] = grabbed[u]
      /\ pc[t] = "finish" /\ pc'[t] = "finishCancel"
      /\ m'[t] = reg /\ grabbed'[t] = entry[reg].cancel
  BY DEF Finish, TypeOK, Goto, At, mediaVars
<1>2. entry'[reg] = [entry[reg] EXCEPT !.cancel = FALSE]
  BY <1>1 DEF Finish, TypeOK
<1>3. entry'[reg].call = entry[reg].call /\ entry'[reg].started = entry[reg].started
  BY <1>1, <1>2 DEF TypeOK, Entry
<1>4. entry[reg].started => grabbed'[t]
  BY <1>1, LifecycleAssumption DEF Registered
<1>5. Registered'
  BY <1>1, <1>3 DEF Registered
<1>6. Removed'
  BY <1>1, <1>3, LifecycleAssumption DEF Removed, Registered
<1>7. \A f \in Entries \ {reg} : Cancelling(f)' <=> Cancelling(f)
  BY <1>1 DEF Cancelling, At
<1>8. \A f \in Entries : f = reg /\ entry[f].started => Cancelling(f)'
  BY <1>1, <1>4 DEF Cancelling, At
<1>9. NoOrphanMedia'
  BY <1>1, <1>3, <1>7, <1>8 DEF NoOrphanMedia
<1>10. RegisteredMediaLives'
  BY <1>1 DEF RegisteredMediaLives
<1>11. QED
  BY <1>5, <1>6, <1>9, <1>10

\* The cancellation hits an entry that is not registered any more.
LEMMA CancelKeepsMediaInv ==
    ASSUME TypeOK, MediaInv, NEW t \in Threads, FinishCancel(t)
    PROVE  MediaInv'
<1> USE DEF MediaInv
<1>1. /\ UNCHANGED <<reg, entry, m, grabbed>>
      /\ \A u \in Threads \ {t} : pc'[u] = pc[u]
      /\ pc[t] = "finishCancel" /\ pc'[t] = "finishCheck"
      /\ m[t] \in Entries /\ m[t] # reg
      /\ \A f \in Entries \ {m[t]} : ctx'[f] = ctx[f]
      /\ ctx'[m[t]] = IF grabbed[t] THEN "cancelled" ELSE ctx[m[t]]
  BY DEF FinishCancel, TypeOK, Goto, At, Removed, Finishing, objects, locals
<1>2. Registered' /\ Removed'
  BY <1>1 DEF Registered, Removed, Finishing
<1>3. \A f \in Entries : Cancelling(f)' => Cancelling(f)
  BY <1>1 DEF Cancelling, At
<1>4. \A f \in Entries : Cancelling(f) => Cancelling(f)' \/ (f = m[t] /\ grabbed[t])
  BY <1>1 DEF Cancelling, At
<1>5. NoOrphanMedia'
  BY <1>1, <1>4 DEF NoOrphanMedia
<1>6. RegisteredMediaLives'
  BY <1>1, <1>3 DEF RegisteredMediaLives, TypeOK
<1>7. QED
  BY <1>2, <1>5, <1>6

\* Every step keeps the media invariant.
LEMMA MediaInvStep == TypeOK /\ MediaInv /\ [Next]_vars => MediaInv'
<1> SUFFICES ASSUME TypeOK, MediaInv, [Next]_vars PROVE MediaInv'
  OBVIOUS
<1>1. ASSUME NEW t \in Apps, NEW e \in Entries, NEW h \in Handles, Place(t, e, h) PROVE MediaInv'
  BY <1>1, PlaceRegisters, RegistrationKeepsMediaInv DEF MediaInv
<1>2. ASSUME NEW e \in Entries, NEW h \in Handles, NEW r \in BOOLEAN, Offer(e, h, r) PROVE MediaInv'
  BY <1>2, OfferRegisters, RegistrationKeepsMediaInv
<1>3. ASSUME NEW t \in Apps, NEW h \in Handles, Answer(t, h) \/ HangUp(t, h) PROVE MediaInv'
  BY <1>3, AppSteps, PassingKeepsMediaInv
<1>4. CASE Relay \/ PreAccept \/ Accept \/ Mute \/ Terminated \/ ContinueNet
  BY <1>4, NetSteps, PassingKeepsMediaInv
<1>5. ASSUME NEW t \in Threads, Continue(t) PROVE MediaInv'
  BY <1>5, ThreadSteps, PassingKeepsMediaInv, StartKeepsMediaInv, FinishKeepsMediaInv,
     CancelKeepsMediaInv DEF Continue
<1>6. CASE UNCHANGED <<reg, entry, ctx, pc, m, grabbed>>
  BY <1>6 DEF MediaInv, Registered, Removed, NoOrphanMedia, RegisteredMediaLives, Cancelling, At
<1>7. ASSUME NEW e \in Entries, MediaStep(e) \/ Received(e) PROVE MediaInv'
  BY <1>6, <1>7, MediaSteps
<1>8. CASE UNCHANGED vars
  BY <1>6, <1>8 DEF vars, objects, mediaVars, locals
<1>9. QED
  BY <1>1, <1>2, <1>3, <1>4, <1>5, <1>7, <1>8 DEF Next, Begin

\* Init establishes the invariant, so every reachable state has it.
LEMMA MediaInvInductive == SafetySpec => [](TypeOK /\ MediaInv)
<1>1. Init => MediaInv
  BY DEF Init, MediaInv, Registered, Removed, Finishing, NoOrphanMedia, RegisteredMediaLives,
         NewEntry
<1>2. QED
  BY <1>1, MediaInvStep, LifecycleTypeOK, PTL DEF SafetySpec

\* Media cannot outlive the call: whatever goroutines race, an entry that
\* started media and was removed is cancelled, or its remover is about to.
THEOREM MediaIsNeverOrphaned == SafetySpec => []NoOrphanMedia
<1>1. MediaInv => NoOrphanMedia
  BY DEF MediaInv
<1>2. QED
  BY <1>1, MediaInvInductive, PTL

\* The media of a registered call is never cancelled.
THEOREM RegisteredMediaStaysAlive == SafetySpec => []RegisteredMediaLives
<1>1. MediaInv => RegisteredMediaLives
  BY DEF MediaInv
<1>2. QED
  BY <1>1, MediaInvInductive, PTL

(***************************************************************************)
(* The engine implements TaskLifetime: the media of an entry is a task.    *)
(***************************************************************************)

\* A context is made with the mark `started`, which the cancel func shows as
\* long as it is there; who is about to call it is alone, and it was not
\* called before.
ContextInv ==
    /\ \A e \in Entries : entry[e].started <=> ctx[e] # "none"
    /\ \A e \in Entries : entry[e].cancel => entry[e].started
    /\ \A e \in Entries : Cancelling(e) => ctx[e] = "live"
    /\ \A t, u \in Threads :
          At(t, "finishCancel") /\ At(u, "finishCancel") /\ m[t] = m[u] => t = u

\* What the refinement rests on.
OwnedInv == MediaInv /\ ContextInv

\* A step that passes keeps the contexts, and nobody's life changes.
LEMMA PassingKeepsLives ==
    ASSUME TypeOK, OwnedInv, NEW t \in Threads, Passes(t)
    PROVE  ContextInv' /\ MediaLife' = MediaLife
<1> USE DEF Passes
<1>1. \A e \in Entries : Cancelling(e)' <=> Cancelling(e)
  BY DEF Cancelling, At
<1>2. ContextInv'
  BY <1>1 DEF OwnedInv, ContextInv, At
<1>3. QED
  BY <1>1, <1>2 DEF MediaLife

\* An unused entry has no cancel func: a registration makes it as it was.
LEMMA RegistrationKeepsLives ==
    ASSUME TypeOK, OwnedInv, NEW t \in Threads, NEW e \in Entries, NEW h \in Handles,
           Registers(t, e, h), entry'[e].cancel => entry[e].cancel
    PROVE  ContextInv' /\ MediaLife' = MediaLife
<1> USE LifecycleAssumption DEF Registers
<1>1. \A f \in Entries : Cancelling(f)' <=> Cancelling(f)
  BY DEF Cancelling, At
<1>2. ContextInv'
  BY <1>1 DEF OwnedInv, ContextInv, At
<1>3. reg # e => ctx[e] = "none"
  BY DEF OwnedInv, MediaInv, Registered, ContextInv, TypeOK
<1>4. \A f \in Entries \ {e} : reg' # f /\ reg # f
  OBVIOUS
<1>5. QED
  BY <1>1, <1>2, <1>3, <1>4 DEF MediaLife

\* The life of an entry's media, case by case.
CasesOfLife ==
    \A e \in Entries :
        /\ MediaLife[e] \in {"fresh", "running", "doomed", "cancelled"}
        /\ MediaLife[e] = "fresh" <=> ctx[e] = "none"
        /\ MediaLife[e] = "cancelled" <=> ctx[e] = "cancelled"
        /\ MediaLife[e] = "running" <=> ctx[e] = "live" /\ reg = e
        /\ MediaLife[e] = "doomed" <=> Cancelling(e)

\* No entry's media is lost: nobody owns a context that lives on.
LEMMA LifeCases == TypeOK /\ OwnedInv => CasesOfLife
<1> SUFFICES ASSUME TypeOK, OwnedInv, NEW e \in Entries
             PROVE  /\ MediaLife[e] \in {"fresh", "running", "doomed", "cancelled"}
                    /\ MediaLife[e] = "fresh" <=> ctx[e] = "none"
                    /\ MediaLife[e] = "cancelled" <=> ctx[e] = "cancelled"
                    /\ MediaLife[e] = "running" <=> ctx[e] = "live" /\ reg = e
                    /\ MediaLife[e] = "doomed" <=> Cancelling(e)
  BY DEF CasesOfLife
<1>1. ctx[e] \in {"none", "live", "cancelled"}
  BY DEF TypeOK
<1>2. reg = e /\ ctx[e] = "live" => ~Cancelling(e)
  BY LifecycleAssumption DEF OwnedInv, MediaInv, RegisteredMediaLives, ContextInv, TypeOK
<1>3. reg # e /\ ctx[e] = "live" => Cancelling(e)
  BY DEF OwnedInv, MediaInv, NoOrphanMedia, ContextInv, TypeOK
<1>4. Cancelling(e) => ctx[e] = "live" /\ reg # e
  BY <1>2 DEF OwnedInv, ContextInv
<1>5. MediaLife[e] = CASE ctx[e] = "none" -> "fresh"
                       [] ctx[e] = "cancelled" -> "cancelled"
                       [] ctx[e] = "live" /\ reg = e /\ ~Cancelling(e) -> "running"
                       [] ctx[e] = "live" /\ reg # e /\ Cancelling(e) -> "doomed"
                       [] OTHER -> "lost"
  BY DEF MediaLife
<1>6. QED
  BY <1>1, <1>2, <1>3, <1>4, <1>5

\* The same of the state after a step.
LEMMA LifeCasesNext == TypeOK' /\ OwnedInv' => CasesOfLife'
  BY LifeCases, PTL

\* maybeStartMedia begins the life of one entry's media.
LEMMA StartRuns ==
    ASSUME TypeOK, TypeOK', OwnedInv, MediaInv', NEW t \in Threads, Start(t)
    PROVE  ContextInv' /\ Lifetime!Operate
<1>1. /\ reg \in Entries /\ UNCHANGED <<reg, grabbed>>
      /\ \A f \in Entries \ {reg} : entry'[f] = entry[f] /\ ctx'[f] = ctx[f]
      /\ ctx'[reg] = "live" /\ ~entry[reg].started
      /\ \A u \in Threads \ {t} : pc'[u] = pc[u] /\ m'[u] = m[u]
      /\ pc[t] = "start" /\ pc'[t] = "startPhase"
  BY DEF Start, MayStart, TypeOK, Goto, At
<1>2. entry'[reg].started
  <2>1. entry'[reg] = [entry[reg] EXCEPT !.started = TRUE, !.cancel = TRUE]
    BY <1>1 DEF Start, TypeOK
  <2>2. QED
    BY <1>1, <2>1 DEF TypeOK, Entry
<1>3. \A f \in Entries : Cancelling(f)' <=> Cancelling(f)
  BY <1>1 DEF Cancelling, At
<1>4. ContextInv'
  BY <1>1, <1>2, <1>3 DEF OwnedInv, ContextInv, At
<1>5. OwnedInv'
  BY <1>4 DEF OwnedInv
<1>6. MediaLife[reg] = "fresh" /\ MediaLife'[reg] = "running"
  BY <1>1, <1>5, LifeCases, LifeCasesNext DEF OwnedInv, ContextInv, CasesOfLife
<1>7. \A f \in Entries \ {reg} : MediaLife'[f] = MediaLife[f]
  BY <1>1, <1>3 DEF MediaLife
<1>8. MediaLife' \in [Entries -> Lifetime!LifeStates]
  BY <1>5, LifeCasesNext DEF MediaLife, Lifetime!LifeStates, CasesOfLife
<1>9. QED
  BY <1>4, <1>6, <1>7, <1>8 DEF Lifetime!Operate, Lifetime!Moves

\* finishCall dooms the media of the entry it removes, if there is any.
LEMMA FinishDooms ==
    ASSUME TypeOK, TypeOK', OwnedInv, MediaInv', NEW t \in Threads, Finish(t)
    PROVE  ContextInv' /\ Lifetime!Operate
<1>1. /\ reg \in Entries /\ reg' = None /\ ctx' = ctx
      /\ \A f \in Entries \ {reg} : entry'[f] = entry[f]
      /\ \A u \in Threads \ {t} : pc'[u] = pc[u] /\ m'[u] = m[u] /\ grabbed'[u] = grabbed[u]
      /\ pc[t] = "finish" /\ pc'[t] = "finishCancel"
      /\ m'[t] = reg /\ grabbed'[t] = entry[reg].cancel
  BY DEF Finish, TypeOK, Goto, At, mediaVars
<1>2. entry'[reg].cancel = FALSE /\ entry'[reg].started = entry[reg].started
  <2>1. entry'[reg] = [entry[reg] EXCEPT !.cancel = FALSE]
    BY <1>1 DEF Finish, TypeOK
  <2>2. QED
    BY <1>1, <2>1 DEF TypeOK, Entry
<1>3. \A f \in Entries \ {reg} : Cancelling(f)' <=> Cancelling(f)
  BY <1>1 DEF Cancelling, At
<1>4. \A u \in Threads : pc[u] = "finishCancel" => m[u] # reg
  BY DEF OwnedInv, MediaInv, Removed, Finishing
<1>5. \A f \in Entries : f = reg /\ Cancelling(f)' => entry[f].cancel
  BY <1>1, <1>4 DEF Cancelling, At
<1>6. entry[reg].started => ctx[reg] = "live"
  BY <1>1, LifecycleAssumption DEF OwnedInv, MediaInv, RegisteredMediaLives
<1>7. ContextInv'
  <2>1. \A e \in Entries : entry'[e].started <=> ctx'[e] # "none"
    BY <1>1, <1>2 DEF OwnedInv, ContextInv
  <2>2. \A e \in Entries : entry'[e].cancel => entry'[e].started
    BY <1>1, <1>2 DEF OwnedInv, ContextInv
  <2>3. \A e \in Entries : Cancelling(e)' => ctx'[e] = "live"
    BY <1>1, <1>3, <1>5, <1>6 DEF OwnedInv, ContextInv
  <2>4. \A u, w \in Threads : At(u, "finishCancel")' /\ At(w, "finishCancel")' /\ m'[u] = m'[w] => u = w
    BY <1>1, <1>4 DEF OwnedInv, ContextInv, At
  <2>5. QED
    BY <2>1, <2>2, <2>3, <2>4 DEF ContextInv
<1>8. OwnedInv'
  BY <1>7 DEF OwnedInv
<1>9. \A f \in Entries \ {reg} : MediaLife'[f] = MediaLife[f]
  BY <1>1, <1>3, LifecycleAssumption DEF MediaLife
<1>10. MediaLife'[reg] = MediaLife[reg] \/ (MediaLife[reg] = "running" /\ MediaLife'[reg] = "doomed")
  <2>1. CASE entry[reg].started
    <3>1. ctx[reg] = "live" /\ MediaLife[reg] = "running"
      BY <1>1, <1>6, <2>1, LifeCases DEF CasesOfLife
    <3>2. MediaLife'[reg] \in {"running", "doomed"}
      BY <1>1, <1>8, <3>1, LifeCasesNext DEF CasesOfLife
    <3>3. QED
      BY <3>1, <3>2
  <2>2. CASE ~entry[reg].started
    BY <1>1, <1>8, <2>2, LifeCases, LifeCasesNext DEF CasesOfLife, OwnedInv, ContextInv
  <2>3. QED
    BY <2>1, <2>2
<1>11. MediaLife' \in [Entries -> Lifetime!LifeStates]
  BY <1>8, LifeCasesNext DEF MediaLife, Lifetime!LifeStates, CasesOfLife
<1>12. QED
  BY <1>7, <1>9, <1>10, <1>11 DEF Lifetime!Operate, Lifetime!Moves

\* The cancellation ends the life of media that was doomed before.
LEMMA CancelEnds ==
    ASSUME TypeOK, TypeOK', OwnedInv, MediaInv', NEW t \in Threads, FinishCancel(t)
    PROVE  /\ ContextInv'
           /\ MediaLife' = MediaLife \/ \E e \in Entries : Lifetime!Cancel(e)
<1>1. /\ UNCHANGED <<reg, entry, m, grabbed>>
      /\ \A u \in Threads \ {t} : pc'[u] = pc[u]
      /\ pc[t] = "finishCancel" /\ pc'[t] = "finishCheck"
      /\ m[t] \in Entries /\ m[t] # reg
      /\ \A f \in Entries \ {m[t]} : ctx'[f] = ctx[f]
      /\ ctx'[m[t]] = IF grabbed[t] THEN "cancelled" ELSE ctx[m[t]]
  BY DEF FinishCancel, TypeOK, Goto, At, OwnedInv, MediaInv, Removed, Finishing, objects, locals
<1>2. \A f \in Entries \ {m[t]} : Cancelling(f)' <=> Cancelling(f)
  BY <1>1 DEF Cancelling, At
<1>3. \A u \in Threads \ {t} : pc[u] = "finishCancel" => m[u] # m[t]
  BY <1>1 DEF OwnedInv, ContextInv, At
<1>4. ~Cancelling(m[t])'
  BY <1>1, <1>3 DEF Cancelling, At
<1>5. Cancelling(m[t]) <=> grabbed[t]
  BY <1>1, <1>3 DEF Cancelling, At
<1>6. ContextInv'
  <2>1. \A e \in Entries : entry'[e].started <=> ctx'[e] # "none"
    BY <1>1, <1>5 DEF OwnedInv, ContextInv
  <2>2. \A e \in Entries : entry'[e].cancel => entry'[e].started
    BY <1>1 DEF OwnedInv, ContextInv
  <2>3. \A e \in Entries : Cancelling(e)' => ctx'[e] = "live"
    BY <1>1, <1>2, <1>4 DEF OwnedInv, ContextInv
  <2>4. \A u, w \in Threads : At(u, "finishCancel")' /\ At(w, "finishCancel")' /\ m'[u] = m'[w] => u = w
    BY <1>1 DEF OwnedInv, ContextInv, At
  <2>5. QED
    BY <2>1, <2>2, <2>3, <2>4 DEF ContextInv
<1>7. \A f \in Entries \ {m[t]} : MediaLife'[f] = MediaLife[f]
  BY <1>1, <1>2 DEF MediaLife
<1>8. CASE grabbed[t]
  <2>1. MediaLife[m[t]] = "doomed" /\ MediaLife'[m[t]] = "cancelled"
    BY <1>1, <1>5, <1>6, <1>8, LifeCases, LifeCasesNext DEF CasesOfLife, OwnedInv
  <2>2. MediaLife' = [MediaLife EXCEPT ![m[t]] = "cancelled"]
    BY <1>7, <2>1 DEF MediaLife
  <2>3. QED
    BY <1>1, <1>6, <2>1, <2>2 DEF Lifetime!Cancel
<1>9. CASE ~grabbed[t]
  <2>1. MediaLife'[m[t]] = MediaLife[m[t]]
    BY <1>1, <1>4, <1>5, <1>9 DEF MediaLife
  <2>2. MediaLife' = MediaLife
    BY <1>7, <2>1 DEF MediaLife
  <2>3. QED
    BY <1>6, <2>2
<1>10. QED
  BY <1>8, <1>9

\* Every step keeps the contexts owned, and is a step of TaskLifetime or
\* changes nobody's life.
LEMMA LifetimeStep ==
    TypeOK /\ TypeOK' /\ OwnedInv /\ MediaInv' /\ [Next]_vars
        => ContextInv' /\ [Lifetime!Next]_MediaLife
<1> SUFFICES ASSUME TypeOK, TypeOK', OwnedInv, MediaInv', [Next]_vars
             PROVE  ContextInv' /\ [Lifetime!Next]_MediaLife
  OBVIOUS
<1>0. MediaInv /\ Registered
  BY DEF OwnedInv, MediaInv
<1>1. ASSUME NEW t \in Apps, NEW e \in Entries, NEW h \in Handles, Place(t, e, h)
      PROVE  ContextInv' /\ MediaLife' = MediaLife
  <2>1. entry'[e] = [NewEntry EXCEPT !.call = h, !.dir = "outgoing"]
    BY <1>1 DEF Place, TypeOK
  <2>2. ~entry'[e].cancel
    BY <2>1 DEF NewEntry
  <2>3. QED
    BY <1>0, <1>1, <2>2, PlaceRegisters, RegistrationKeepsLives
<1>2. ASSUME NEW e \in Entries, NEW h \in Handles, NEW r \in BOOLEAN, Offer(e, h, r)
      PROVE  ContextInv' /\ MediaLife' = MediaLife
  <2>1. entry'[e] = [entry[e] EXCEPT !.call = h, !.relay = entry[e].relay \/ r]
    BY <1>2 DEF Offer, TypeOK
  <2>2. entry'[e].cancel = entry[e].cancel
    BY <2>1 DEF TypeOK, Entry
  <2>3. QED
    BY <1>2, <2>2, OfferRegisters, RegistrationKeepsLives
<1>3. ASSUME NEW t \in Apps, NEW h \in Handles, Answer(t, h) \/ HangUp(t, h)
      PROVE  ContextInv' /\ MediaLife' = MediaLife
  BY <1>3, AppSteps, PassingKeepsLives
<1>4. ASSUME Relay \/ PreAccept \/ Accept \/ Mute \/ Terminated \/ ContinueNet
      PROVE  ContextInv' /\ MediaLife' = MediaLife
  BY <1>4, NetSteps, PassingKeepsLives
<1>5. ASSUME NEW t \in Threads, Continue(t) PROVE ContextInv' /\ [Lifetime!Next]_MediaLife
  BY <1>5, ThreadSteps, PassingKeepsLives, StartRuns, FinishDooms, CancelEnds
     DEF Continue, Lifetime!Next
<1>6. ASSUME UNCHANGED <<reg, entry, ctx, pc, m, grabbed>>
      PROVE  ContextInv' /\ MediaLife' = MediaLife
  BY <1>6 DEF OwnedInv, ContextInv, MediaLife, Cancelling, At
<1>7. ASSUME NEW e \in Entries, MediaStep(e) \/ Received(e)
      PROVE  ContextInv' /\ MediaLife' = MediaLife
  BY <1>6, <1>7, MediaSteps
<1>8. CASE UNCHANGED vars
  BY <1>6, <1>8 DEF vars, objects, mediaVars, locals
<1>9. QED
  BY <1>1, <1>2, <1>3, <1>4, <1>5, <1>7, <1>8 DEF Next, Begin

\* The engine implements the task registry's promise for the media of its
\* calls, for any number of entries, goroutines and racing hangups: media is
\* doomed by the removal of its entry only, cancelled once, and never lost.
THEOREM ImplementsTaskLifetime == SafetySpec => MediaLivesAsPromised
<1>1. Init => ContextInv /\ Lifetime!Init
  BY LifecycleAssumption
     DEF Init, ContextInv, Cancelling, At, NewEntry, MediaLife, Lifetime!Init
<1>2. SafetySpec => [](TypeOK /\ OwnedInv)
  BY <1>1, LifetimeStep, MediaInvInductive, PTL DEF SafetySpec, OwnedInv
<1>3. QED
  BY <1>1, <1>2, LifetimeStep, MediaInvInductive, PTL
     DEF SafetySpec, OwnedInv, MediaLivesAsPromised, Lifetime!SafetySpec

(***************************************************************************)
(* OnEnd fires at most once.                                               *)
(***************************************************************************)

\* A handle belongs to one entry and was born when it did; the goroutines
\* that tear calls down have different entries, and their handles.
Owners ==
    /\ \A e, f \in Entries : e # f /\ entry[e].call = entry[f].call => entry[e].call = None
    /\ \A e \in Entries : entry[e].call # None => phase[entry[e].call] # "unborn"
    /\ \A t \in Threads : pc[t] \in Finishing => c[t] = entry[m[t]].call
    /\ \A t, u \in Threads :
          pc[t] \in Finishing /\ pc[u] \in Finishing /\ m[t] = m[u] => t = u

\* Nobody was told of the end of a handle that is registered, is being torn
\* down, or does not exist yet.
Untold ==
    /\ reg # None => onEnds[entry[reg].call] = 0
    /\ \A t \in Threads : pc[t] \in Finishing => onEnds[c[t]] = 0
    /\ \A h \in Handles : phase[h] = "unborn" => onEnds[h] = 0

\* The inductive invariant: with Owners, the one goroutine that takes an
\* entry out of the registry is the only one that ever tells its handle.
EndInv == Owners /\ Untold /\ OnEndAtMostOnce

\* A step of goroutine t that registers, removes and tells nothing.
Quietly(t) ==
    /\ UNCHANGED <<reg, onEnds>>
    /\ \A e \in Entries : entry'[e].call = entry[e].call
    /\ \A h \in Handles : phase'[h] = "unborn" => phase[h] = "unborn"
    /\ \A u \in Threads \ {t} : pc'[u] = pc[u] /\ m'[u] = m[u] /\ c'[u] = c[u]
    /\ pc'[t] \in Finishing => pc[t] \in Finishing /\ m'[t] = m[t] /\ c'[t] = c[t]

\* A quiet step (no registration, removal or report) keeps the end invariant.
LEMMA QuietKeepsEndInv ==
    ASSUME TypeOK, TypeOK', MediaInv, EndInv, NEW t \in Threads, Quietly(t)
    PROVE  EndInv'
<1> USE DEF Quietly, EndInv
<1>1. \A u \in Threads : pc'[u] \in Finishing =>
          pc[u] \in Finishing /\ m'[u] = m[u] /\ c'[u] = c[u]
  OBVIOUS
<1>2. \A u \in Threads : pc[u] \in Finishing => m[u] \in Entries
  BY DEF MediaInv, Removed
<1>3. \A e \in Entries : entry[e].call \in Handles \cup {None}
  BY DEF TypeOK, Entry
<1>4. Owners'
  BY <1>1, <1>2, <1>3 DEF Owners
<1>5. Untold'
  BY <1>1 DEF Untold, TypeOK
<1>6. OnEndAtMostOnce'
  BY DEF OnEndAtMostOnce
<1>7. QED
  BY <1>4, <1>5, <1>6

\* A new handle is nobody else's, and nobody was told of its end.
LEMMA RegistrationKeepsEndInv ==
    ASSUME TypeOK, MediaInv, EndInv, NEW t \in Threads, NEW e \in Entries, NEW h \in Handles,
           Registers(t, e, h), phase[h] = "unborn", phase' = [phase EXCEPT ![h] = phase'[h]],
           phase'[h] # "unborn", onEnds' = onEnds
    PROVE  EndInv'
<1> USE LifecycleAssumption DEF Registers, EndInv
<1>1. \A f \in Entries : entry[f].call # h
  BY DEF Owners
<1>2. \A u \in Threads : pc'[u] \in Finishing =>
          u # t /\ pc[u] \in Finishing /\ m'[u] = m[u] /\ c'[u] = c[u] /\ m[u] \in Entries \ {e}
  BY DEF MediaInv, Removed, Finishing
<1>3. \A f \in Entries : entry[f].call \in Handles \cup {None}
  BY DEF TypeOK, Entry
<1>4. \A k \in Handles : phase'[k] = "unborn" => phase[k] = "unborn"
  BY DEF TypeOK
<1>5. Owners'
  <2>1. \A f, g \in Entries : f # g /\ entry'[f].call = entry'[g].call => entry'[f].call = None
    BY <1>1 DEF Owners
  <2>2. \A f \in Entries : entry'[f].call # None => phase'[entry'[f].call] # "unborn"
    BY <1>3, <1>4 DEF Owners
  <2>3. QED
    BY <1>2, <2>1, <2>2 DEF Owners
<1>6. Untold'
  BY <1>2, <1>4 DEF Untold
<1>7. OnEndAtMostOnce'
  BY DEF OnEndAtMostOnce
<1>8. QED
  BY <1>5, <1>6, <1>7

\* The remover takes over the registered handle, which nobody else has.
LEMMA FinishKeepsEndInv ==
    ASSUME TypeOK, MediaInv, EndInv, NEW t \in Threads, Finish(t)
    PROVE  EndInv'
<1> USE DEF EndInv
<1>1. /\ reg \in Entries /\ reg' = None
      /\ UNCHANGED <<phase, onEnds>>
      /\ \A u \in Threads \ {t} : pc'[u] = pc[u] /\ m'[u] = m[u] /\ c'[u] = c[u]
      /\ m'[t] = reg /\ c'[t] = entry[reg].call
  BY DEF Finish, TypeOK, Goto, At, history
<1>2. entry' = [entry EXCEPT ![reg] = [entry[reg] EXCEPT !.cancel = FALSE]]
  BY DEF Finish
<1>3. \A f \in Entries : entry'[f].call = entry[f].call
  BY <1>1, <1>2 DEF TypeOK, Entry
<1>4. \A u \in Threads : pc[u] \in Finishing => m[u] \in Entries /\ m[u] # reg
  BY DEF MediaInv, Removed
<1>5. Owners'
  BY <1>1, <1>3, <1>4 DEF Owners
<1>6. Untold'
  BY <1>1, <1>3, LifecycleAssumption DEF Untold
<1>7. OnEndAtMostOnce'
  BY <1>1 DEF OnEndAtMostOnce
<1>8. QED
  BY <1>5, <1>6, <1>7

\* Telling the end of a handle leaves the other handles untold.
LEMMA NotifyKeepsEndInv ==
    ASSUME TypeOK, MediaInv, EndInv, NEW t \in Threads, FinishNotify(t)
    PROVE  EndInv'
<1> USE DEF EndInv
<1>1. /\ UNCHANGED <<reg, entry, phase, m, c>>
      /\ \A u \in Threads \ {t} : pc'[u] = pc[u]
      /\ pc[t] \in Finishing /\ pc'[t] = "idle"
  BY DEF FinishNotify, TypeOK, Goto, At, Finishing, objects, locals
<1>2. /\ m[t] \in Entries /\ m[t] # reg /\ c[t] = entry[m[t]].call /\ c[t] \in Handles
      /\ phase[c[t]] # "unborn"
  BY <1>1 DEF MediaInv, Removed, Owners, TypeOK, Entry
<1>3. /\ onEnds'[c[t]] = onEnds[c[t]] + 1 /\ onEnds[c[t]] = 0
      /\ \A h \in Handles \ {c[t]} : onEnds'[h] = onEnds[h]
  BY <1>1, <1>2 DEF FinishNotify, TypeOK, Untold
<1>4. \A u \in Threads \ {t} : pc[u] \in Finishing => c[u] # c[t] /\ c[u] \in Handles
  BY <1>1, <1>2 DEF MediaInv, Removed, Owners, TypeOK, Entry
<1>5. reg # None => entry[reg].call # c[t] /\ entry[reg].call \in Handles
  BY <1>2 DEF MediaInv, Registered, Owners, TypeOK, Entry
<1>6. Owners'
  BY <1>1 DEF Owners, Finishing
<1>7. Untold'
  BY <1>1, <1>2, <1>3, <1>4, <1>5 DEF Untold, Finishing
<1>8. OnEndAtMostOnce'
  BY <1>2, <1>3 DEF OnEndAtMostOnce
<1>9. QED
  BY <1>6, <1>7, <1>8

\* Answer and HangUp only start an operation: they are quiet.
LEMMA QuietAppSteps ==
    ASSUME TypeOK, NEW t \in Apps, NEW h \in Handles, Answer(t, h) \/ HangUp(t, h)
    PROVE  t \in Threads /\ Quietly(t)
  BY DEF Answer, HangUp, Quietly, At, Goto, TypeOK, Threads, Finishing,
         objects, mediaVars, locals, history

\* The stanzas other than an offer are quiet.
LEMMA QuietNetSteps ==
    ASSUME TypeOK, Relay \/ PreAccept \/ Accept \/ Mute \/ Terminated \/ ContinueNet
    PROVE  Net \in Threads /\ Quietly(Net)
<1> USE DEF Quietly, At, Goto, TypeOK, Threads, Finishing, objects, mediaVars, locals, history
<1>1. CASE Relay
  BY <1>1 DEF Relay, Entry
<1>2. CASE PreAccept \/ Accept \/ Mute \/ Terminated
  BY <1>2 DEF PreAccept, Accept, Mute, Terminated
<1>3. CASE PreAcceptPhase \/ AcceptPhase
  BY <1>3 DEF PreAcceptPhase, AcceptPhase, SetPhase
<1>4. CASE AcceptCheck \/ AcceptMark \/ SendAcceptNothing
  BY <1>4 DEF AcceptCheck, AcceptMark, SendAcceptNothing
<1>5. CASE SendAccept
  BY <1>5 DEF SendAccept, AcceptPending, Entry
<1>6. QED
  BY <1>1, <1>2, <1>3, <1>4, <1>5 DEF ContinueNet

\* The shared steps are quiet, but for Finish and FinishNotify.
LEMMA QuietThreadSteps ==
    ASSUME TypeOK, NEW t \in Threads,
           \/ Deliver(t) \/ PlaceFailed(t) \/ AnswerMark(t) \/ AnswerPhase(t)
           \/ Start(t) \/ StartNothing(t) \/ StartPhase(t) \/ Spawn(t)
           \/ FinishNothing(t) \/ FinishCancel(t) \/ FinishCheck(t) \/ FinishPhase(t)
    PROVE  Quietly(t)
<1> USE DEF Quietly, At, Goto, SetPhase, TypeOK, Finishing, objects, mediaVars, locals, history
<1>1. CASE Deliver(t) \/ PlaceFailed(t)
  BY <1>1 DEF Deliver, PlaceFailed
<1>2. CASE AnswerMark(t)
  BY <1>2 DEF AnswerMark, Entry
<1>3. CASE AnswerPhase(t) \/ StartPhase(t)
  BY <1>3 DEF AnswerPhase, StartPhase
<1>4. CASE Start(t)
  BY <1>4 DEF Start, MayStart, Entry
<1>5. CASE StartNothing(t) \/ Spawn(t)
  BY <1>5 DEF StartNothing, Spawn
<1>6. CASE FinishNothing(t) \/ FinishCancel(t) \/ FinishCheck(t)
  BY <1>6 DEF FinishNothing, FinishCancel, FinishCheck
<1>7. CASE FinishPhase(t)
  BY <1>7 DEF FinishPhase
<1>8. QED
  BY <1>1, <1>2, <1>3, <1>4, <1>5, <1>6, <1>7

\* The media goroutine ends no call.
LEMMA QuietMediaSteps ==
    ASSUME TypeOK, NEW e \in Entries, MediaStep(e) \/ Received(e)
    PROVE  Net \in Threads /\ Quietly(Net)
<1>1. \A h \in Handles : phase'[h] = "unborn" => phase[h] = "unborn"
  BY DEF MediaStep, Received, MediaConnected, MediaConnectFailed, MediaLoop, MediaActive,
         MediaPacket, MediaFirstAudio, MediaRecvFailed, SetPhase, TypeOK, objects
<1>2. QED
  BY <1>1, MediaSteps DEF Quietly, Threads

\* Every step keeps the end invariant.
LEMMA EndInvStep == TypeOK /\ TypeOK' /\ MediaInv /\ EndInv /\ [Next]_vars => EndInv'
<1> SUFFICES ASSUME TypeOK, TypeOK', MediaInv, EndInv, [Next]_vars PROVE EndInv'
  OBVIOUS
<1>1. ASSUME NEW t \in Apps, NEW e \in Entries, NEW h \in Handles, Place(t, e, h) PROVE EndInv'
  <2>1. phase[h] = "unborn" /\ phase' = [phase EXCEPT ![h] = phase'[h]]
        /\ phase'[h] # "unborn" /\ onEnds' = onEnds
    BY <1>1 DEF Place, FreshHandle, SetPhase, TypeOK, history
  <2>2. QED
    BY <1>1, <2>1, PlaceRegisters, RegistrationKeepsEndInv DEF MediaInv
<1>2. ASSUME NEW e \in Entries, NEW h \in Handles, NEW r \in BOOLEAN, Offer(e, h, r) PROVE EndInv'
  <2>1. phase[h] = "unborn" /\ phase' = [phase EXCEPT ![h] = phase'[h]]
        /\ phase'[h] # "unborn" /\ onEnds' = onEnds
    BY <1>2 DEF Offer, FreshHandle, SetPhase, TypeOK, history
  <2>2. QED
    BY <1>2, <2>1, OfferRegisters, RegistrationKeepsEndInv
<1>3. ASSUME NEW t \in Apps, NEW h \in Handles, Answer(t, h) \/ HangUp(t, h) PROVE EndInv'
  BY <1>3, QuietAppSteps, QuietKeepsEndInv
<1>4. CASE Relay \/ PreAccept \/ Accept \/ Mute \/ Terminated \/ ContinueNet
  BY <1>4, QuietNetSteps, QuietKeepsEndInv
<1>5. ASSUME NEW t \in Threads, Continue(t) PROVE EndInv'
  BY <1>5, QuietThreadSteps, QuietKeepsEndInv, FinishKeepsEndInv, NotifyKeepsEndInv DEF Continue
<1>6. ASSUME NEW e \in Entries, MediaStep(e) \/ Received(e) PROVE EndInv'
  BY <1>6, QuietMediaSteps, QuietKeepsEndInv
<1>7. CASE UNCHANGED vars
  BY <1>7 DEF vars, objects, mediaVars, locals, history, EndInv, Owners, Untold, OnEndAtMostOnce
<1>8. QED
  BY <1>1, <1>2, <1>3, <1>4, <1>5, <1>6, <1>7 DEF Next, Begin

\* However many hangups, rejects and terminates race, on however many
\* goroutines, OnEnd fires at most once for a call.
THEOREM OnEndFiresAtMostOnce == SafetySpec => []OnEndAtMostOnce
<1>1. Init => EndInv
  BY LifecycleAssumption
     DEF Init, EndInv, Owners, Untold, OnEndAtMostOnce, Finishing, NewEntry
<1>2. EndInv => OnEndAtMostOnce
  BY DEF EndInv
<1>3. QED
  BY <1>1, <1>2, EndInvStep, MediaInvInductive, PTL DEF SafetySpec

(***************************************************************************)
(* Every handle is told of the end.                                        *)
(***************************************************************************)

\* The places of finishCall where the phase is still to be set.
Tearing == {"finishCancel", "finishCheck", "finishPhase"}

\* A handle the application has, or is about to get, belongs to an entry.
Given ==
    /\ \A h \in handed : \E e \in Entries : entry[e].call = h
    /\ \A t \in Threads : pc[t] \in {"placed", "offered"} =>
          c[t] \in Handles /\ \E e \in Entries : entry[e].call = c[t]

\* The end of a handle was told, or its entry is registered or torn down by
\* somebody who will tell it.
Owed ==
    \A e \in Entries : entry[e].call # None =>
        \/ reg = e
        \/ onEnds[entry[e].call] = 1
        \/ \E t \in Threads : pc[t] \in Finishing /\ m[t] = e

\* Nobody else ended the handle of an entry that is registered or on its way
\* to be ended: finishCall would take it for finished.
NotEndedYet ==
    /\ reg # None => phase[entry[reg].call] # "Ended"
    /\ \A t \in Threads : pc[t] \in Tearing => phase[c[t]] # "Ended"

ToldInv == Given /\ Owed /\ NotEndedYet

\* A step of goroutine t that ends no handle and goes on with a teardown.
Silent(t) ==
    /\ \A h \in Handles : phase'[h] = "Ended" => phase[h] = "Ended"
    /\ pc[t] \in Finishing => pc'[t] \in Finishing
    /\ pc'[t] \in Tearing => pc[t] \in Tearing
    /\ pc'[t] \notin {"placed", "offered"}
    /\ \/ handed' = handed
       \/ pc[t] \in {"placed", "offered"} /\ handed' = handed \cup {c[t]}

\* The handles of registered entries and of teardowns are handles.
LEMMA HandlesInUse ==
    ASSUME TypeOK, MediaInv, EndInv
    PROVE  /\ reg # None => reg \in Entries /\ entry[reg].call \in Handles
           /\ \A t \in Threads : pc[t] \in Finishing =>
                 m[t] \in Entries /\ m[t] # reg /\ c[t] = entry[m[t]].call /\ c[t] \in Handles
<1>1. \A e \in Entries : entry[e].call # None => entry[e].call \in Handles
  BY DEF TypeOK, Entry
<1>2. reg # None => reg \in Entries /\ entry[reg].call # None
  BY DEF TypeOK, MediaInv, Registered
<1>3. \A t \in Threads : pc[t] \in Finishing =>
          m[t] \in Entries /\ m[t] # reg /\ entry[m[t]].call # None /\ c[t] = entry[m[t]].call
  BY DEF MediaInv, Removed, EndInv, Owners
<1>4. QED
  BY <1>1, <1>2, <1>3

\* A quiet and silent step keeps what is owed.
LEMMA SilentKeepsToldInv ==
    ASSUME TypeOK, MediaInv, EndInv, ToldInv, NEW t \in Threads, Quietly(t), Silent(t)
    PROVE  ToldInv'
<1> USE DEF Quietly, Silent, ToldInv
<1>1. Given'
  BY DEF Given
<1>2. Owed'
  <2>1. \A u \in Threads : pc[u] \in Finishing => pc'[u] \in Finishing /\ m'[u] = m[u]
    OBVIOUS
  <2>2. QED
    BY <2>1 DEF Owed
<1>3. NotEndedYet'
  <2>1. reg' # None => phase'[entry'[reg'].call] # "Ended"
    BY HandlesInUse DEF NotEndedYet
  <2>2. ASSUME NEW u \in Threads, pc'[u] \in Tearing
        PROVE  phase'[c'[u]] # "Ended"
    <3>1. pc[u] \in Tearing /\ c'[u] = c[u]
      BY <2>2 DEF Tearing, Finishing
    <3>2. c[u] \in Handles /\ phase[c[u]] # "Ended"
      BY <3>1, HandlesInUse DEF NotEndedYet, Tearing, Finishing
    <3>3. QED
      BY <3>1, <3>2
  <2>3. QED
    BY <2>1, <2>2 DEF NotEndedYet
<1>4. QED
  BY <1>1, <1>2, <1>3

\* A new entry is registered, so its end is owed; without repeated offers no
\* handle loses its entry.
LEMMA RegistrationKeepsToldInv ==
    ASSUME TypeOK, MediaInv, EndInv, ToldInv,
           NEW t \in Threads, NEW e \in Entries, NEW h \in Handles,
           Registers(t, e, h), Unused, phase[h] = "unborn",
           phase' = [phase EXCEPT ![h] = phase'[h]], phase'[h] # "Ended", onEnds' = onEnds,
           c' = [c EXCEPT ![t] = h], handed' = handed
    PROVE  ToldInv'
<1> USE DEF Registers, ToldInv
<1>1. reg = None /\ \A f \in Entries : entry[f].call = None
  BY HandlesInUse, LifecycleAssumption DEF Unused, FreshEntry
<1>2. handed = {} /\ \A u \in Threads : pc[u] \notin {"placed", "offered"} /\ pc[u] \notin Finishing
  <2>1. handed = {}
    BY <1>1, LifecycleAssumption DEF Given, TypeOK
  <2>2. \A u \in Threads : pc[u] \notin Finishing
    BY <1>1, HandlesInUse, LifecycleAssumption
  <2>3. \A u \in Threads : pc[u] \notin {"placed", "offered"}
    BY <1>1, LifecycleAssumption DEF Given
  <2>4. QED
    BY <2>1, <2>2, <2>3
<1>3. Given'
  BY <1>2 DEF Given, TypeOK
<1>4. Owed'
  BY <1>1 DEF Owed
<1>5. NotEndedYet'
  BY <1>2 DEF NotEndedYet, Tearing, Finishing
<1>6. QED
  BY <1>3, <1>4, <1>5

\* Who removes the entry owes the end of its handle.
LEMMA FinishKeepsToldInv ==
    ASSUME TypeOK, MediaInv, EndInv, ToldInv, NEW t \in Threads, Finish(t)
    PROVE  ToldInv'
<1> USE DEF ToldInv
<1>1. /\ reg \in Entries /\ reg' = None
      /\ UNCHANGED <<phase, onEnds, handed>>
      /\ pc[t] = "finish" /\ pc'[t] = "finishCancel"
      /\ \A u \in Threads \ {t} : pc'[u] = pc[u] /\ m'[u] = m[u] /\ c'[u] = c[u]
      /\ m'[t] = reg /\ c'[t] = entry[reg].call
  BY DEF Finish, TypeOK, Goto, At, history
<1>2. entry' = [entry EXCEPT ![reg] = [entry[reg] EXCEPT !.cancel = FALSE]]
  BY DEF Finish
<1>3. \A f \in Entries : entry'[f].call = entry[f].call
  BY <1>1, <1>2 DEF TypeOK, Entry
<1>4. Given'
  BY <1>1, <1>3 DEF Given
<1>5. Owed'
  <2>1. \A u \in Threads : pc[u] \in Finishing => u # t
    BY <1>1 DEF Finishing
  <2>2. QED
    BY <1>1, <1>3, <2>1 DEF Owed, Finishing
<1>6. NotEndedYet'
  BY <1>1, LifecycleAssumption DEF NotEndedYet
<1>7. QED
  BY <1>4, <1>5, <1>6

\* The phase is set on a handle no other goroutine tears down.
LEMMA FinishPhaseKeepsToldInv ==
    ASSUME TypeOK, MediaInv, EndInv, ToldInv, NEW t \in Threads, FinishPhase(t)
    PROVE  ToldInv'
<1> USE DEF ToldInv
<1>1. /\ UNCHANGED <<reg, entry, handed, m, c, onEnds>>
      /\ pc[t] = "finishPhase" /\ pc'[t] = "finishNotify"
      /\ \A u \in Threads \ {t} : pc'[u] = pc[u]
      /\ phase' = [phase EXCEPT ![c[t]] = "Ended"]
  BY DEF FinishPhase, SetPhase, TypeOK, Goto, At, locals, history
<1>2. m[t] \in Entries /\ m[t] # reg /\ c[t] = entry[m[t]].call /\ c[t] \in Handles /\ c[t] # None
  BY <1>1, HandlesInUse, LifecycleAssumption DEF Finishing
<1>3. \A u \in Threads \ {t} : pc[u] \in Finishing => c[u] # c[t] /\ c[u] \in Handles
  <2>1. ASSUME NEW u \in Threads \ {t}, pc[u] \in Finishing
        PROVE  c[u] # c[t] /\ c[u] \in Handles
    <3>1. m[u] # m[t]
      BY <1>1, <2>1 DEF EndInv, Owners, Finishing
    <3>2. QED
      BY <1>2, <2>1, <3>1, HandlesInUse DEF EndInv, Owners
  <2>2. QED
    BY <2>1
<1>4. reg # None => entry[reg].call # c[t] /\ entry[reg].call \in Handles
  BY <1>2, HandlesInUse DEF EndInv, Owners
<1>5. Given'
  BY <1>1 DEF Given
<1>6. Owed'
  BY <1>1 DEF Owed, Finishing
<1>7. NotEndedYet'
  BY <1>1, <1>3, <1>4 DEF NotEndedYet, TypeOK, Tearing, Finishing
<1>8. QED
  BY <1>5, <1>6, <1>7

\* Who owes the end of a handle tells it.
LEMMA NotifyKeepsToldInv ==
    ASSUME TypeOK, MediaInv, EndInv, ToldInv, NEW t \in Threads, FinishNotify(t)
    PROVE  ToldInv'
<1> USE DEF ToldInv
<1>1. /\ UNCHANGED <<reg, entry, phase, handed, m, c>>
      /\ pc[t] = "finishNotify" /\ pc'[t] = "idle"
      /\ \A u \in Threads \ {t} : pc'[u] = pc[u]
      /\ onEnds' = [onEnds EXCEPT ![c[t]] = @ + 1]
  BY DEF FinishNotify, TypeOK, Goto, At, objects, locals
<1>2. m[t] \in Entries /\ c[t] = entry[m[t]].call /\ c[t] \in Handles /\ onEnds[c[t]] = 0
  BY <1>1, HandlesInUse DEF EndInv, Untold, Finishing
<1>3. onEnds'[c[t]] = 1 /\ \A h \in Handles \ {c[t]} : onEnds'[h] = onEnds[h]
  BY <1>1, <1>2 DEF TypeOK
<1>4. Given'
  BY <1>1 DEF Given
<1>5. Owed'
  <2>1. ASSUME NEW e \in Entries, entry'[e].call # None
        PROVE  \/ reg' = e
               \/ onEnds'[entry'[e].call] = 1
               \/ \E u \in Threads : pc'[u] \in Finishing /\ m'[u] = e
    <3>1. CASE e = m[t]
      BY <1>1, <1>2, <1>3, <3>1
    <3>2. CASE e # m[t]
      <4>1. entry[e].call \in Handles \ {c[t]}
        BY <1>1, <1>2, <2>1, <3>2 DEF EndInv, Owners, TypeOK, Entry
      <4>2. QED
        BY <1>1, <1>3, <2>1, <3>2, <4>1 DEF Owed
    <3>3. QED
      BY <3>1, <3>2
  <2>2. QED
    BY <2>1 DEF Owed
<1>6. NotEndedYet'
  BY <1>1 DEF NotEndedYet, Tearing
<1>7. QED
  BY <1>4, <1>5, <1>6

\* The steps of applications and Net are silent.
LEMMA SilentBeginnings ==
    ASSUME TypeOK, NEW t \in Threads,
           \/ t \in Apps /\ \E h \in Handles : Answer(t, h) \/ HangUp(t, h)
           \/ t = Net /\ (Relay \/ PreAccept \/ Accept \/ Mute \/ Terminated \/ ContinueNet)
    PROVE  Silent(t)
<1> USE DEF Silent, At, Goto, TypeOK, Finishing, Tearing, objects, mediaVars, locals, history
<1>1. CASE t \in Apps /\ \E h \in Handles : Answer(t, h) \/ HangUp(t, h)
  BY <1>1 DEF Answer, HangUp
<1>2. CASE t = Net /\ (Relay \/ PreAccept \/ Accept \/ Mute \/ Terminated)
  BY <1>2 DEF Relay, PreAccept, Accept, Mute, Terminated
<1>3. CASE t = Net /\ (PreAcceptPhase \/ AcceptPhase)
  BY <1>3 DEF PreAcceptPhase, AcceptPhase, SetPhase
<1>4. CASE t = Net /\ (AcceptCheck \/ AcceptMark \/ SendAccept \/ SendAcceptNothing)
  BY <1>4 DEF AcceptCheck, AcceptMark, SendAccept, SendAcceptNothing
<1>5. QED
  BY <1>1, <1>2, <1>3, <1>4 DEF ContinueNet

\* So are the shared steps, but for the removal, the phase and the report;
\* finishCall does not find its handle ended already.
LEMMA SilentThreadSteps ==
    ASSUME TypeOK, NotEndedYet, NEW t \in Threads,
           \/ Deliver(t) \/ PlaceFailed(t) \/ AnswerMark(t) \/ AnswerPhase(t)
           \/ Start(t) \/ StartNothing(t) \/ StartPhase(t) \/ Spawn(t)
           \/ FinishNothing(t) \/ FinishCancel(t) \/ FinishCheck(t)
    PROVE  Silent(t)
<1> USE DEF Silent, At, Goto, SetPhase, TypeOK, Finishing, Tearing, objects, mediaVars, locals,
     history
<1>1. CASE Deliver(t) \/ PlaceFailed(t)
  BY <1>1 DEF Deliver, PlaceFailed
<1>2. CASE AnswerMark(t) \/ AnswerPhase(t)
  BY <1>2 DEF AnswerMark, AnswerPhase
<1>3. CASE Start(t) \/ StartPhase(t)
  BY <1>3 DEF Start, StartPhase
<1>4. CASE StartNothing(t) \/ Spawn(t)
  BY <1>4 DEF StartNothing, Spawn
<1>5. CASE FinishNothing(t) \/ FinishCancel(t)
  BY <1>5 DEF FinishNothing, FinishCancel
<1>6. CASE FinishCheck(t)
  BY <1>6 DEF FinishCheck, NotEndedYet
<1>7. QED
  BY <1>1, <1>2, <1>3, <1>4, <1>5, <1>6

\* And what the media goroutine does, also next to a goroutine that delivers.
LEMMA MediaKeepsToldInv ==
    ASSUME TypeOK, MediaInv, EndInv, ToldInv, NEW e \in Entries, MediaStep(e) \/ Received(e)
    PROVE  ToldInv'
<1>1. /\ \A h \in Handles : phase'[h] = "Ended" => phase[h] = "Ended"
      /\ handed' = handed
  BY DEF MediaStep, Received, MediaConnected, MediaConnectFailed, MediaLoop, MediaActive,
         MediaPacket, MediaFirstAudio, MediaRecvFailed, SetPhase, TypeOK, objects
<1>2. UNCHANGED <<reg, entry, pc, m, c, onEnds>>
  BY MediaSteps
<1>3. NotEndedYet'
  <2>1. \A t \in Threads : pc[t] \in Tearing => c[t] \in Handles
    BY HandlesInUse DEF Tearing, Finishing
  <2>2. QED
    BY <1>1, <1>2, <2>1, HandlesInUse DEF ToldInv, NotEndedYet
<1>4. Given' /\ Owed'
  BY <1>1, <1>2 DEF ToldInv, Given, Owed
<1>5. QED
  BY <1>3, <1>4 DEF ToldInv

\* Every step keeps what is owed, as long as no offer is repeated.
LEMMA ToldInvStep ==
    ASSUME ~DuplicateOffers
    PROVE  TypeOK /\ MediaInv /\ EndInv /\ ToldInv /\ [Next]_vars => ToldInv'
<1> SUFFICES ASSUME TypeOK, MediaInv, EndInv, ToldInv, [Next]_vars PROVE ToldInv'
  OBVIOUS
<1>1. ASSUME NEW t \in Apps, NEW e \in Entries, NEW h \in Handles, Place(t, e, h) PROVE ToldInv'
  <2>1. /\ phase[h] = "unborn" /\ phase' = [phase EXCEPT ![h] = phase'[h]]
        /\ phase'[h] # "Ended" /\ onEnds' = onEnds /\ Unused
        /\ c' = [c EXCEPT ![t] = h] /\ handed' = handed
    BY <1>1 DEF Place, FreshHandle, SetPhase, TypeOK, history
  <2>2. t \in Threads
    BY DEF Threads
  <2>3. Registers(t, e, h)
    BY <1>1, PlaceRegisters DEF MediaInv
  <2>4. QED
    BY <2>1, <2>2, <2>3, RegistrationKeepsToldInv
<1>2. ASSUME NEW e \in Entries, NEW h \in Handles, NEW r \in BOOLEAN, Offer(e, h, r) PROVE ToldInv'
  <2>1. /\ phase[h] = "unborn" /\ phase' = [phase EXCEPT ![h] = phase'[h]]
        /\ phase'[h] # "Ended" /\ onEnds' = onEnds /\ Unused
        /\ c' = [c EXCEPT ![Net] = h] /\ handed' = handed
    BY <1>2 DEF Offer, FreshHandle, SetPhase, TypeOK, history
  <2>2. Net \in Threads
    BY DEF Threads
  <2>3. Registers(Net, e, h)
    BY <1>2, OfferRegisters
  <2>4. QED
    BY <2>1, <2>2, <2>3, RegistrationKeepsToldInv
<1>3. ASSUME NEW t \in Apps, NEW h \in Handles, Answer(t, h) \/ HangUp(t, h) PROVE ToldInv'
  BY <1>3, QuietAppSteps, SilentBeginnings, SilentKeepsToldInv
<1>4. CASE Relay \/ PreAccept \/ Accept \/ Mute \/ Terminated \/ ContinueNet
  BY <1>4, QuietNetSteps, SilentBeginnings, SilentKeepsToldInv
<1>5. ASSUME NEW t \in Threads, Continue(t) PROVE ToldInv'
  <2>1. CASE Finish(t) \/ FinishPhase(t) \/ FinishNotify(t)
    BY <2>1, FinishKeepsToldInv, FinishPhaseKeepsToldInv, NotifyKeepsToldInv
  <2>2. CASE ~(Finish(t) \/ FinishPhase(t) \/ FinishNotify(t))
    <3>1. Quietly(t)
      BY <1>5, <2>2, QuietThreadSteps DEF Continue
    <3>2. Silent(t)
      BY <1>5, <2>2, SilentThreadSteps DEF Continue, ToldInv
    <3>3. QED
      BY <3>1, <3>2, SilentKeepsToldInv
  <2>3. QED
    BY <2>1, <2>2
<1>6. ASSUME NEW e \in Entries, MediaStep(e) \/ Received(e) PROVE ToldInv'
  BY <1>6, MediaKeepsToldInv
<1>7. CASE UNCHANGED vars
  BY <1>7 DEF vars, objects, mediaVars, locals, history, ToldInv, Given, Owed, NotEndedYet
<1>8. QED
  BY <1>1, <1>2, <1>3, <1>4, <1>5, <1>6, <1>7 DEF Next, Begin

\* When a call is over and every operation has returned, the application was
\* told of the end of each handle it got, however the goroutines that hang up
\* overtake each other; provided that the server repeats no offer.
THEOREM EveryHandleIsToldOnce ==
    ASSUME ~DuplicateOffers
    PROVE  SafetySpec => []EveryHandleIsTold
<1>1. Init => EndInv /\ ToldInv
  BY LifecycleAssumption
     DEF Init, EndInv, Owners, Untold, OnEndAtMostOnce, Finishing, NewEntry,
         ToldInv, Given, Owed, NotEndedYet, Tearing
<1>2. TypeOK /\ ToldInv => EveryHandleIsTold
  <2>1. SUFFICES ASSUME TypeOK, ToldInv, Quiet, NEW h \in handed
                 PROVE  onEnds[h] = 1
    BY DEF EveryHandleIsTold
  <2>2. PICK e \in Entries : entry[e].call = h
    BY <2>1 DEF ToldInv, Given
  <2>3. h # None /\ reg # e /\ \A t \in Threads : pc[t] \notin Finishing
    BY <2>1, LifecycleAssumption DEF TypeOK, Quiet, At, Finishing
  <2>4. QED
    BY <2>1, <2>2, <2>3 DEF ToldInv, Owed
<1>3. TypeOK /\ MediaInv /\ EndInv /\ ToldInv /\ [Next]_vars => ToldInv'
  BY ToldInvStep
<1>4. QED
  BY <1>1, <1>2, <1>3, EndInvStep, MediaInvInductive, PTL DEF SafetySpec

(***************************************************************************)
(* One media loop for an entry.                                            *)
(***************************************************************************)

\* The places of maybeStartMedia between the unlock and the goroutine.
Launching == {"startPhase", "spawn"}

\* The inductive invariant: only the goroutine that set `started` launches
\* the loop of an entry, and it has not launched it yet.
LoopInv ==
    /\ \A t \in Threads : pc[t] \in Launching =>
          m[t] \in Entries /\ entry[m[t]].started /\ loops[m[t]] = 0
    /\ \A t, u \in Threads :
          pc[t] \in Launching /\ pc[u] \in Launching /\ m[t] = m[u] => t = u
    /\ \A e \in Entries : ~entry[e].started => loops[e] = 0
    /\ OneLoopPerEntry

\* A step of goroutine t that neither starts media nor launches a loop.
LaunchesNothing(t) ==
    /\ loops' = loops
    /\ \A e \in Entries : entry'[e].started = entry[e].started
    /\ \A u \in Threads \ {t} : pc'[u] = pc[u] /\ m'[u] = m[u]
    /\ pc'[t] \in Launching => pc[t] \in Launching /\ m'[t] = m[t]

\* Only Start and Spawn bring a media goroutine closer to running.
LEMMA OtherStepsLaunchNothing ==
    ASSUME TypeOK, MediaInv, [Next]_vars,
           ~\E t \in Threads : Start(t) \/ Spawn(t)
    PROVE  \E t \in Threads : LaunchesNothing(t)
<1> USE DEF LaunchesNothing, At, Goto, Threads, Launching, objects, mediaVars, locals, history
<1>1. ASSUME NEW t \in Apps, NEW e \in Entries, NEW h \in Handles, Place(t, e, h)
      PROVE t \in Threads /\ LaunchesNothing(t)
  <2>1. Registers(t, e, h)
    BY <1>1, PlaceRegisters DEF MediaInv
  <2>2. QED
    BY <1>1, <2>1 DEF Registers, Place
<1>2. ASSUME NEW e \in Entries, NEW h \in Handles, NEW r \in BOOLEAN, Offer(e, h, r)
      PROVE LaunchesNothing(Net)
  <2>1. Registers(Net, e, h)
    BY <1>2, OfferRegisters
  <2>2. QED
    BY <1>2, <2>1 DEF Registers, Offer
<1>3. ASSUME NEW t \in Apps, NEW h \in Handles, Answer(t, h) \/ HangUp(t, h)
      PROVE t \in Threads /\ LaunchesNothing(t)
  BY <1>3 DEF Answer, HangUp, TypeOK
<1>4. CASE Relay
  <2>1. Passes(Net)
    BY <1>4, NetSteps
  <2>2. loops' = loops /\ pc'[Net] \notin Launching
    BY <1>4 DEF Relay, TypeOK
  <2>3. QED
    BY <2>1, <2>2 DEF Passes
<1>5. CASE PreAccept \/ Accept \/ Mute \/ Terminated
  BY <1>5 DEF PreAccept, Accept, Mute, Terminated, TypeOK
<1>6. CASE PreAcceptPhase \/ AcceptCheck \/ AcceptPhase \/ AcceptMark \/ SendAcceptNothing
  BY <1>6 DEF PreAcceptPhase, AcceptCheck, AcceptPhase, AcceptMark, SendAcceptNothing, TypeOK
<1>7. CASE SendAccept
  BY <1>7 DEF SendAccept, AcceptPending, TypeOK, Entry
<1>8. ASSUME NEW t \in Threads, Deliver(t) \/ PlaceFailed(t) \/ AnswerPhase(t) \/ StartNothing(t)
                                \/ StartPhase(t)
      PROVE LaunchesNothing(t)
  BY <1>8 DEF Deliver, PlaceFailed, AnswerPhase, StartNothing, StartPhase, TypeOK
<1>9. ASSUME NEW t \in Threads, AnswerMark(t) PROVE LaunchesNothing(t)
  BY <1>9 DEF AnswerMark, TypeOK, Entry
<1>10. ASSUME NEW t \in Threads, Finish(t) PROVE LaunchesNothing(t)
  BY <1>10 DEF Finish, TypeOK, Entry
<1>11. ASSUME NEW t \in Threads, FinishNothing(t) \/ FinishCancel(t) \/ FinishCheck(t)
                                 \/ FinishPhase(t) \/ FinishNotify(t)
       PROVE LaunchesNothing(t)
  BY <1>11 DEF FinishNothing, FinishCancel, FinishCheck, FinishPhase, FinishNotify, TypeOK
<1>12. ASSUME NEW e \in Entries, MediaStep(e) \/ Received(e) PROVE LaunchesNothing(Net)
  BY <1>12, MediaSteps
<1>13. CASE UNCHANGED vars
  BY <1>13 DEF vars
<1> HIDE DEF LaunchesNothing, At, Goto, Launching, objects, mediaVars, locals, history
<1>14. QED
  BY <1>1, <1>2, <1>3, <1>4, <1>5, <1>6, <1>7, <1>8, <1>9, <1>10, <1>11, <1>12, <1>13
     DEF Next, Begin, Continue, ContinueNet

\* Every step keeps the loop invariant.
LEMMA LoopInvStep == TypeOK /\ MediaInv /\ LoopInv /\ [Next]_vars => LoopInv'
<1> SUFFICES ASSUME TypeOK, MediaInv, LoopInv, [Next]_vars PROVE LoopInv'
  OBVIOUS
<1>1. ASSUME NEW t \in Threads, Start(t) PROVE LoopInv'
  <2>1. /\ reg \in Entries /\ ~entry[reg].started /\ loops' = loops
        /\ \A f \in Entries \ {reg} : entry'[f] = entry[f]
        /\ \A u \in Threads \ {t} : pc'[u] = pc[u] /\ m'[u] = m[u]
        /\ m'[t] = reg
    BY <1>1 DEF Start, MayStart, TypeOK, Goto, At, history
  <2>2. entry'[reg] = [entry[reg] EXCEPT !.started = TRUE, !.cancel = TRUE]
    BY <1>1, <2>1 DEF Start, TypeOK
  <2>3. entry'[reg].started
    BY <2>1, <2>2 DEF TypeOK, Entry
  <2>4. QED
    BY <2>1, <2>3 DEF LoopInv, OneLoopPerEntry
<1>2. ASSUME NEW t \in Threads, Spawn(t) PROVE LoopInv'
  <2>1. /\ m' = m /\ entry' = entry
        /\ \A u \in Threads \ {t} : pc'[u] = pc[u]
        /\ pc[t] \in Launching /\ pc'[t] \notin Launching
    BY <1>2 DEF Spawn, TypeOK, Goto, At, Launching, objects, locals
  <2>2. m[t] \in Entries /\ entry[m[t]].started /\ loops[m[t]] = 0
    BY <2>1 DEF LoopInv
  <2>3. /\ loops'[m[t]] = 1
        /\ \A e \in Entries \ {m[t]} : loops'[e] = loops[e]
    BY <1>2, <2>2 DEF Spawn, TypeOK
  <2>4. QED
    BY <2>1, <2>2, <2>3 DEF LoopInv, OneLoopPerEntry
<1>3. ASSUME NEW t \in Threads, LaunchesNothing(t) PROVE LoopInv'
  BY <1>3 DEF LaunchesNothing, LoopInv, OneLoopPerEntry
<1>4. QED
  BY <1>1, <1>2, <1>3, OtherStepsLaunchNothing

\* However relays, accepts and answers race, the media loop of an entry
\* starts at most once.
THEOREM MediaLoopStartsOnce == SafetySpec => []OneLoopPerEntry
<1>1. Init => LoopInv
  BY DEF Init, LoopInv, OneLoopPerEntry, Launching, NewEntry
<1>2. LoopInv => OneLoopPerEntry
  BY DEF LoopInv
<1>3. QED
  BY <1>1, <1>2, LoopInvStep, MediaInvInductive, PTL DEF SafetySpec

(***************************************************************************)
(* The deferred <accept>.                                                  *)
(***************************************************************************)

\* The inductive invariant: an entry that waits for its <accept> was
\* answered once more than <accept>s were sent.
AcceptInv ==
    \A e \in Entries : /\ accepts[e] <= answers[e]
                       /\ entry[e].acceptPending => accepts[e] < answers[e]

\* A step that neither marks an entry nor sends an <accept>.
AcceptsNothing ==
    /\ UNCHANGED <<answers, accepts>>
    /\ \A e \in Entries : entry'[e].acceptPending => entry[e].acceptPending

\* Only AnswerMark and SendAccept touch the accept balance of an old entry.
LEMMA OtherStepsAcceptNothing ==
    ASSUME TypeOK, [Next]_vars, ~SendAccept, ~\E t \in Threads : AnswerMark(t)
    PROVE  AcceptsNothing
<1> USE DEF AcceptsNothing, objects, mediaVars, locals, history
<1>1. ASSUME NEW t \in Apps, NEW e \in Entries, NEW h \in Handles, Place(t, e, h)
      PROVE AcceptsNothing
  <2>1. [NewEntry EXCEPT !.call = h, !.dir = "outgoing"].acceptPending = FALSE
    BY DEF NewEntry
  <2>2. QED
    BY <1>1, <2>1 DEF Place, TypeOK
<1>2. ASSUME NEW e \in Entries, NEW h \in Handles, NEW r \in BOOLEAN, Offer(e, h, r)
      PROVE AcceptsNothing
  BY <1>2 DEF Offer, TypeOK, Entry
<1>3. ASSUME NEW t \in Apps, NEW h \in Handles, Answer(t, h) \/ HangUp(t, h)
      PROVE AcceptsNothing
  BY <1>3 DEF Answer, HangUp
<1>4. CASE Relay
  BY <1>4 DEF Relay, TypeOK, Entry
<1>5. CASE PreAccept \/ Accept \/ Mute \/ Terminated
  BY <1>5 DEF PreAccept, Accept, Mute, Terminated
<1>6. CASE PreAcceptPhase \/ AcceptCheck \/ AcceptPhase \/ AcceptMark \/ SendAcceptNothing
  BY <1>6 DEF PreAcceptPhase, AcceptCheck, AcceptPhase, AcceptMark, SendAcceptNothing
<1>7. ASSUME NEW t \in Threads, Deliver(t) \/ PlaceFailed(t) \/ AnswerPhase(t) \/ StartNothing(t)
                                \/ StartPhase(t) \/ Spawn(t)
      PROVE AcceptsNothing
  BY <1>7 DEF Deliver, PlaceFailed, AnswerPhase, StartNothing, StartPhase, Spawn
<1>8. ASSUME NEW t \in Threads, Start(t) PROVE AcceptsNothing
  BY <1>8 DEF Start, TypeOK, Entry
<1>9. ASSUME NEW t \in Threads, Finish(t) PROVE AcceptsNothing
  BY <1>9 DEF Finish, TypeOK, Entry
<1>10. ASSUME NEW t \in Threads, FinishNothing(t) \/ FinishCancel(t) \/ FinishCheck(t)
                                 \/ FinishPhase(t) \/ FinishNotify(t)
       PROVE AcceptsNothing
  BY <1>10 DEF FinishNothing, FinishCancel, FinishCheck, FinishPhase, FinishNotify
<1>11. ASSUME NEW e \in Entries, MediaStep(e) \/ Received(e) PROVE AcceptsNothing
  BY <1>11, MediaSteps
<1>12. CASE UNCHANGED vars
  BY <1>12 DEF vars
<1> HIDE DEF AcceptsNothing, objects, mediaVars, locals, history
<1>13. QED
  BY <1>1, <1>2, <1>3, <1>4, <1>5, <1>6, <1>7, <1>8, <1>9, <1>10, <1>11, <1>12
     DEF Next, Begin, Continue, ContinueNet

\* Every step keeps accepts and the pending mark within the answers.
LEMMA AcceptInvStep == TypeOK /\ TypeOK' /\ AcceptInv /\ [Next]_vars => AcceptInv'
<1> SUFFICES ASSUME TypeOK, TypeOK', AcceptInv, [Next]_vars PROVE AcceptInv'
  OBVIOUS
<1>1. \A e \in Entries : accepts[e] \in Nat /\ answers[e] \in Nat
  BY DEF TypeOK
<1>2. ASSUME NEW t \in Threads, AnswerMark(t) PROVE AcceptInv'
  <2>1. /\ accepts' = accepts
        /\ \A e \in Entries : e = m[t] => answers'[e] = answers[e] + 1
        /\ \A e \in Entries \ {m[t]} : answers'[e] = answers[e] /\ entry'[e] = entry[e]
    BY <1>2 DEF AnswerMark, TypeOK
  <2>2. QED
    BY <1>1, <2>1 DEF AcceptInv
<1>3. CASE SendAccept
  <2>1. /\ reg \in Entries /\ entry[reg].acceptPending /\ answers' = answers
        /\ accepts'[reg] = accepts[reg] + 1
        /\ \A e \in Entries \ {reg} : accepts'[e] = accepts[e] /\ entry'[e] = entry[e]
    BY <1>3 DEF SendAccept, AcceptPending, TypeOK
  <2>2. entry'[reg] = [entry[reg] EXCEPT !.acceptPending = FALSE]
    BY <1>3, <2>1 DEF SendAccept, TypeOK
  <2>3. ~entry'[reg].acceptPending
    BY <2>1, <2>2 DEF TypeOK, Entry
  <2>4. \A e \in Entries : e = reg => accepts'[e] <= answers'[e] /\ ~entry'[e].acceptPending
    BY <1>1, <2>1, <2>3 DEF AcceptInv
  <2>5. QED
    BY <2>1, <2>4 DEF AcceptInv
<1>4. CASE AcceptsNothing
  BY <1>4 DEF AcceptsNothing, AcceptInv
<1>5. QED
  BY <1>2, <1>3, <1>4, OtherStepsAcceptNothing

\* An <accept> is only ever sent for an Answer, and an Answer buys only one,
\* however the mute_v2 stanzas fall between the critical sections.
THEOREM AcceptsNeverExceedAnswers == SafetySpec => []AcceptsMatchAnswers
<1>1. Init => AcceptInv
  BY DEF Init, AcceptInv, NewEntry
<1>2. AcceptInv => AcceptsMatchAnswers
  BY DEF AcceptInv, AcceptsMatchAnswers
<1>3. QED
  BY <1>1, <1>2, AcceptInvStep, LifecycleTypeOK, PTL DEF SafetySpec
=============================================================================
