--------------------------- MODULE CallLifecycle ---------------------------
(***************************************************************************)
(* The life of one direct (1:1) call-id inside the engine (engine.go,      *)
(* engine_media.go, livecall.go): placing, offering, answering, accepting, *)
(* rejecting, hanging up, and the media goroutine.                         *)
(*                                                                         *)
(* Three kinds of goroutine run interleaved: Net, on which whatsmeow       *)
(* dispatches the inbound stanzas one at a time; the application's own     *)
(* goroutines, which call the methods of a Call; and one media goroutine   *)
(* per engineCall.  A step of a goroutine is one critical section of e.mu  *)
(* or of call.mu, so everything the code does between two critical         *)
(* sections may be overtaken.                                              *)
(*                                                                         *)
(* An entry is an engineCall object and a handle is a Call object: the     *)
(* code keeps pointers to both after the entry left e.calls, so both have  *)
(* an identity of their own.                                               *)
(***************************************************************************)
EXTENDS CallSession

CONSTANTS Entries,         \* engineCall objects
          Handles,         \* Call objects
          Apps,            \* application goroutines
          Net,             \* the dispatch goroutine
          None,            \* the nil pointer
          MaxAnswers,      \* bound: no Answer begins after so many on an entry
          DuplicateOffers  \* whether the server may repeat an offer

ASSUME LifecycleAssumption ==
    /\ None \notin Entries \cup Handles
    /\ Net \notin Apps
    /\ MaxAnswers \in Nat
    /\ DuplicateOffers \in BOOLEAN

Threads == Apps \cup {Net}

VARIABLES
    reg,       \* e.calls[callID]: the registered entry, or None
    entry,     \* the fields of every engineCall
    phase,     \* Call.phase of every handle
    handed,    \* the handles the application was given
    ctx,       \* the media context of every entry
    media,     \* where the media goroutine of every entry is
    mediaCall, \* the handle the media goroutine of an entry works for
    heard,     \* the entries whose media goroutine decoded audio (rtpIn > 0)
    pc,        \* where each goroutine is
    m,         \* its local engineCall pointer
    c,         \* its local Call pointer
    grabbed,   \* whether it took the cancel func out of the entry
    answers,   \* history: how often each entry was marked to accept
    accepts,   \* history: how many <accept> were sent for each entry
    loops,     \* history: how many media goroutines each entry started
    onEnds     \* history: how often OnEnd fired for each handle

objects == <<reg, entry, phase, handed>>
mediaVars == <<ctx, media, mediaCall, heard>>
locals == <<m, c, grabbed>>
history == <<answers, accepts, loops, onEnds>>
vars == <<objects, mediaVars, pc, locals, history>>

Entry == [call : Handles \cup {None}, dir : Directions, relay : BOOLEAN,
          started : BOOLEAN, acceptPending : BOOLEAN, cancel : BOOLEAN]

Labels == {"idle", "placed", "offered", "answer", "answerPhase", "start", "startPhase", "spawn",
           "preaccept", "accept", "acceptPhase", "acceptMark", "mute",
           "finish", "finishCancel", "finishCheck", "finishPhase", "finishNotify"}

\* The places of finishCall after it removed the entry.
Finishing == {"finishCancel", "finishCheck", "finishPhase", "finishNotify"}

TypeOK ==
    /\ reg \in Entries \cup {None}
    /\ entry \in [Entries -> Entry]
    /\ phase \in [Handles -> Phases \cup {"unborn"}]
    /\ handed \subseteq Handles
    /\ ctx \in [Entries -> {"none", "live", "cancelled"}]
    /\ media \in [Entries -> {"none", "connect", "loop", "recv", "first", "done"}]
    /\ mediaCall \in [Entries -> Handles \cup {None}]
    /\ heard \subseteq Entries
    /\ pc \in [Threads -> Labels]
    /\ m \in [Threads -> Entries \cup {None}]
    /\ c \in [Threads -> Handles \cup {None}]
    /\ grabbed \in [Threads -> BOOLEAN]
    /\ answers \in [Entries -> Nat]
    /\ accepts \in [Entries -> Nat]
    /\ loops \in [Entries -> Nat]
    /\ onEnds \in [Handles -> Nat]

NewEntry == [call |-> None, dir |-> "incoming", relay |-> FALSE, started |-> FALSE,
             acceptPending |-> FALSE, cancel |-> FALSE]

Init ==
    /\ reg = None
    /\ entry = [e \in Entries |-> NewEntry]
    /\ phase = [h \in Handles |-> "unborn"]
    /\ handed = {}
    /\ ctx = [e \in Entries |-> "none"]
    /\ media = [e \in Entries |-> "none"]
    /\ mediaCall = [e \in Entries |-> None]
    /\ heard = {}
    /\ pc = [t \in Threads |-> "idle"]
    /\ m = [t \in Threads |-> None]
    /\ c = [t \in Threads |-> None]
    /\ grabbed = [t \in Threads |-> FALSE]
    /\ answers = [e \in Entries |-> 0]
    /\ accepts = [e \in Entries |-> 0]
    /\ loops = [e \in Entries |-> 0]
    /\ onEnds = [h \in Handles |-> 0]

-----------------------------------------------------------------------------
(* Helpers.                                                                *)

Goto(t, label) == pc' = [pc EXCEPT ![t] = label]

At(t, label) == pc[t] = label

\* Call.setPhase: no validation; OnStateChange fires when the phase differs.
SetPhase(h, p) == phase' = [phase EXCEPT ![h] = p]

FreshEntry(e) == entry[e].call = None
FreshHandle(h) == phase[h] = "unborn"

\* No entry of the call-id was ever made.
Unused == \A e \in Entries : FreshEntry(e)

-----------------------------------------------------------------------------
(* The start of a call.                                                    *)

\* Variant of Place: the handle is not kept for the return.
PlaceForgettingHandle(t, e, h) ==
    /\ t \in Apps /\ At(t, "idle") /\ Unused /\ FreshHandle(h)
    /\ reg' = e
    /\ entry' = [entry EXCEPT ![e] = [NewEntry EXCEPT !.call = h, !.dir = "outgoing"]]
    /\ SetPhase(h, "Calling")
    /\ Goto(t, "placed")
    /\ UNCHANGED <<handed, mediaVars, locals, history>>

\* placeCall up to the send: the entry is registered before the offer goes
\* out.  The call-id is random, so nothing else ever used it.
Place(t, e, h) ==
    /\ t \in Apps /\ At(t, "idle") /\ Unused /\ FreshHandle(h)
    /\ reg' = e
    /\ entry' = [entry EXCEPT ![e] = [NewEntry EXCEPT !.call = h, !.dir = "outgoing"]]
    /\ SetPhase(h, "Calling")
    /\ c' = [c EXCEPT ![t] = h]
    /\ Goto(t, "placed")
    /\ UNCHANGED <<handed, mediaVars, m, grabbed, history>>

\* The application gets the handle: the offer was sent and placeCall returns
\* it, or onOffer passes it to the OnIncomingCall callback.
Deliver(t) ==
    /\ pc[t] \in {"placed", "offered"}
    /\ handed' = handed \cup {c[t]}
    /\ Goto(t, "idle")
    /\ UNCHANGED <<reg, entry, phase, mediaVars, locals, history>>

\* The send failed: the application gets an error and no handle, and the
\* entry stays registered.
PlaceFailed(t) ==
    /\ At(t, "placed")
    /\ Goto(t, "idle")
    /\ UNCHANGED <<objects, mediaVars, locals, history>>

\* Variant of Offer: a repeat resets the registered entry.
OfferResettingEntry(e, h, withRelay) ==
    /\ At(Net, "idle") /\ FreshHandle(h)
    /\ \A f \in Entries : entry[f].dir = "incoming"
    /\ IF reg = None THEN FreshEntry(e) ELSE e = reg
    /\ DuplicateOffers \/ Unused
    /\ reg' = e
    /\ entry' = [entry EXCEPT ![e] = [NewEntry EXCEPT !.call = h, !.relay = withRelay]]
    /\ SetPhase(h, "Ringing")
    /\ c' = [c EXCEPT ![Net] = h]
    /\ Goto(Net, "offered")
    /\ UNCHANGED <<handed, mediaVars, m, grabbed, history>>

\* onOffer: a new handle in a new entry, or in the registered one when the
\* server repeats the offer; a repeat overwrites call, direction and, if it
\* carries one, the relay, and keeps the rest.
Offer(e, h, withRelay) ==
    /\ At(Net, "idle") /\ FreshHandle(h)
    /\ \A f \in Entries : entry[f].dir = "incoming"
    /\ IF reg = None THEN FreshEntry(e) ELSE e = reg
    /\ DuplicateOffers \/ Unused
    /\ reg' = e
    /\ entry' = [entry EXCEPT ![e].call = h, ![e].relay = @ \/ withRelay]
    /\ SetPhase(h, "Ringing")
    /\ c' = [c EXCEPT ![Net] = h]
    /\ Goto(Net, "offered")
    /\ UNCHANGED <<handed, mediaVars, m, grabbed, history>>

-----------------------------------------------------------------------------
(* maybeStartMedia.                                                        *)

\* Variant of MayStart: it does not look at `started`.
MayStartAgain == reg # None /\ entry[reg].relay

\* A registered entry without a media context and with a relay (the key is
\* there since registration).
MayStart == reg # None /\ ~entry[reg].started /\ entry[reg].relay

\* Variant of Start: the cancel func is not stored under the lock.
StartWithoutCancel(t) ==
    /\ At(t, "start")
    /\ MayStart
    /\ entry' = [entry EXCEPT ![reg].started = TRUE]
    /\ ctx' = [ctx EXCEPT ![reg] = "live"]
    /\ mediaCall' = [mediaCall EXCEPT ![reg] = entry[reg].call]
    /\ m' = [m EXCEPT ![t] = reg]
    /\ Goto(t, "startPhase")
    /\ UNCHANGED <<reg, phase, handed, media, heard, c, grabbed, history>>

\* The locked part: the entry gets a media context.
Start(t) ==
    /\ At(t, "start")
    /\ MayStart
    /\ entry' = [entry EXCEPT ![reg].started = TRUE, ![reg].cancel = TRUE]
    /\ ctx' = [ctx EXCEPT ![reg] = "live"]
    /\ mediaCall' = [mediaCall EXCEPT ![reg] = entry[reg].call]
    /\ m' = [m EXCEPT ![t] = reg]
    /\ Goto(t, "startPhase")
    /\ UNCHANGED <<reg, phase, handed, media, heard, c, grabbed, history>>

StartNothing(t) ==
    /\ At(t, "start")
    /\ ~MayStart
    /\ Goto(t, "idle")
    /\ UNCHANGED <<objects, mediaVars, locals, history>>

\* After the unlock: the phase, and then the goroutine.
StartPhase(t) ==
    /\ At(t, "startPhase")
    /\ SetPhase(mediaCall[m[t]], "Connecting")
    /\ Goto(t, "spawn")
    /\ UNCHANGED <<reg, entry, handed, mediaVars, locals, history>>

Spawn(t) ==
    /\ At(t, "spawn")
    /\ media' = [media EXCEPT ![m[t]] = "connect"]
    /\ loops' = [loops EXCEPT ![m[t]] = @ + 1]
    /\ Goto(t, "idle")
    /\ UNCHANGED <<objects, ctx, mediaCall, heard, locals, answers, accepts, onEnds>>

-----------------------------------------------------------------------------
(* Answer, on an application goroutine.                                    *)

\* engine.answer finds the entry of the handle's call-id; without one it
\* returns an error.
Answer(t, h) ==
    /\ t \in Apps /\ At(t, "idle") /\ h \in handed /\ reg # None
    /\ answers[reg] < MaxAnswers
    /\ m' = [m EXCEPT ![t] = reg]
    /\ c' = [c EXCEPT ![t] = h]
    /\ Goto(t, "answer")
    /\ UNCHANGED <<objects, mediaVars, grabbed, history>>

AnswerMark(t) ==
    /\ At(t, "answer")
    /\ entry' = [entry EXCEPT ![m[t]].acceptPending = TRUE]
    /\ answers' = [answers EXCEPT ![m[t]] = @ + 1]
    /\ Goto(t, "answerPhase")
    /\ UNCHANGED <<reg, phase, handed, mediaVars, locals, accepts, loops, onEnds>>

AnswerPhase(t) ==
    /\ At(t, "answerPhase")
    /\ SetPhase(c[t], "Connecting")
    /\ Goto(t, "start")
    /\ UNCHANGED <<reg, entry, handed, mediaVars, locals, history>>

-----------------------------------------------------------------------------
(* Inbound stanzas, on Net.                                                *)

\* onRelay (relaylatency, transport, or the ack of an offer).
Relay ==
    /\ At(Net, "idle") /\ reg # None
    /\ entry' = [entry EXCEPT ![reg].relay = TRUE]
    /\ Goto(Net, "start")
    /\ UNCHANGED <<reg, phase, handed, mediaVars, locals, history>>

\* onPreAccept reads the phase, and sets Ringing after it.
PreAccept ==
    /\ At(Net, "idle") /\ reg # None
    /\ entry[reg].dir = "outgoing" /\ phase[entry[reg].call] = "Calling"
    /\ c' = [c EXCEPT ![Net] = entry[reg].call]
    /\ Goto(Net, "preaccept")
    /\ UNCHANGED <<objects, mediaVars, m, grabbed, history>>

PreAcceptPhase ==
    /\ At(Net, "preaccept")
    /\ SetPhase(c[Net], "Ringing")
    /\ Goto(Net, "idle")
    /\ UNCHANGED <<reg, entry, handed, mediaVars, locals, history>>

\* onAccept: ignored for an ended call; the phase only moves forward.
Accept ==
    /\ At(Net, "idle") /\ reg # None
    /\ entry[reg].dir = "outgoing" /\ phase[entry[reg].call] # "Ended"
    /\ c' = [c EXCEPT ![Net] = entry[reg].call]
    /\ Goto(Net, "accept")
    /\ UNCHANGED <<objects, mediaVars, m, grabbed, history>>

AcceptCheck ==
    /\ At(Net, "accept")
    /\ IF PhaseValue[phase[c[Net]]] < PhaseValue["Connecting"]
         THEN Goto(Net, "acceptPhase")
         ELSE Goto(Net, "acceptMark")
    /\ UNCHANGED <<objects, mediaVars, locals, history>>

AcceptPhase ==
    /\ At(Net, "acceptPhase")
    /\ SetPhase(c[Net], "Connecting")
    /\ Goto(Net, "acceptMark")
    /\ UNCHANGED <<reg, entry, handed, mediaVars, locals, history>>

\* markPeerAccepted; its one-shot callback is the subject of CallNotify.
AcceptMark ==
    /\ At(Net, "acceptMark")
    /\ Goto(Net, "start")
    /\ UNCHANGED <<objects, mediaVars, locals, history>>

AcceptPending == reg # None /\ entry[reg].acceptPending

\* onCallRaw on mute_v2 looks whether an accept is pending ...
Mute ==
    /\ At(Net, "idle") /\ AcceptPending
    /\ Goto(Net, "mute")
    /\ UNCHANGED <<objects, mediaVars, locals, history>>

\* Variant of SendAccept: the mark stays set.
SendAcceptKeepingMark ==
    /\ At(Net, "mute")
    /\ AcceptPending
    /\ accepts' = [accepts EXCEPT ![reg] = @ + 1]
    /\ Goto(Net, "idle")
    /\ UNCHANGED <<objects, mediaVars, locals, answers, loops, onEnds>>

\* ... and sendAccept looks again, clears the mark and sends.
SendAccept ==
    /\ At(Net, "mute")
    /\ AcceptPending
    /\ entry' = [entry EXCEPT ![reg].acceptPending = FALSE]
    /\ accepts' = [accepts EXCEPT ![reg] = @ + 1]
    /\ Goto(Net, "idle")
    /\ UNCHANGED <<reg, phase, handed, mediaVars, locals, answers, loops, onEnds>>

SendAcceptNothing ==
    /\ At(Net, "mute")
    /\ ~AcceptPending
    /\ Goto(Net, "idle")
    /\ UNCHANGED <<objects, mediaVars, locals, history>>

-----------------------------------------------------------------------------
(* finishCall: Reject and Hangup on application goroutines; terminate,     *)
(* reject and error acks on Net.                                           *)

HangUp(t, h) ==
    /\ t \in Apps /\ At(t, "idle") /\ h \in handed
    /\ Goto(t, "finish")
    /\ UNCHANGED <<objects, mediaVars, locals, history>>

Terminated ==
    /\ At(Net, "idle") /\ reg # None
    /\ Goto(Net, "finish")
    /\ UNCHANGED <<objects, mediaVars, locals, history>>

\* Variant of Finish: the entry is not deleted.
FinishKeepingEntry(t) ==
    /\ At(t, "finish") /\ reg # None
    /\ entry' = [entry EXCEPT ![reg].cancel = FALSE]
    /\ m' = [m EXCEPT ![t] = reg]
    /\ c' = [c EXCEPT ![t] = entry[reg].call]
    /\ grabbed' = [grabbed EXCEPT ![t] = entry[reg].cancel]
    /\ Goto(t, "finishCancel")
    /\ UNCHANGED <<reg, phase, handed, mediaVars, history>>

\* The locked part: whoever removes the entry owns the rest of the teardown.
Finish(t) ==
    /\ At(t, "finish") /\ reg # None
    /\ reg' = None
    /\ entry' = [entry EXCEPT ![reg].cancel = FALSE]
    /\ m' = [m EXCEPT ![t] = reg]
    /\ c' = [c EXCEPT ![t] = entry[reg].call]
    /\ grabbed' = [grabbed EXCEPT ![t] = entry[reg].cancel]
    /\ Goto(t, "finishCancel")
    /\ UNCHANGED <<phase, handed, mediaVars, history>>

FinishNothing(t) ==
    /\ At(t, "finish") /\ reg = None
    /\ Goto(t, "idle")
    /\ UNCHANGED <<objects, mediaVars, locals, history>>

FinishCancel(t) ==
    /\ At(t, "finishCancel")
    /\ ctx' = IF grabbed[t] THEN [ctx EXCEPT ![m[t]] = "cancelled"] ELSE ctx
    /\ Goto(t, "finishCheck")
    /\ UNCHANGED <<objects, media, mediaCall, heard, locals, history>>

\* Variant of FinishCheck: a call without media is left alone as well.
FinishCheckMedia(t) ==
    /\ At(t, "finishCheck")
    /\ IF phase[c[t]] = "Ended" \/ ~grabbed[t] THEN Goto(t, "idle") ELSE Goto(t, "finishPhase")
    /\ UNCHANGED <<objects, mediaVars, locals, history>>

\* A call that is already Ended is left alone; otherwise its player and sink
\* are released here, before the phase changes.
FinishCheck(t) ==
    /\ At(t, "finishCheck")
    /\ IF phase[c[t]] = "Ended" THEN Goto(t, "idle") ELSE Goto(t, "finishPhase")
    /\ UNCHANGED <<objects, mediaVars, locals, history>>

FinishPhase(t) ==
    /\ At(t, "finishPhase")
    /\ SetPhase(c[t], "Ended")
    /\ Goto(t, "finishNotify")
    /\ UNCHANGED <<reg, entry, handed, mediaVars, locals, history>>

FinishNotify(t) ==
    /\ At(t, "finishNotify")
    /\ onEnds' = [onEnds EXCEPT ![c[t]] = @ + 1]
    /\ Goto(t, "idle")
    /\ UNCHANGED <<objects, mediaVars, locals, answers, accepts, loops>>

-----------------------------------------------------------------------------
(* runMedia, on the media goroutine of an entry.                           *)

MediaGoto(e, label) == media' = [media EXCEPT ![e] = label]

\* connectAndAllocate: the channel opens, possibly although the context was
\* cancelled meanwhile, since the select may take either branch.
MediaConnected(e) ==
    /\ media[e] = "connect"
    /\ MediaGoto(e, "loop")
    /\ UNCHANGED <<objects, ctx, mediaCall, heard, pc, locals, history>>

\* A refused or late (12 s) connection, a missing token, a failed allocate,
\* or the cancelled context: runMedia returns.
MediaConnectFailed(e) ==
    /\ media[e] = "connect"
    /\ MediaGoto(e, "done")
    /\ UNCHANGED <<objects, ctx, mediaCall, heard, pc, locals, history>>

\* Variant of MediaLoop: the context is not looked at.
MediaLoopBlind(e) ==
    /\ media[e] = "loop"
    /\ MediaGoto(e, "recv")
    /\ UNCHANGED <<objects, ctx, mediaCall, heard, pc, locals, history>>

\* The context is looked at only here, before the blocking Recv.
MediaLoop(e) ==
    /\ media[e] = "loop"
    /\ MediaGoto(e, IF ctx[e] = "cancelled" THEN "done" ELSE "recv")
    /\ UNCHANGED <<objects, ctx, mediaCall, heard, pc, locals, history>>

\* Recv returns a packet that is not audio, or not the first to decode ...
MediaPacket(e) ==
    /\ media[e] = "recv"
    /\ MediaGoto(e, "loop")
    /\ UNCHANGED <<objects, ctx, mediaCall, heard, pc, locals, history>>

\* ... or the first audio packet that decodes.
MediaFirstAudio(e) ==
    /\ media[e] = "recv" /\ e \notin heard
    /\ heard' = heard \cup {e}
    /\ MediaGoto(e, "first")
    /\ UNCHANGED <<objects, ctx, mediaCall, pc, locals, history>>

\* What the goroutine does with it: the call is active, whatever it was.
MediaActive(e) ==
    /\ media[e] = "first"
    /\ SetPhase(mediaCall[e], "Active")
    /\ MediaGoto(e, "loop")
    /\ UNCHANGED <<reg, entry, handed, ctx, mediaCall, heard, pc, locals, history>>

\* Recv fails: the relay went away.
MediaRecvFailed(e) ==
    /\ media[e] = "recv"
    /\ MediaGoto(e, "done")
    /\ UNCHANGED <<objects, ctx, mediaCall, heard, pc, locals, history>>

-----------------------------------------------------------------------------
\* What starts an operation: a call of the application, or a stanza.
Begin ==
    \/ \E t \in Apps, h \in Handles :
          \/ \E e \in Entries : Place(t, e, h)
          \/ Answer(t, h)
          \/ HangUp(t, h)
    \/ \E e \in Entries, h \in Handles, withRelay \in BOOLEAN : Offer(e, h, withRelay)
    \/ Relay \/ PreAccept \/ Accept \/ Mute \/ Terminated

\* What goroutine t does next inside the operation it is in.
Continue(t) ==
    \/ Deliver(t) \/ PlaceFailed(t)
    \/ AnswerMark(t) \/ AnswerPhase(t)
    \/ Start(t) \/ StartNothing(t) \/ StartPhase(t) \/ Spawn(t)
    \/ Finish(t) \/ FinishNothing(t) \/ FinishCancel(t)
    \/ FinishCheck(t) \/ FinishPhase(t) \/ FinishNotify(t)

\* The same for the operations only Net performs.
ContinueNet ==
    \/ PreAcceptPhase
    \/ AcceptCheck \/ AcceptPhase \/ AcceptMark
    \/ SendAccept \/ SendAcceptNothing

\* What the media goroutine does without waiting for the relay, and what the
\* relay lets it do.
MediaStep(e) ==
    MediaConnected(e) \/ MediaConnectFailed(e) \/ MediaLoop(e) \/ MediaActive(e)

Received(e) == MediaPacket(e) \/ MediaFirstAudio(e) \/ MediaRecvFailed(e)

Next ==
    \/ Begin
    \/ \E t \in Threads : Continue(t)
    \/ ContinueNet
    \/ \E e \in Entries : MediaStep(e) \/ Received(e)

SafetySpec == Init /\ [][Next]_vars

\* A goroutine goes on with the operation it is in: between its steps there
\* are only mutexes that are held briefly, and sends.  A connection attempt
\* ends within 12 s.  Nothing makes the application call, a stanza arrive or
\* Recv return.
Fairness ==
    /\ \A t \in Threads : WF_vars(Continue(t))
    /\ WF_vars(ContinueNet)
    /\ \A e \in Entries : WF_vars(MediaStep(e))

Spec == SafetySpec /\ Fairness

\* In addition the relay keeps sending, or the transport fails.
RelaySpec == Spec /\ \A e \in Entries : WF_vars(Received(e))

-----------------------------------------------------------------------------
(* Properties.                                                             *)

\* A goroutine that removed an entry with a cancel func in it and is about
\* to call that func.
Cancelling(e) == \E t \in Threads : At(t, "finishCancel") /\ m[t] = e /\ grabbed[t]

\* Media cannot outlive the call (engine.go, finishCall and maybeStartMedia):
\* once an entry that started media left the registry, its media context is
\* cancelled or the goroutine that removed it is about to cancel it.
NoOrphanMedia ==
    \A e \in Entries : entry[e].started /\ reg # e => ctx[e] = "cancelled" \/ Cancelling(e)

\* The media of a registered call is not cancelled under it.
RegisteredMediaLives ==
    reg # None /\ entry[reg].started => ctx[reg] = "live" /\ ~Cancelling(reg)

\* How far the media of each entry is in its life, for the abstract
\* specification, which has no place for media that nobody owns.
MediaLife == [e \in Entries |->
    CASE ctx[e] = "none"                                  -> "fresh"
      [] ctx[e] = "cancelled"                             -> "cancelled"
      [] ctx[e] = "live" /\ reg = e /\ ~Cancelling(e)     -> "running"
      [] ctx[e] = "live" /\ reg # e /\ Cancelling(e)      -> "doomed"
      [] OTHER                                            -> "lost"]

Lifetime == INSTANCE TaskLifetime WITH Tasks <- Entries, life <- MediaLife

\* The engine keeps for the media of a direct call the promise a CallRegistry
\* makes for its media tasks: it runs while its entry is registered, is doomed
\* by the removal, is cancelled once and by its remover, and never restarts.
MediaLivesAsPromised == Lifetime!SafetySpec

\* However often relay, accept and Answer reach maybeStartMedia together, an
\* entry has one media loop ("the loop starts exactly once per call").
OneLoopPerEntry == \A e \in Entries : loops[e] <= 1

\* However many hangups, rejects and terminates race, OnEnd fires at most
\* once for a call.
OnEndAtMostOnce == \A h \in Handles : onEnds[h] <= 1

\* An <accept> is only sent for an Answer, and an Answer buys only one: the
\* second look under the mutex stops a mute_v2 that came too late.
AcceptsMatchAnswers == \A e \in Entries : accepts[e] <= answers[e]

Quiet == reg = None /\ \A t \in Threads : At(t, "idle")

\* When a call is over and nothing is under way, the application was told of
\* the end of every handle it was given.
EveryHandleIsTold == Quiet => \A h \in handed : onEnds[h] = 1

\* Hangup ends the call: a handle whose OnEnd fired is, and stays, Ended.
EndedIsFinal == \A h \in Handles : onEnds[h] > 0 => phase[h] = "Ended"

\* Answer is an error unless the call rings: the step that marks a call to
\* be accepted finds it ringing.
AnswerOnlyWhenRinging ==
    [][\A t \in Apps : At(t, "answer") /\ pc'[t] = "answerPhase" => phase[c[t]] = "Ringing"]_vars

\* The peer's accept takes no effect on a call that ended.
NoAcceptAfterEnd ==
    [][At(Net, "acceptMark") /\ pc'[Net] = "start" => onEnds[c[Net]] = 0]_vars

\* A call whose entry left the registry is eventually reported as ended.
EndIsReported ==
    \A h \in Handles :
        (\E e \in Entries : entry[e].call = h /\ reg # e) ~> (onEnds[h] = 1)

\* The media goroutine of a call that was hung up eventually returns.
MediaStops == \A e \in Entries : (ctx[e] = "cancelled") ~> (media[e] = "done")
=============================================================================
