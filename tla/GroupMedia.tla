----------------------------- MODULE GroupMedia -----------------------------
(***************************************************************************)
(* How rosters and key epochs travel from the signaling to the media of    *)
(* one group call (engine_group_control.go, engine_media.go, engine.go):   *)
(* applyGroupUpdate and installGroupEpoch hand them to the participant     *)
(* registry and record them in the engineCall, the media goroutine builds  *)
(* a registry from what was recorded and publishes it, and finishCall      *)
(* takes both down.  The registry has its own mutex, so every operation is *)
(* cut where e.mu is released: between the cuts the others may run.        *)
(*                                                                         *)
(* The registry itself is GroupReceivers; the media goroutine runs once,   *)
(* so there is one.  Every roster names all the Devices.  Which peer a     *)
(* relay or accept stanza elects is a choice, and an epoch this client     *)
(* makes itself enters through HearEpoch like a received one.              *)
(***************************************************************************)
EXTENDS Integers

CONSTANTS Transactions, Devices, Senders, Keys, CallKey, NoKey,
          Apps,         \* application goroutines
          Net,          \* the goroutine the stanzas are dispatched on
          MaxAttempts   \* groupRegistryInstallMaxAttempts

Threads == Apps \cup {Net}
NoTx == -1
Numbers == Transactions \cup {NoTx}

VARIABLES
    \* the registry (GroupReceivers)
    callKey, roster, active, fallback, recvKey, senders, sendKey, pending,
    installedTx, installedKey, offered,
    \* the engineCall
    reg,          \* whether e.calls holds it
    relay,        \* m.relay is known (a direct call starts on it)
    group,        \* m.group
    update,       \* m.groupUpdate: transaction, well-formedness and relay
    epochTx,      \* m.groupEpochTxID, or NoTx without hasGroupEpoch
    epochKey,     \* m.groupRawEpoch
    published,    \* m.groupReceivers is the registry, or nil
    started,      \* m.started
    ctxCancelled, \* the media context
    \* the goroutines
    pc,           \* where each goroutine is
    job,          \* its roster or epoch, and whether it saw the registry
    media,        \* where the media goroutine is
    snap,         \* its copy of the roster and of the epoch
    attempt,      \* how often it tried to install the registry
    heard         \* history: first key heard per transaction by a group call

registry == <<callKey, roster, active, fallback, recvKey, senders, sendKey, pending,
              installedTx, installedKey, offered>>
engineCall == <<reg, relay, group, update, epochTx, epochKey, published, started, ctxCancelled>>
threads == <<pc, job>>
mediaVars == <<media, snap, attempt>>
vars == <<registry, engineCall, threads, mediaVars, heard>>

Registry == INSTANCE GroupReceivers

ASSUME GroupMediaAssumption ==
    /\ Registry!ReceiversAssumption
    /\ Net \notin Apps
    /\ MaxAttempts \in Nat \ {0}

Update == [relay : BOOLEAN, tx : Numbers, ok : BOOLEAN]
NoUpdate == [relay |-> FALSE, tx |-> NoTx, ok |-> TRUE]
NoSnap == [tx |-> NoTx, u |-> NoUpdate, key |-> NoKey]
NoJob == [tx |-> NoTx, u |-> NoUpdate, key |-> NoKey, had |-> FALSE]

Labels == {"idle", "applyRoster", "installRoster", "applyEpoch", "installEpoch", "rekey",
           "start", "clear", "finish", "finishClear"}

MediaLabels == {"none", "connect", "failed", "snapshot", "read", "applyRoster", "applyEpoch",
                "publish", "publishDirect", "attach", "attachRest", "run", "drop", "done"}

TypeOK ==
    /\ Registry!TypeOK
    /\ {reg, relay, group, published, started, ctxCancelled} \subseteq BOOLEAN
    /\ update \in Update
    /\ epochTx \in Numbers /\ epochKey \in Keys \cup {NoKey}
    /\ pc \in [Threads -> Labels]
    /\ job \in [Threads -> [tx : Numbers, u : Update, key : Keys \cup {NoKey}, had : BOOLEAN]]
    /\ media \in MediaLabels
    /\ snap \in [tx : Numbers, u : Update, key : Keys \cup {NoKey}]
    /\ attempt \in 0..MaxAttempts
    /\ heard \in [Transactions -> Keys \cup {NoKey}]

\* A registered call, direct or already a group, without roster or epoch.
Init ==
    /\ Registry!Init
    /\ reg = TRUE /\ relay = FALSE /\ group \in BOOLEAN
    /\ update = NoUpdate
    /\ epochTx = NoTx /\ epochKey = NoKey
    /\ published = FALSE /\ started = FALSE /\ ctxCancelled = FALSE
    /\ pc = [t \in Threads |-> "idle"]
    /\ job = [t \in Threads |-> NoJob]
    /\ media = "none"
    /\ snap = NoSnap
    /\ attempt = 0
    /\ heard = [t \in Transactions |-> NoKey]

At(t, label) == pc[t] = label
Goto(t, label) == pc' = [pc EXCEPT ![t] = label]

\* Nothing of the operation is needed any more but where it goes on.
Forget(t, label) == Goto(t, label) /\ job' = [job EXCEPT ![t] = NoJob]

\* An operation is over.
Return(t) == Forget(t, "idle")

-----------------------------------------------------------------------------
(* applyGroupUpdate: on Net, or on the goroutine that joins by a link.     *)

\* First critical section: only a newer roster goes on, with the registry the
\* call has now.
HearRoster(t, u) ==
    /\ At(t, "idle")
    /\ reg /\ u.tx > update.tx
    /\ job' = [job EXCEPT ![t] = [NoJob EXCEPT !.u = u, !.had = published]]
    /\ Goto(t, IF published THEN "applyRoster" ELSE "installRoster")
    /\ UNCHANGED <<registry, engineCall, mediaVars, heard>>

Commits(u) == Registry!CommitRoster(u.tx, Devices, u.ok)
Ignores(u) == Registry!IgnoreRoster(u.tx, Devices, u.ok)

\* The registry refuses a roster it has not seen: the engine drops it.
RosterRefused(u) == u.tx > roster /\ Ignores(u)

ApplyRoster(t) ==
    /\ At(t, "applyRoster")
    /\ LET u == job[t].u
       IN  \/ Commits(u) /\ Goto(t, "installRoster") /\ UNCHANGED job
           \/ Ignores(u) /\ ~RosterRefused(u) /\ Goto(t, "installRoster") /\ UNCHANGED job
           \/ RosterRefused(u) /\ Return(t)
    /\ UNCHANGED <<engineCall, mediaVars, heard>>

\* Variants of Overtaken: nobody compares again; a direct call takes no roster.
NeverOvertaken(t) == FALSE
OvertakenOrDirect(t) == ~group \/ job[t].u.tx <= update.tx

\* Another goroutine installed a roster that is as new.
Overtaken(t) == job[t].u.tx <= update.tx

\* Second critical section: the roster becomes the call's, if the call is
\* still there and nobody was faster.
InstallRoster(t) ==
    /\ At(t, "installRoster") /\ reg
    /\ ~Overtaken(t)
    /\ update' = job[t].u
    /\ group' = TRUE
    /\ Forget(t, "start")
    /\ UNCHANGED <<registry, reg, relay, epochTx, epochKey, published, started,
                   ctxCancelled, mediaVars, heard>>

\* Variant of InstallRosterLate: who is overtaken clears the registry, too.
InstallRosterLateClearing(t) ==
    /\ At(t, "installRoster")
    /\ ~reg \/ Overtaken(t)
    /\ IF job[t].had THEN Goto(t, "clear") /\ UNCHANGED job ELSE Return(t)
    /\ UNCHANGED <<registry, engineCall, mediaVars, heard>>

\* Too late: the call ended, or has a newer roster.
InstallRosterLate(t) ==
    /\ At(t, "installRoster")
    /\ ~reg \/ Overtaken(t)
    /\ IF ~reg /\ job[t].had THEN Goto(t, "clear") /\ UNCHANGED job ELSE Return(t)
    /\ UNCHANGED <<registry, engineCall, mediaVars, heard>>

\* The call ended meanwhile: the registry that may just have got keys again is
\* cleared once more.
ClearAgain(t) ==
    /\ At(t, "clear")
    /\ Registry!Clear
    /\ Return(t)
    /\ UNCHANGED <<engineCall, mediaVars, heard>>

-----------------------------------------------------------------------------
(* ingestGroupEpoch and distributeRequestedGroupEpoch, both on Net.        *)

\* An epoch the engine ignores: older than the newest it has, or one it has.
OldEpoch(tx) == epochTx # NoTx /\ tx <= epochTx

\* History: what was heard by a group call that goes on.
Hear(tx, k) == heard' = [heard EXCEPT ![tx] = IF @ = NoKey THEN k ELSE @]

\* First critical section of installGroupEpoch; a call that is no group (yet)
\* refuses.
HearEpoch(tx, k) ==
    /\ At(Net, "idle") /\ reg /\ group
    /\ Hear(tx, k)
    /\ IF OldEpoch(tx) THEN UNCHANGED threads
       ELSE /\ job' = [job EXCEPT ![Net] = [NoJob EXCEPT !.tx = tx, !.key = k, !.had = published]]
            /\ Goto(Net, IF published THEN "applyEpoch" ELSE "installEpoch")
    /\ UNCHANGED <<registry, engineCall, mediaVars>>

\* A key that conflicts with a buffered or installed one is refused.
EpochRefused(tx, k) ==
    IF tx > roster THEN pending[tx] \notin {NoKey, k}
    ELSE tx = installedTx /\ k # installedKey

EpochApplied(tx, k) ==
    Registry!BufferEpoch(tx, k) \/ Registry!InstallEpoch(tx, k) \/ Registry!IgnoreEpoch(tx, k)

ApplyEpoch ==
    /\ At(Net, "applyEpoch")
    /\ EpochApplied(job[Net].tx, job[Net].key)
    /\ IF EpochRefused(job[Net].tx, job[Net].key) THEN Return(Net)
       ELSE Goto(Net, "installEpoch") /\ UNCHANGED job
    /\ UNCHANGED <<engineCall, mediaVars, heard>>

\* Second critical section: the epoch becomes the call's.
InstallEpoch ==
    /\ At(Net, "installEpoch") /\ reg /\ group
    /\ ~OldEpoch(job[Net].tx)
    /\ epochTx' = job[Net].tx
    /\ epochKey' = job[Net].key
    /\ Forget(Net, "start")
    /\ UNCHANGED <<registry, reg, relay, group, update, published, started, ctxCancelled,
                   mediaVars, heard>>

InstallEpochLate ==
    /\ At(Net, "installEpoch")
    /\ ~reg \/ ~group \/ OldEpoch(job[Net].tx)
    /\ Return(Net)
    /\ UNCHANGED <<registry, engineCall, mediaVars, heard>>

-----------------------------------------------------------------------------
\* m.rekeyPeer: set by the media goroutine between its senders.
CanRekey == media \in {"attachRest", "run"}

\* onRelay: the relay of a direct call; it may elect another peer.
HearRelay ==
    /\ At(Net, "idle") /\ reg
    /\ relay' = TRUE
    /\ Goto(Net, "start") \/ (CanRekey /\ Goto(Net, "rekey"))
    /\ UNCHANGED <<registry, reg, group, update, epochTx, epochKey, published, started,
                   ctxCancelled, job, mediaVars, heard>>

\* onAccept: a device answers, in a direct call perhaps another than the peer.
HearAccept ==
    /\ At(Net, "idle") /\ reg
    /\ Goto(Net, "start") \/ (~group /\ CanRekey /\ Goto(Net, "rekey"))
    /\ UNCHANGED <<registry, engineCall, job, mediaVars, heard>>

\* rekeyPeer on the other peer; a failure is only logged.
RekeyTo(d) == Registry!ReplaceFallback(d) \/ Registry!RenameFallback(d)

RekeyPeer ==
    /\ At(Net, "rekey")
    /\ UNCHANGED registry \/ \E d \in Devices : RekeyTo(d)
    /\ Goto(Net, "start")
    /\ UNCHANGED <<engineCall, job, mediaVars, heard>>

\* maybeStartMedia: a group needs epoch, roster and the roster's relay.
MayStart ==
    /\ reg /\ ~started
    /\ IF group THEN epochTx # NoTx /\ epochKey # NoKey /\ update.tx # NoTx /\ update.relay
       ELSE relay

Start(t) ==
    /\ At(t, "start")
    /\ IF MayStart THEN started' = TRUE /\ media' = "connect" ELSE UNCHANGED <<started, media>>
    /\ Return(t)
    /\ UNCHANGED <<registry, reg, relay, group, update, epochTx, epochKey, published,
                   ctxCancelled, snap, attempt, heard>>

-----------------------------------------------------------------------------
(* finishCall: a hangup on any goroutine, a terminate on Net.              *)

End(t) ==
    /\ At(t, "idle") /\ reg
    /\ Goto(t, "finish")
    /\ UNCHANGED <<registry, engineCall, job, mediaVars, heard>>

\* The locked part; for who comes second there is nothing to take out.
Finish(t) ==
    /\ At(t, "finish")
    /\ reg' = FALSE
    /\ epochKey' = NoKey
    /\ published' = FALSE
    /\ job' = [job EXCEPT ![t].had = published]
    /\ Goto(t, "finishClear")
    /\ UNCHANGED <<registry, relay, group, update, epochTx, started, ctxCancelled, mediaVars, heard>>

\* After the unlock: the media context, and then the registry.
FinishClear(t) ==
    /\ At(t, "finishClear")
    /\ ctxCancelled' = (ctxCancelled \/ started)
    /\ IF job[t].had THEN Registry!Clear ELSE UNCHANGED registry
    /\ Return(t)
    /\ UNCHANGED <<reg, relay, group, update, epochTx, epochKey, published, started,
                   mediaVars, heard>>

-----------------------------------------------------------------------------
(* The media goroutine, until its senders are attached.                    *)

MediaGoto(label) == media' = label

\* The same where the copy and the attempts are not needed any more.
MediaForget(label) == media' = label /\ snap' = NoSnap /\ attempt' = 0

\* connectAndAllocate succeeds or not.
MediaConnect ==
    /\ media = "connect"
    /\ MediaGoto("snapshot") \/ MediaGoto("failed")
    /\ UNCHANGED <<registry, engineCall, threads, snap, attempt, heard>>

\* The registry is made here, after the look whether the call is a group.
MediaSnapshot ==
    /\ media = "snapshot"
    /\ MediaGoto(IF reg /\ group THEN "read" ELSE "publishDirect")
    /\ UNCHANGED <<registry, engineCall, threads, snap, attempt, heard>>

\* One attempt copies the call's roster and epoch under e.mu ...
MediaRead ==
    /\ media = "read"
    /\ IF reg /\ ~ctxCancelled /\ update.tx # NoTx /\ epochKey # NoKey
         THEN /\ snap' = [tx |-> epochTx, u |-> update, key |-> epochKey]
              /\ MediaGoto("applyRoster")
         ELSE UNCHANGED snap /\ MediaGoto("drop")
    /\ UNCHANGED <<registry, engineCall, threads, attempt, heard>>

\* ... gives both to the registry ...
MediaApplyRoster ==
    /\ media = "applyRoster"
    /\ \/ Commits(snap.u) /\ MediaGoto("applyEpoch")
       \/ Ignores(snap.u) /\ ~RosterRefused(snap.u) /\ MediaGoto("applyEpoch")
       \/ RosterRefused(snap.u) /\ MediaGoto("drop")
    /\ UNCHANGED <<engineCall, threads, snap, attempt, heard>>

MediaApplyEpoch ==
    /\ media = "applyEpoch"
    /\ EpochApplied(snap.tx, snap.key)
    /\ MediaGoto(IF EpochRefused(snap.tx, snap.key) THEN "drop" ELSE "publish")
    /\ UNCHANGED <<engineCall, threads, snap, attempt, heard>>

\* Variant of MediaPublish: what changed since the copy is not noticed.
MediaPublishUnchecked ==
    /\ media = "publish"
    /\ MediaForget(IF reg THEN "attach" ELSE "drop")
    /\ published' = reg
    /\ UNCHANGED <<registry, reg, relay, group, update, epochTx, epochKey, started,
                   ctxCancelled, threads, heard>>

\* ... and publishes it if nothing newer came meanwhile, or tries again.
MediaPublish ==
    /\ media = "publish"
    /\ IF reg /\ update.tx <= snap.u.tx /\ epochTx <= snap.tx
         THEN published' = TRUE /\ MediaForget("attach")
         ELSE /\ attempt' = attempt + 1
              /\ MediaGoto(IF reg /\ attempt + 1 < MaxAttempts THEN "read" ELSE "drop")
              /\ UNCHANGED <<published, snap>>
    /\ UNCHANGED <<registry, reg, relay, group, update, epochTx, epochKey, started,
                   ctxCancelled, threads, heard>>

\* A direct call publishes its registry as it is.
MediaPublishDirect ==
    /\ media = "publishDirect"
    /\ published' = reg
    /\ MediaGoto(IF reg THEN "attach" ELSE "drop")
    /\ UNCHANGED <<registry, reg, relay, group, update, epochTx, epochKey, started,
                   ctxCancelled, threads, snap, attempt, heard>>

\* The senders are attached one after the other, ...
MediaAttach(s) ==
    /\ media \in {"attach", "attachRest"}
    /\ Registry!AttachSender(s)
    /\ UNCHANGED <<engineCall, threads, mediaVars, heard>>

\* ... in between m.rekeyPeer is set, and called if the peer changed already, ...
MediaRekey ==
    /\ media = "attach"
    /\ UNCHANGED registry \/ \E d \in Devices : RekeyTo(d)
    /\ MediaGoto("attachRest")
    /\ UNCHANGED <<engineCall, threads, snap, attempt, heard>>

\* ... and then the loops run.
MediaAttached ==
    /\ media = "attachRest"
    /\ \A s \in Senders : s \in senders \/ sendKey[s] # CallKey
    /\ MediaGoto("run")
    /\ UNCHANGED <<registry, engineCall, threads, snap, attempt, heard>>

\* The loops end, or one of the steps before failed.
MediaEnds ==
    /\ media \in {"attach", "attachRest", "run"}
    /\ MediaGoto("done")
    /\ UNCHANGED <<registry, engineCall, threads, snap, attempt, heard>>

\* Variant of MediaDrop: the registry is dropped as it is.
MediaDropDirty ==
    /\ media = "drop"
    /\ MediaForget("done")
    /\ UNCHANGED <<registry, engineCall, threads, heard>>

\* runMedia returns with a registry nobody saw: the deferred clear.
MediaDrop ==
    /\ media = "drop"
    /\ Registry!Clear
    /\ MediaForget("done")
    /\ UNCHANGED <<engineCall, threads, heard>>

-----------------------------------------------------------------------------
\* What the server, the other members and the application begin.
Begin ==
    \/ \E tx \in Transactions :
          \/ \E t \in Threads, ok, withRelay \in BOOLEAN :
                HearRoster(t, [relay |-> withRelay, tx |-> tx, ok |-> ok])
          \/ \E k \in Keys : HearEpoch(tx, k)
    \/ HearRelay
    \/ HearAccept
    \/ \E t \in Threads : End(t)

\* What goroutine t does next inside an operation.
Continue(t) ==
    \/ ApplyRoster(t) \/ InstallRoster(t) \/ InstallRosterLate(t) \/ ClearAgain(t)
    \/ Start(t) \/ Finish(t) \/ FinishClear(t)

ContinueNet == ApplyEpoch \/ InstallEpoch \/ InstallEpochLate \/ RekeyPeer

\* What the media goroutine does until its loops run.
MediaStep ==
    \/ MediaConnect \/ MediaSnapshot \/ MediaRead \/ MediaApplyRoster \/ MediaApplyEpoch
    \/ MediaPublish \/ MediaPublishDirect \/ MediaRekey \/ MediaAttached \/ MediaDrop
    \/ \E s \in Senders : MediaAttach(s)

Next ==
    \/ Begin
    \/ \E t \in Threads : Continue(t)
    \/ ContinueNet
    \/ MediaStep
    \/ MediaEnds

SafetySpec == Init /\ [][Next]_vars

\* A goroutine goes on with the operation it is in: between two critical
\* sections there are only the registry's mutex, a 5 ms wait and a connection
\* attempt of at most 12 s.
Fairness ==
    /\ \A t \in Threads : WF_vars(Continue(t))
    /\ WF_vars(ContinueNet)
    /\ WF_vars(MediaStep)

Spec == SafetySpec /\ Fairness

-----------------------------------------------------------------------------
(* Properties.                                                             *)

\* No operation is under way and the registry, if any, is in the engineCall.
Settled == \A t \in Threads : At(t, "idle")

\* Every receiver and sender of the live registry holds the key in use, also
\* while the media goroutine builds it and attaches its senders and the
\* stanzas of Net reach it.
KeysAgree == Registry!KeyAgreement

\* The registry of a registered call is never cleared under its media: no
\* finishCall, retry or late applyGroupUpdate erases the keys of a live call.
\* Every receiver and sender of it holds one key, that of the newest epoch it
\* was offered and its roster has reached.
LiveRegistryKeepsKeys ==
    reg /\ published =>
        ~Registry!Cleared /\ Registry!KeyAgreement /\ Registry!Converges

\* While the call goes on the published registry moves as GroupEpochs allows:
\* to what it uses next, any other member that heard the same has come too.
LiveEpochsAgree ==
    [][reg' /\ published' => Registry!Epochs!Next]_(Registry!Epochs!vars)

\* The media never runs ahead of the signaling: once all operations are over
\* the registry has no roster the call has not.
RegistryNotAhead == Settled /\ published => roster <= update.tx

\* The registry of a group is published up to date (the retry in runMedia):
\* whatever arrived while it was built is in it.
PublishedUpToDate ==
    [][media = "publish" /\ media' = "attach"
          => roster = update.tx /\ (installedTx = epochTx \/ pending[epochTx] = epochKey)]_vars

\* Two goroutines may apply rosters at the same time (a link join and Net),
\* and epochs come in any order: the call's own never go back.
SignalingNeverGoesBack ==
    [][reg' => update'.tx >= update.tx /\ epochTx' >= epochTx]_vars

\* The media goroutine made a registry.
Made == media \notin {"none", "connect", "failed", "snapshot"}

\* "Zero ... key copies": after the end of the call the registry the media
\* goroutine made is eventually cleared, whether it was published or not.
EndClears == (~reg /\ Made) ~> Registry!Cleared

\* Its safety half: when nobody is at it any more, the keys of an ended call
\* that others could see are erased; no goroutine leaves it to another.
EndErases ==
    Settled /\ ~reg /\ media \in {"attach", "attachRest", "run", "done"} => Registry!Cleared

\* "once the registry exists it is applied": between operations the published
\* registry has the roster of its call.
RegistryHasRoster == Settled /\ reg /\ published => roster = update.tx

\* "Ordinary 1:1 media remains on its original call key unless a typed group
\* rekey event is received": media that was started does not give up while
\* the call goes on.
MediaSurvivesUpgrade == [][media = "read" /\ media' = "drop" => ~reg]_vars

\* "Call end: discard pending and installed epochs with the call".
EndDiscardsEpochs ==
    Settled /\ ~reg /\ media \in {"failed", "done"} =>
        installedTx = NoTx /\ \A t \in Transactions : pending[t] = NoKey

\* "install the newest buffered epoch K where K <= U": the registry of a group
\* uses the newest epoch the group heard which its roster has reached.
NewestHeardInUse ==
    Settled /\ reg /\ published =>
        \A t \in Transactions : t <= roster /\ heard[t] # NoKey => t <= installedTx
=============================================================================
