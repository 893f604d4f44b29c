# Verification of the call engine, its capture extension and the session service

TLA+ models, TLC runs and TLAPS proofs for three programs of this repository:

- **meowcaller** (`src/meowcaller-main`, Go): the WhatsApp voice and video call library. One process,
  one mutex per object, several goroutines that share a call. whatsmeow (external) dispatches the
  stanzas of the server one after the other on one goroutine (`Net` in the modules); the application
  calls the methods of a `Call` from any goroutine ("All methods are safe for concurrent use",
  `livecall.go:13`); every call with media has a media goroutine of its own. Mutexes are released
  between the steps of an operation, so what is hard is what happens in between.
- **the capture extension** (`src/meowcaller-main/diag/extension`, JavaScript): a Manifest V3
  extension whose service worker queues diagnostic events and sends them to a local collector. The
  browser may stop the worker at any time.
- **the session service** (`src/wp_baileys_service.js`, Node.js): keeps WhatsApp sessions connected
  and places calls through a WASM engine (baileys-caller, external). One thread, but every `await` lets
  requests, chat commands, timers and socket events of the same session run in between.

The line numbers of Go files without a path are those of `src/meowcaller-main`; those of the session
service are given as `wp:<line>`, those of the extension's service worker as `bg.js:<line>`.

## Inventory

| component | state | operations | talks to |
| --- | --- | --- | --- |
| Session (`session.go`) | direction, phase | NewOutgoing/IncomingSession, TransitionTo | CallRegistry |
| Call registry (`call.go`) | map call-id → session, media task | Insert, SetMediaTask, Transition, Remove, AbortAll | integrator's goroutines |
| Engine, direct calls (`engine.go`, `engine_media.go`, `livecall.go`) | `e.calls`: engineCall (handle, direction, key, relay, started, cancel, acceptPending); `Call.phase` | placeCall, onOffer, onRelay, onPreAccept, onAccept, mute_v2, answer, reject, hangup, onTerminate, maybeStartMedia, finishCall | whatsmeow, application callbacks, media goroutine |
| Group signaling (`engine_group_control.go`) | engineCall: group, groupUpdate, groupRawEpoch, groupReceivers | applyGroupUpdate, ingest/installGroupEpoch, distributeRequestedGroupEpoch | participant registry, media goroutine |
| Participant registry (`group_media_receive.go`) | receivers by device, PID, SSRC; senders; pending and installed epochs; fallback | ApplyGroupUpdate, ApplyGroupRawEpoch, attach*, RekeyFallback, clear | engine, media loops |
| Media goroutine (`engine_media.go`) | relay channel, encoder, registry, loops | connectAndAllocate, runMedia, keepalive, send loop, receive loop | relay, registry, player, sinks |
| Relay allocation (`engine_group_relay.go`) | allocate packet, endpoint, subscriptions | ApplyWithSubscriptions, SendCurrent | keepalive goroutine, relay |
| Video (`engine.go`, `video.go`) | two-direction transition state, gate, sender | StartVideo, StopVideo, video stanzas | peer |
| Call links, waiting room (`engine_group_api.go`, `call_link_public.go`) | waitingRoomCancel, WaitingRoomState | join, heartbeat, admission, deny | server |
| Notifications (`livecall.go`) | callbacks, queue, generations, one-shot accept | On*, dispatch | application |
| Player, sources, sinks | source, playing, finished | Play, Pause, Resume, Stop, nextFrame | send loop |
| Playout buffer, group mixer | per-participant frames, depth | Push, Drain, Retain, mix | receive loop, sink |
| RTP, RTCP, SRTP, SFrame, STUN, signaling builders | rollover counters, reception statistics, H.264 reassembly | encode and decode | media loops |
| MLow codec | codec memories | encode, decode | media loops |
| Capture sender (`bg.js`) | voipCaptureQueue and its byte count, flush timer, flushing flag | capture, trim, flush, restore | page and worker hooks, collector |
| Sessions (`wp_baileys_service.js`) | activeSessions: status, sock, reconnectTimer, pairing code, qrAttempts; auth directory | initSessionSocket, listeners of connection.update and creds.update, /session/* requests, auto-resume | WhatsApp (Baileys), dashboard, chat commands |
| VoIP manager and calls (`wp_baileys_service.js`) | voipManager: signaling, engine, initPromise, activeCall; sess.activeCalls | init, call, acceptCall, end, destroy; +call, +videocall, +adhoccall, +acceptcall, +endcall, +leavecall | session's socket, WASM engine |
| Audio feeder (`wp_baileys_service.js`) | running, timer chain, schedule, ffmpeg, restart timer | start, stop, scheduleNext, capture init/start/stop, switchAudio | ffmpeg, WASM engine |

Hard behaviours, by component (each is an entry of `hazards` in `PROJECT.json`, at its line):

- **Call registry**: a media task handed in while its call is being removed, or replaced; a session
  that goes backwards after a long sequence of legal calls.
- **Direct calls**: teardown from three sides at once; three triggers that may each start media;
  checks of a phase that are stale when they are used; an accept that is deferred and must be sent
  once; a repeated offer; a receive loop that blocks.
- **Groups**: rosters and key epochs in any order, from two goroutines, some malformed or
  conflicting; a registry that is built outside the mutex while the signaling goes on; keys that
  must be the same everywhere, gone from who left, and gone after the end.

- **Capture sender**: a batch that fails after the collector wrote a part of it goes back to the
  front while new events come in and the limits are reached; a timer that fires during a flush.
- **Sessions**: initialisations of one session that overlap at their awaits; a close event of one
  socket, the timer it arms and requests that clear it; a logout against an initialisation under way.
- **Calls of the session service**: a manager that outlives its socket or is replaced under a command;
  an initialisation that gives up without an error; a map of active calls that only some commands
  fill.
- **Audio feeder**: timer chains that a restart of ffmpeg leaves behind; a switch of the source while a
  process exits.

Correct means, for each: see the properties below.

## Modules

| module | models | composed of |
| --- | --- | --- |
| `CallSession` | phases, initial phases and legal moves of `session.go` | |
| `TaskLifetime` | abstract: what a registry promises about media tasks | |
| `CallRegistry` | `call.go`, every method that changes state | CallSession; implements TaskLifetime |
| `CallLifecycle` | the life of one direct call-id in the engine | CallSession; implements TaskLifetime for its media |
| `GroupEpochs` | abstract: which key members of a group use | |
| `GroupReceivers` | the participant registry | implements GroupEpochs |
| `GroupMedia` | signaling, start and end of a group's media | instantiates GroupReceivers |
| `CaptureLog` | abstract: an ordered log that delivers at least once | |
| `CaptureQueue` | the sender of `bg.js` and the collector's handler (`diag/extension-server/main.go`), browser external | implements CaptureLog |
| `SessionSocket` | one session's sockets, requests and restarts | |
| `MCSessionDisconnect` | `SessionSocket` with a history variable | SessionSocket |
| `VoipCalls` | managers, calls and call commands of one session | |
| `AudioSource` | abstract: one source streams at a time, a stopped one drains | |
| `AudioFeeder` | the feeder and what starts, replaces and stops it | implements AudioSource |
| `*_proofs` | theorems of the module of that name | TLAPS |
| `MC*` | the module of that name for TLC (symmetry sets) | TLC |

### CallSession, TaskLifetime, CallRegistry

Each method of the registry is one action under its mutex. The cancel functions are called after the
unlock: the goroutine carries them in `toCancel[t]` and each call is a `Cancel` step, so other
methods run in between. `session`, `mediaTask` and `known` are the map's entries; `supplied` and
`cancelled` are the history of the handles. `TakeOut` is what `Remove` and `AbortAll` share.
`TaskLifetime` has one variable, the life of every task (fresh, running, doomed, cancelled);
`CallRegistry` maps its state to it with `Life`, where a lost task has no image.

### CallLifecycle

One call-id. An *entry* is an `engineCall`, a *handle* is a `Call`: both are pointers the code keeps
after the entry left the map, hence the two sets of objects. `pc[t]` says where goroutine `t` is
inside an operation, `m`, `c` and `grabbed` are its local variables; a step is one critical section
of `e.mu` or `call.mu`, one callback, or one send. Actions carry the name of the function they
belong to (`Place`, `Offer`, `Answer`, `AnswerMark`, `AnswerPhase`, `Finish`, `FinishCancel`, ...).
The media goroutine of entry `e` is at `media[e]`: connecting, at the top of the receive loop, in
`Recv`, handling the first decoded packet, or returned. The key of a direct call is there from
registration on, so `MayStart` looks at the relay only. Entries are never reused for another
call-id. The bound `MaxAnswers` caps how often Answer may begin.

The media of an entry is a task in the sense of `TaskLifetime`, though the engine does not use
`CallRegistry`: `MediaLife` maps the state of its context to fresh, running (registered, and nobody
about to cancel), doomed (removed, the remover about to cancel) or cancelled, and has no image for a
context that nobody would cancel or that is cancelled under a registered entry
(`MediaLivesAsPromised`).

### GroupEpochs, GroupReceivers

Every method of the registry holds its mutex from begin to end and is one action. A receiver is
named by its device; of a roster the module keeps its transaction, its set of connected remote
devices and whether it is well formed, which decides if `prepareGroupUpdateLocked` succeeds. A
method that fails changes nothing. `recvKey` says of each device what the *last* receiver made for
it holds, also after it left, so that keys that should have been erased are seen. `offered` is
history: the first key heard for each transaction.

`GroupEpochs` has no registry, only a roster, keys heard and the key in use, which is a function of
the other two: the point of "must converge" in the datasheets.

### GroupMedia

One group call, or direct call that may become one, with one registry, which is an instance of
`GroupReceivers`; the goroutines reach it only through its actions. An operation is cut where `e.mu`
is released, as the code is: for a roster `HearRoster` (first critical section, with the registry as
it was found), `ApplyRoster` (the registry's own mutex), `InstallRoster` / `InstallRosterLate`
(second critical section), `ClearAgain`; for an epoch `HearEpoch`, `ApplyEpoch`, `InstallEpoch` /
`InstallEpochLate`; `Finish`, `FinishClear` for the end; `MediaSnapshot`, `MediaRead`,
`MediaApplyRoster`, `MediaApplyEpoch`, `MediaPublish` (or `MediaPublishDirect`), `MediaAttach`,
`MediaRekey`, `MediaDrop` for `runMedia` until its senders are attached. Rosters may be applied by any
goroutine (a join through a link runs on the application's), epochs and stanzas only by `Net`.

Left out of it: which peer a relay or accept stanza elects (a choice); an epoch this client makes
itself enters through `HearEpoch`, since `distributeRequestedGroupEpoch` ends in the same
`installGroupEpoch`; all rosters name the same devices (membership is varied in `GroupReceivers`).

### CaptureLog, CaptureQueue

JavaScript runs to completion, so an action is what runs between two awaits; the `await` of `fetch` is
the state `flushing`. An event is its number in the order of capture and two sizes of its JSON: the
UTF-16 units that `bg.js` counts (`JSON.stringify(...).length`, `bg.js:32`) and takes for bytes, and the
bytes in UTF-8 that `fetch` sends and the collector limits (`main.go:42`); a unit is one to three bytes
(`SizesAssumption`). `FetchFails(n)`: the collector wrote the first `n` events and did not answer ok. `written`, `acked`
and `shed` are history: what is in the collector's file, was answered, was trimmed or died with the
worker. The delays of the timer (25 ms, 1 s) are not told apart, since only its handle decides. A body longer than the collector takes (16 MiB) is refused
(`Refused`), put back at the *front* and tried again every second until the queue is trimmed:
everything behind it waits. That may be a single long event; but as the batch is limited to 8 Mi
*units*, it may also be a lot of events none of which is long, when their text is not ASCII.
`CaptureLog` has neither sizes, limits nor timers: an event is captured, waits, is
sent in a group of the oldest, and is acknowledged or waits again in its old place; only the oldest are
shed, and only a stop of the worker forgets. `CaptureQueue` maps its queue and batch to the events'
numbers (`DeliversAsALog`). `Settles` excepts a queue whose head is refused from some moment on
(`Blocked`: the batch in flight, or the one the next request would take); the code has no way out of it
but the trimming. With the exception for single long events only, TLC finds two events of text that is
not ASCII going back and forth for ever.

### SessionSocket

One uid. A *session object* is what `activeSessions[uid]` holds; /delete and +removeuserbot leave the
old one to the closures that captured it, hence `Objects`. A *slot* is one run of `initSessionSocket`
from its first await on and the socket it makes: `reading`, `preparing`, `connecting`, `open`. `disk`
is the auth directory as `hasSavedAuthCreds` sees it. `Close` has the four outcomes of the close
handler, which the reason of the close, a pairing code and active calls select. Chat commands that make
sockets enter as `InitRequest`; the copy of the credentials in MongoDB is left out.

Requests that wait at an await are counted for each object, so that any number of them may overlap:
`leaving` for /disconnect at `await sess.sock.logout()`, `pairWait` for /pair at its wait for the
socket, `pairAsked` for /pair at `await requestPairingCode`. /pair is cut there: `Pair` up to the
initialisation, `PairAsks` gives the credentials their name and asks, `PairCode` stores code and
status, or the request threw. /delete shuts the socket but leaves the reference: the object it took
out of the table keeps its status and has `sock = Gone`; without an entry it purges the directory all
the same. A loop that holds that object, like the worker loop (wp:6631), goes on sending into the
shut socket. `SockIsLive` therefore speaks of what is promised: the *entry*, which every command
looks up, never refers to a shut socket, and any other reference but `Gone` is to a live socket that
was made for that object.

What reading the code for it brought up, beside the finding below: a second initialisation shuts
`sess.sock` ("Clean up old socket if present", wp:2331), which the first has not set yet, so both make
a socket and the first one's goes on unreferenced, with listeners that still write credentials and
statuses, and its close sets the session's `sock`, the other one, to null; a close with code 408 sets an unlinked session ONLINE, so that QR_EXPIRED
is not reached; an initialisation that throws leaves an ONLINE session without a timer until someone
polls its status (`failed` in the module, excepted in `OnlineIsBacked` and `Reconnects`); +removeuserbot
closes neither the socket nor the timer; /delete leaves a started worker loop running, which counts
its failed sends for ever; creds.update makes a purged directory anew.

### VoipCalls

The manager objects, the runs of `init` (`closures`, each at one of its awaits), the calls and the
commands of one session (`hand`). A manager's `promise` names the run `initPromise` stands for, so
that a run which found no socket leaves a promise that is settled and never renewed. The engine
carries one call at a time, the `line`; the state events it reports go to `activeCall`,
whichever call they are about. acceptCall keeps the `activeCall` whose callId the offer repeats
(`Answers`, `same`). +endcall ends the manager's call and clears the map (`EndCommand`, `Clears`);
+leavecall forgets the chat's entry only (`LeaveCommand`, `Leaves`). `how` is history: whether the line was ended by a user, by the peer,
or cut.

Approximations: the lookup of devices and tokens in `call()` is one await (`dial`); acceptCall's send
is part of its step; +joincall and +joinvc are acceptCall
or call with another key of the map; +autounmute, which adds a placeholder entry for a chat without a
call, is left out. What reading the code for it brought up: 'ended' is never emitted for a call that
was ended here, so its entry stays in `activeCalls` until another event removes it; when the message
that a call was placed cannot be sent, the catch places a second call with a new manager, and both
engines listen on one socket; a manager kept over a reconnect is replaced at open, and +endcall, which
answers "ALL VOIP CALLS ENDED" (`src/wp_baileys_service.js:3972`), does not reach its call any more; a state 13 that comes late ends the
next call when that is connected.

### AudioFeeder

Times are relative to the present, in ticks; a timer that is due fires whenever the event loop gets to
it. A feeder may have several timer chains: the first, and one for each restart of ffmpeg, which calls
`start()` again while the chain there was goes on. All of them advance one `nextEmitAtMs`, so the pace
is kept up to one chunk for each chain (`Paced`); but `this.timer` is the last one set only, and
`stop()` clears that one, the others end when they fire and see `running` false. Each restart also sets
`nextEmitAtMs` to now: a source whose ffmpeg exits at once adds a chain every 250 ms. `destroy()` takes
the engine away and leaves the feeder alone; `init()` makes another engine (`MakesEngine`), with the
buffer of the one before. `AudioSource` has one variable, the life of every source (unmade, streaming, draining,
silent), and neither clocks, chains nor processes; `Life` maps the feeders to it. spawn's failure by exception is modelled; an ENOENT event has no listener and ends in
the process's uncaughtException handler (wp:9), after which the feeder sends silence.

## Runs

All bounds are in the `.cfg` files. Sets of goroutines, tasks, objects, devices and keys are model
values, with symmetry only in the run without temporal formulas. `CHECK_DEADLOCK FALSE` in the
lifecycle and group runs: a call that ended and has nothing left to do is where the system stops.

| run | shows | instance, and why it is enough |
| --- | --- | --- |
| `CallRegistry` | no task is lost or torn down under its call; sessions do not go backwards; the registry implements `TaskLifetime`, liveness included | 2 call-ids, 3 tasks, 2 goroutines: one task attached, one replaced, one refused at once |
| `CallLifecycle` | media, end report and accept under racing answers and hangups; the media keeps the promise of `TaskLifetime`; every end is reported; media of a call that was hung up ends if the relay sends or fails | 1 entry, 2 application goroutines and Net, all three of which may end the call, 1 Answer per entry |
| `CallLifecycleDuplicates` | no second media loop with repeated offers | 2 entries, 2 handles, 1 application goroutine: reuse while registered and a new entry after the end |
| `GroupReceivers` | key agreement, convergence; the registry implements `GroupEpochs` until it is cleared | 3 transactions (an installed, a due and a future epoch at once), 2 devices, senders and keys (a conflict needs two) |
| `GroupMedia` | signaling and registry stay in step in every interleaving, keys of a live call stay, keys are erased after the end | 2 transactions, 1 key, 1 sender, `Net` and 1 application goroutine, 2 attempts (of 32): one attempt overtaken and one retried |
| `CaptureQueue` | limits and counts hold, nothing is lost, the sender implements `CaptureLog`, the queue empties | 5 events of 1, 2 or 8 units that are 1, 4 or 8 bytes; queue of 3 events and 9 units, batch of 2 and 6 units, collector 8 bytes, 1 stop of the worker: every limit is reached, alone and with a restored batch, and the collector's by one long event as well as by two that are not |
| `SessionSocket` | the entry's socket is live; ONLINE is backed by something; a session whose socket went down comes back | 2 session objects, 3 slots (a live socket and two initialisations), 2 requests (two overlap), 1 fault, 1 of 30 QR attempts; 830,000 states in two minutes |
| `AudioFeeder` | one feeder, in pace, only a running one has a timer to clear; the feeders implement `AudioSource`, liveness included: silent in the end | 2 feeders with 2 exits each (3 chains), interval 2, pause 3, no lag allowed |
| `VoipCalls` | signaling on the live socket, ready again | 2 sockets, 2 managers with 2 inits each (one at open and one by a command or retry), 1 call, 1 command at a time of the kinds call, accept, leave and end. The same run with +adhoccall (2.0 million states) and with 3 sockets (2.9 million) passes too, in one to two minutes; with two calls it was not completed |

`CHECK_DEADLOCK FALSE` as well in the runs of the last four: captures, requests, feeders, sockets
and calls are bounded, and a system that used them up stops.

Three more runs expect a violation; each stands for one of the `findings` in `PROJECT.json` with the
quoted sentence of the repository that the code does not keep:

| run | what TLC finds |
| --- | --- |
| `PeerAcceptAfterEnd` | the peer's accept is reported after the end of the call |
| `DisconnectIsFinal` | /disconnect answers that the session is unlinked while an initialisation is under way, whose socket writes the purged credentials again |
| `CallNeverCuts` | a transient close of the socket destroys the manager of an ad-hoc or auto-joined call, which no entry of `activeCalls` protects, and cuts it |

### Disagreements stated without a run

Six more properties quote the repository and are false of the code. They stand in `CallLifecycle` and
`GroupMedia`; to repeat one, put its name in the place of the properties of the configuration named
(and take `SafetySpec` as the specification).

| property, configuration | what TLC finds |
| --- | --- |
| `EndedIsFinal`, `PeerAcceptAfterEnd.cfg` (as an invariant) | setPhase stores any phase over any other (`livecall.go:756`): an Answer (`engine.go:688`), a media start (`engine_media.go:99`) or the first packet (`engine_media.go:1129`) under way moves an ended call out of Ended. `livecall.go:282`: "Hangup ends the call (either direction) and tears down media." |
| `AnswerOnlyWhenRinging`, `PeerAcceptAfterEnd.cfg` | answer looks neither at the phase nor at the direction (`engine.go:666`). `livecall.go:275-276`: "No-op error if the call is not in a ringing state." |
| `RegistryHasRoster`, `GroupMedia.cfg` (as an invariant) | applyGroupUpdate finds no registry in its first critical section and does not look again in the second (`engine_group_control.go:172`): a registry published in between never gets the roster, until the next one. `datasheets/group-media-receive.md:97-99`: "An update received before the media loop starts is retained on the `engineCall`; once the registry exists it is applied through an installed callback." |
| `EndDiscardsEpochs`, `GroupMedia.cfg` (as an invariant) | an epoch on its way while finishCall clears the registry is installed in the cleared registry and stays (`engine_group_control.go:292`). `datasheets/group-media-key-epoch.md:148-149`: "Call end: discard pending and installed epochs with the call". |
| `NewestHeardInUse`, `GroupMedia.cfg` (as an invariant) | installGroupEpoch drops every epoch older than the newest it recorded, also when that one waits for a later roster (`engine_group_control.go:278`). `datasheets/group-media-key-epoch.md:130`: "install the newest buffered epoch K where K <= U". |
| `MediaSurvivesUpgrade`, `GroupMedia.cfg` | a direct call that becomes a group while it connects, before an epoch came, gives up its media, and `m.started` keeps it from a second try (`engine_media.go:302`). `datasheets/group-media-key-epoch.md:204-205`: "Ordinary 1:1 media remains on its original call key unless a typed group rekey event is received." |

Three more departures of the code from its comments show in the same modules. A second Answer sends a
second accept at the next mute (`engine.go:685`; "once", `engine.go:693`), which is why
`AcceptsMatchAnswers` counts answers. Without `RelaySpec`'s fairness `MediaStops` fails: with a silent
relay the media goroutine of a call that was hung up stays in `Recv`. With repeated offers
`EveryHandleIsTold` fails: the handle of the first offer never learns of the end.

Each property of a passing run has a mutant: a plausible bug put in place of one definition, which
the run must then report. The mutated forms stand in the modules before the definition they
replace, as "Variant of ...".

## Fairness

Safety runs assume none. The liveness runs of the Go modules assume weak fairness of the steps *inside* an operation:
between two of them there are only mutexes that are held briefly, a send, a 5 ms wait
(`groupRegistryInstallBackoff`) or a connection attempt of at most 12 s (`connectAndAllocate`).
Nothing makes the application call a method, a stanza arrive or `Recv` return; only `RelaySpec` of
`CallLifecycle` adds, for `MediaStops`, that the relay sends or fails. Callbacks of the application are assumed to return.

In the JavaScript modules a timer that is set fires and an await is answered, since the event loop is
never blocked for good; no request, command, capture or socket event is owed. In detail:
`CaptureQueue` assumes that a fetch comes back, and strongly that it succeeds (`SF` of `FetchOk`):
otherwise a collector that is down keeps the events, as it should. `SessionSocket` assumes (`Due`) that
timers fire, the awaits of an initialisation and of a /disconnect come back, a linked socket opens and
an unlinked one shows a code: weak fairness of these together, so that while one of them is due, one
is done. Nothing is assumed of /pair. The closes that prevent it are bounded faults, and
`Reconnects` excepts an initialisation that throws (`failed`). `AudioFeeder` assumes that time passes, timers fire and a process that was
told to stop exits. `VoipCalls` assumes only that a run of `init` goes on or throws.

## Proofs

What TLC checks on one instance the theorems state for every value of the constants, assuming only
the named `ASSUME`s of the modules (nil values are not objects, bounds are natural numbers,
transactions are natural numbers, the call key is no epoch key). TLC evaluates the assumptions in the
runs.

**CallRegistry_proofs.** `TaskInv` adds to the types and the two safety invariants that every handle
attached, held or cancelled was supplied (`HandleOrigins`), that no two calls share a task
(`OneCallPerTask`) and that an id outside the map has none (`BlankOutside`). Without
`OneCallPerTask` it would not be inductive: a handle that is replaced in one call could still be
attached to another, and would be cancelled under it. From it `NoTaskLeaks`, `AttachedTasksRun`,
`ActiveCallsNeverRegress`, `IncomingSessionsNeverDial`, and `ImplementsTaskLifetime` for the safety
part of the refinement.

**CallLifecycle_proofs.** The invariants say what a goroutine's place implies about its local
pointers and about the entry they point to: who is past `Start` holds an entry that is started, who
is in `finishCall` after the lock is alone with the entry it removed, whoever grabbed the cancel
function of a started entry has not called it yet. From them `MediaIsNeverOrphaned`,
`RegisteredMediaStaysAlive`, `MediaLoopStartsOnce`, `OnEndFiresAtMostOnce` and
`AcceptsNeverExceedAnswers`, for any number of goroutines, entries and handles and with repeated
offers. `EveryHandleIsToldOnce` assumes that no offer is repeated, which it needs: its invariant
`ToldInv` says that the end of every handle handed out is reported, or owed by an entry that is
registered or by the goroutine that removed it (`Owed`), and that nobody else set the phase to Ended
before, which `finishCall` would take for a report (`NotEndedYet`).
`ImplementsTaskLifetime` maps every step to one of `TaskLifetime` or a stutter. Beside the invariants
above it needs `ContextInv`: a context is there exactly from the step on that marks the entry started,
and whoever is about to call its cancel function finds it live and is alone. Then `Start` attaches,
`Finish` dooms, the one cancel call cancels, and the other steps keep each entry's life.
That the media of a registered entry was not cancelled (`RegisteredMediaStaysAlive`) follows from it
too; this is why the run checks the refinement and not `RegisteredMediaLives`.

**GroupReceivers_proofs.** The inductive invariant `RegInv` says, besides types: what is buffered is
exactly what was offered beyond the roster, and the installed epoch is the newest one offered up to
it (`EpochInv`); while the registry is not cleared, every receiver and sender holds the key in use
(`Agreed`); who left holds no epoch's key. From it `KeyAgreement`, `Converges` and
`DepartedHoldNoEpoch`; `ImplementsGroupEpochs` follows step by step, up to the clearing, since a
method that fails is a stutter of `GroupEpochs`.

**GroupMedia_proofs.** `EngineImplementsRegistry` proves that every step of the engine's goroutines is
a step of `GroupReceivers` or leaves the registry alone, which needs that the jobs the goroutines
carry are of the registry's types (`EngineInv`). Everything proved of the registry alone then holds
in the engine: `EngineKeysAgree`, `EngineConverges`, `EngineForgetsDeparted`.
`LiveRegistryIsNeverCleared` rests on `LiveInv`: whoever is about to clear the registry found it
published before the call left the map, or never published it. Hence the excuse of the registry's
theorems, that it was cleared, falls away while the call is registered: then its published registry has
one key, is on the newest epoch, and moves as `GroupEpochs` (`LiveRegistryAgrees`). The other side of it,
`ErasureIsNeverForgotten`, rests on `ErasureInv`: as long as the registry of an ended call is not
cleared, some goroutine is on its way to clear it, since `finishCall` and the media goroutine decide in
one critical section each who saw the registry, and a cleared one stays cleared
(`RegistryStaysCleared`). `LiveEpochsAgree` and `EndErases` are stated in `GroupMedia` for these two
theorems; TLC finds both true on the instance of the run `GroupMedia`.
`SignalingIsMonotone` follows from the second look each critical section takes.
`RegistryIsPublishedUpToDate` rests on `BuildInv`: until it is published nobody but the media
goroutine touches the registry (`Unseen`), and at each place of an attempt what is in it is no newer
than the copy, nor the copy than the call (`UpTo`, `CopyIsPast`); so an attempt that was overtaken
leaves nothing the next one conflicts with. `RegistryIsNotAhead` adds `LevelInv`: who brought the
registry a roster the call does not have yet is about to record it.

**CaptureQueue_proofs.** The inductive invariant says that the batch in flight followed by the queue is
sorted and newer than everything acknowledged, and (`Frontier`) that what is held is either in the
collector's file already or newer than all of it: without that a partly written batch that is restored
could not be told from one that was overtaken. From it `NothingIsLost`, `HeldInOrder`,
`FirstCopiesInOrder`, and `NoWakeupIsLost` (events that wait have a timer or a flush).
The byte count of the code is a running sum, kept by three functions, and the module's `BytesOf` is a
fold over the queue. The proof has no induction over sequences: `Counts` says of a sequence that there
is a function of running totals, `CountsUnique` and `SumsExist` argue by the *least* position at
which two such functions differ or one cannot be extended, and the lemmas on joined, split and
extended sequences follow. With them `Tally` (the counter is the sum of the queue, and the queue
within its limits) is inductive, whence `QueueIsBounded` and `TypeCorrect`: the trimming always finds a
shortest prefix to drop, which is what its `CHOOSE` needs. `ImplementsCaptureLog` maps every step to one
of the log or a stutter; that the trimming drops a prefix and a batch takes one (`TrimIsKeep`,
`BatchIsShort`) is all of the code's arithmetic it needs.

**SessionSocket_proofs.** `TypeOK`, `SockIsLive` and `OnlineIsBacked` together are inductive: that a
socket which is shut was referred to by its own session only (`TypeOK` ties a slot's owner to its
place) is what lets a close handler set `sess.sock` to null without orphaning another's. For any number
of slots, sessions, requests and faults. That the entry is never `Gone` rests on /delete, the only step
that leaves such a reference, taking its object out of the table for good. `DisconnectAloneFinal` is the other side of the finding about
/disconnect: when it answers and no other socket, initialisation or timer of the session is left
(`Alone`), the session is `Unlinked`, and only another request changes that. What goes on by itself
(a /pair or /disconnect that still waits, the resumption at boot) finds no socket that is live, by
`SockIsLive`, and no file. TLC finds the property true on the run's instance with two faults, and false
when `Alone` is left out.

**AudioFeeder_proofs.** The strengthening is `Owed`: every chunk the schedule is ahead of the clock is
owed by a chain whose timer is due exactly then; distinct chunks have distinct chains, so their number
bounds the lead (`Paced`). `ImplementsAudioSource` adds `FeederRuns`, that the feeder the manager refers
to runs, so that a stop or a replacement never meets one that was stopped before: each start or switch
is a `Begin` or a `Stop` of `AudioSource`, and of a feeder that does not run the last of its timers,
its restart and its process to end is the `Drain`, after which nothing of it can happen.
`FeederTypeOK` adds `TimersKept`: the timer `stop()` clears is one that is set, of a feeder that runs,
and what streams silence has no restart before it.

**VoipCalls_proofs.** `Bound`: the manager of an open session is bound to the session's socket or to
none yet; `Fitted`: a manager that is ready, or whose init got so far, has signaling and an engine;
`Fresh`: a manager that was not made is new. A close that spares the manager keeps `Fitted` and makes
`Bound` vacuous until open replaces it, which is the reason for the replacement. `ReadinessIsNeverLost`
is the safety core of `ReadyAgain`: the manager of an open session is ready, or one of its runs of init
is under way, or one threw (`ReadyIsComing`). A run that found no socket leaves a promise that is never
renewed, but only on a manager that open replaces. `ReadyIsComing` is no property of the run; TLC finds
it true on the run's instance. `CallsTypeOK` adds `LinesOK`: a manager without an engine, new or
destroyed, carries no call and owes no report of one.

Only model-checked: everything under fairness (`EndIsReported`, `MediaStops`, `EndClears`, the liveness
of `TasksLiveAsPromised` and `StreamsAsASource`, `Settles`, `Reconnects`, `ReadyAgain`), which is out of
the prover's reach. What it rests on is proved: that as long as something is due, somebody is on the
way to it, or a timer or an event that fairness speaks of; or that it was done when nothing is under
way any more. These theorems are `EveryHandleIsToldOnce`, `MediaIsNeverOrphaned`,
`ErasureIsNeverForgotten`, `NoTaskLeaks` and the two refinements, `NoWakeupIsLost`,
`OnlineSessionsAreBacked` and `ReadinessIsNeverLost`. Every invariant of the runs and every safety part
of their refinements is a theorem.

## Not modelled, and why

The codec, the wire formats and the cryptography (stateless or numeric, checked against vectors in
the repository); device I/O, diagnostics, the examples; `Client` (a thin wrapper). The second copies
of the library and of the extension are byte-identical, so that what is shown of one holds of the other.
The YamzzBot bot and OpenVoice are programs of their own.

Of the JavaScript in the repository (70,695 lines) 60,232 are two copies of `wam.js`, a generated
table of metric names without behaviour, and some 1,800 the second copy of the rest of the extension;
of the 6,781 lines of the session service about 4,000 are chat commands, one branch each, that send
messages through the client library. What is left that has a state machine is what the modules model;
a map that covered a third of all lines would have to map the table.

Of the session service are left out: the MongoDB copy of the credentials, the worker loop
(/stop_worker and /start_worker within one sleep start a second loop, wp:6664; after /delete it
sends into the shut socket, wp:6631), the music and
recording commands, mute. Of the extension: the page hooks, which wrap functions and emit events, and
the attaching of the debugger.

## Plan

Modules to come, the most important first:

1. `WaitingRoom`: join through a link, heartbeat, admission by a roster, end
   (`engine_group_api.go`, `engine_group_control.go`, `livecall.go`). To show: no heartbeat after
   admission or end; the waiting-room state and the phase agree.
2. `CallNotify`: the notification queue with its generations and the one-shot accept
   (`livecall.go`). To show: the last state delivered is the last one set; the one-shot fires once.
3. `VideoTransition`: the upgrade and downgrade of both directions (`engine.go`). To show: an
   answer to an old request does not complete a new one.
4. `PeerRekey`: relay-elected and answering peer against the media goroutine, with named peers.
   To show: the media ends up keyed to the last peer elected.
5. `RelayAllocate`: the keepalive goroutine against rosters (`engine_group_relay.go`).
6. Player and playout; the rollover-counter estimator, the reception statistics and the H.264
   reassembly as algorithms over bounded inputs; the bot's video queue.
7. Proofs of the invariants of the modules above; an abstract specification of one session (linked,
   connected, coming back, unlinked) that `SessionSocket` implements.
