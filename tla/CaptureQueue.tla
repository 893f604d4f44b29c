---------------------------- MODULE CaptureQueue ----------------------------
(***************************************************************************)
(* The headless sender of the capture extension (bg.js): captured events   *)
(* queue up in the service worker, a timer flushes them to the collector   *)
(* one batch at a time, a batch the collector did not acknowledge goes     *)
(* back to the front, and the queue is trimmed from the front at its       *)
(* limits.  JavaScript runs to completion, so an action is what runs       *)
(* between two awaits: the await of fetch is the state `flushing'.         *)
(*                                                                         *)
(* An event is its number in the order of capture and two sizes of its     *)
(* JSON, with a separator each: the UTF-16 units that bg.js counts and     *)
(* calls bytes (String.length), and the bytes in UTF-8 that fetch sends    *)
(* and the collector limits.  The 25 ms and 1 s delays of the timer are    *)
(* not told apart: the handle is kept while either runs, and only the      *)
(* handle decides.                                                         *)
(***************************************************************************)
EXTENDS Integers, Sequences, SequencesExt

CONSTANTS
    EventSizes,       \* the sizes an event may have: UTF-16 units, UTF-8 bytes
    MaxQueueEvents, MaxQueueBytes, MaxBatchEvents, MaxBatchBytes,
    CollectorBytes,   \* the collector refuses a body of more bytes in UTF-8
    MaxCaptures,      \* bound: events captured
    MaxStops          \* bound: times the browser stops the worker

\* A unit takes one to three bytes, a separator one.
ASSUME SizesAssumption ==
    /\ EventSizes \subseteq [bytes : Nat \ {0}, utf8 : Nat \ {0}]
    /\ \A z \in EventSizes : z.bytes <= z.utf8 /\ z.utf8 <= 3 * z.bytes - 2

ASSUME QueueAssumption ==
    /\ MaxQueueEvents \in Nat \ {0}
    /\ MaxQueueBytes \in Nat
    /\ MaxBatchEvents \in Nat \ {0}
    /\ MaxBatchBytes \in Nat
    /\ MaxCaptures \in Nat
    /\ MaxStops \in Nat

VARIABLES
    queue,       \* voipCaptureQueue
    queueBytes,  \* voipCaptureQueueBytes
    timer,       \* voipCaptureFlushTimer # null
    flushing,    \* voipCaptureFlushing: a fetch is in flight
    batch,       \* what the fetch in flight carries
    captured,    \* history: number of events captured
    stops,       \* history: number of stops of the worker
    written,     \* the events in the collector's file
    acked,       \* history: events of a batch answered with ok
    shed         \* history: events trimmed, or lost with a stopped worker

workerVars == <<queue, queueBytes, timer, flushing, batch>>
vars == <<workerVars, captured, stops, written, acked, shed>>

Event == {[id |-> i, bytes |-> z.bytes, utf8 |-> z.utf8] : i \in 1..MaxCaptures, z \in EventSizes}
Ids(s) == {s[i].id : i \in DOMAIN s}
BytesOf(s) == FoldLeft(LAMBDA n, e : n + e.bytes, 0, s)
Utf8Of(s) == FoldLeft(LAMBDA n, e : n + e.utf8, 0, s)
Pending == batch \o queue

Init ==
    /\ queue = <<>> /\ queueBytes = 0 /\ timer = FALSE
    /\ flushing = FALSE /\ batch = <<>>
    /\ captured = 0 /\ stops = 0
    /\ written = {} /\ acked = {} /\ shed = {}

(* trimCaptureQueue on a queue q that counts b bytes: the fewest events     *)
(* from the front whose removal brings both counts within their limits; an  *)
(* empty queue ends the loop in any case.                                   *)
Fits(q, b, k) ==
    \/ k = Len(q)
    \/ /\ Len(q) - k <= MaxQueueEvents
       /\ b - BytesOf(SubSeq(q, 1, k)) <= MaxQueueBytes
Excess(q, b) ==
    CHOOSE k \in 0..Len(q) : Fits(q, b, k) /\ \A j \in 0..(k - 1) : ~Fits(q, b, j)
TrimTo(q, b) ==
    LET k == Excess(q, b) IN
    /\ queue' = SubSeq(q, k + 1, Len(q))
    /\ queueBytes' = b - BytesOf(SubSeq(q, 1, k))
    /\ shed' = shed \cup Ids(SubSeq(q, 1, k))

\* sendVoipCaptureEvent: push, count, trim, and arm the timer unless it runs.
Capture(size) ==
    LET e == [id |-> captured + 1, bytes |-> size.bytes, utf8 |-> size.utf8] IN
    /\ captured < MaxCaptures
    /\ captured' = captured + 1
    /\ TrimTo(Append(queue, e), queueBytes + e.bytes)
    /\ timer' = TRUE
    /\ UNCHANGED <<flushing, batch, stops, written, acked>>

(* takeCaptureBatch: the first event whatever its size, then as long as the *)
(* body, two brackets included, stays within the limit.                     *)
Full(q, k) ==
    \/ k = Len(q)
    \/ k = MaxBatchEvents
    \/ ~(2 + BytesOf(SubSeq(q, 1, k + 1)) <= MaxBatchBytes)
BatchLength(q) ==
    CHOOSE k \in 1..Len(q) : Full(q, k) /\ \A j \in 1..(k - 1) : ~Full(q, j)

\* The timer's callback, with a flush in flight or nothing to send.
TimerFiresIdle ==
    /\ timer /\ (flushing \/ queue = <<>>)
    /\ timer' = FALSE
    /\ UNCHANGED <<queue, queueBytes, flushing, batch, captured, stops, written, acked, shed>>

\* The timer's callback, up to the await of fetch.
TimerFlushes ==
    LET k == BatchLength(queue) IN
    /\ timer /\ ~flushing /\ queue # <<>>
    /\ timer' = FALSE
    /\ flushing' = TRUE
    /\ batch' = SubSeq(queue, 1, k)
    /\ queue' = SubSeq(queue, k + 1, Len(queue))
    /\ queueBytes' = queueBytes - BytesOf(batch')
    /\ UNCHANGED <<captured, stops, written, acked, shed>>

\* The body of a request, a bracket and each event with its separator, is
\* longer than MaxBytesReader lets through.
Refused(s) == 1 + Utf8Of(s) > CollectorBytes

\* ServeHTTP of the collector: the first n events of the batch are in its
\* file.  It writes an event at a time, and none of a body it refused.
CollectorWrites(n) ==
    /\ n > 0 => ~Refused(batch)
    /\ written' = written \cup Ids(SubSeq(batch, 1, n))

\* Variant of FetchOk: `finally' does not look at the queue.
FetchOkUnscheduled ==
    /\ flushing
    /\ CollectorWrites(Len(batch))
    /\ acked' = acked \cup Ids(batch)
    /\ flushing' = FALSE /\ batch' = <<>>
    /\ UNCHANGED <<timer, queue, queueBytes, captured, stops, shed>>

\* fetch answers ok: nothing to restore, and `finally'.
FetchOk ==
    /\ flushing
    /\ CollectorWrites(Len(batch))
    /\ acked' = acked \cup Ids(batch)
    /\ flushing' = FALSE /\ batch' = <<>>
    /\ timer' = (timer \/ queue # <<>>)
    /\ UNCHANGED <<queue, queueBytes, captured, stops, shed>>

\* Variant of FetchFails: the restored bytes are not counted.
FetchFailsUncounted(n) ==
    /\ flushing
    /\ CollectorWrites(n)
    /\ TrimTo(batch \o queue, queueBytes)
    /\ timer' = TRUE
    /\ flushing' = FALSE /\ batch' = <<>>
    /\ UNCHANGED <<captured, stops, acked>>

\* Variant of FetchFails: the restored queue is not trimmed.
FetchFailsUntrimmed(n) ==
    /\ flushing
    /\ CollectorWrites(n)
    /\ queue' = batch \o queue /\ queueBytes' = queueBytes + BytesOf(batch) /\ shed' = shed
    /\ timer' = TRUE
    /\ flushing' = FALSE /\ batch' = <<>>
    /\ UNCHANGED <<captured, stops, acked>>

\* Variant of FetchFails: the batch is not put back.
FetchFailsDropping(n) ==
    /\ flushing
    /\ CollectorWrites(n)
    /\ TrimTo(queue, queueBytes)
    /\ timer' = TRUE
    /\ flushing' = FALSE /\ batch' = <<>>
    /\ UNCHANGED <<captured, stops, acked>>

\* Variant of FetchFails: the batch goes to the back.
FetchFailsAtBack(n) ==
    /\ flushing
    /\ CollectorWrites(n)
    /\ TrimTo(queue \o batch, queueBytes + BytesOf(batch))
    /\ timer' = TRUE
    /\ flushing' = FALSE /\ batch' = <<>>
    /\ UNCHANGED <<captured, stops, acked>>

(* fetch throws or answers an error: the collector may have written some or *)
(* all of the batch.  `catch' puts the whole batch back at the front, trims *)
(* and arms the timer; `finally' finds it armed.                            *)
FetchFails(n) ==
    /\ flushing
    /\ CollectorWrites(n)
    /\ TrimTo(batch \o queue, queueBytes + BytesOf(batch))
    /\ timer' = TRUE
    /\ flushing' = FALSE /\ batch' = <<>>
    /\ UNCHANGED <<captured, stops, acked>>

(* The browser stops the service worker and starts it at the next event: a  *)
(* fresh module, whose queue is empty.  A fetch in flight may have arrived. *)
WorkerStops(n) ==
    /\ stops < MaxStops
    /\ stops' = stops + 1
    /\ CollectorWrites(n)
    /\ shed' = shed \cup Ids(Pending)
    /\ queue' = <<>> /\ queueBytes' = 0 /\ timer' = FALSE
    /\ flushing' = FALSE /\ batch' = <<>>
    /\ UNCHANGED <<captured, acked>>

FetchSettles == FetchOk \/ \E n \in 0..Len(batch) : FetchFails(n)

Next ==
    \/ \E z \in EventSizes : Capture(z)
    \/ TimerFiresIdle \/ TimerFlushes
    \/ FetchOk
    \/ \E n \in 0..Len(batch) : FetchFails(n) \/ WorkerStops(n)

\* Timers fire, a fetch ends one way or the other (the browser times it out),
\* and a collector that is asked again and again answers in the end.
Fairness ==
    /\ WF_vars(TimerFiresIdle \/ TimerFlushes)
    /\ WF_vars(FetchSettles)
    /\ SF_vars(FetchOk)

Spec == Init /\ [][Next]_vars /\ Fairness
-----------------------------------------------------------------------------
\* Types; the byte counter never drifts below what the queue can hold.
TypeOK ==
    /\ queue \in Seq(Event) /\ batch \in Seq(Event)
    /\ queueBytes \in Nat
    /\ timer \in BOOLEAN /\ flushing \in BOOLEAN
    /\ captured \in 0..MaxCaptures /\ stops \in 0..MaxStops
    /\ written \subseteq 1..captured
    /\ acked \subseteq 1..captured
    /\ shed \subseteq 1..captured

(* "The headless sender bounds its retry queue" (diag/README.md): after any *)
(* order of captures, failures and restores the counter is the bytes of the *)
(* queue, the queue is within both limits, and a batch exceeds its byte     *)
(* limit only with a single event.                                          *)
Bounded ==
    /\ queueBytes = BytesOf(queue)
    /\ Len(queue) <= MaxQueueEvents /\ queueBytes <= MaxQueueBytes
    /\ Len(batch) <= MaxBatchEvents
    /\ Len(batch) > 1 => 2 + BytesOf(batch) <= MaxBatchBytes

(* Every captured event is acknowledged, still held by the sender, or was   *)
(* shed at the limits or with the worker; what was acknowledged is in the   *)
(* collector's file.  Requests that fail half way lose nothing.             *)
NothingLost ==
    /\ 1..captured = acked \cup Ids(Pending) \cup shed
    /\ acked \subseteq written

(* The sender holds its events in the order of capture, and all of them are *)
(* newer than those it may not send again.                                  *)
InOrder ==
    /\ \A i, j \in DOMAIN Pending : i < j => Pending[i].id < Pending[j].id
    /\ \A i \in DOMAIN Pending, a \in acked : a < Pending[i].id

(* Retries duplicate events in the file but do not reorder their first      *)
(* copies: an event that enters the file is newer than all that are there.  *)
CopiesInOrder ==
    [][\A e \in written' \ written, f \in written : f < e]_vars

Log == INSTANCE CaptureLog WITH waiting <- Ids(queue), sending <- Ids(batch)

(* The sender implements CaptureLog: seen from the file, captures, partial  *)
(* failures, restores at the front, trims and stops of the worker are those *)
(* of an ordered log that gives up only its oldest waiting events.          *)
DeliversAsALog == Log!Spec

\* A queue that is not empty has a timer or a flush that will look at it: the
\* window between the flag and the timer in `finally' loses no wakeup.
NoLostWakeup == queue # <<>> => timer \/ flushing

\* What the next request carries, or the one in flight, is refused whatever is
\* done: it returns to the head after every attempt, and nothing behind it is
\* sent until the limits of the queue push it out.  The limits that bg.js keeps
\* are in UTF-16 units, so a lot of events none of which is long may be refused.
Blocked ==
    IF flushing THEN Refused(batch)
    ELSE queue # <<>> /\ Refused(SubSeq(queue, 1, BatchLength(queue)))

(* A captured event leaves the sender in the end, acknowledged or shed,     *)
(* unless from some moment on every lot at the head of the queue is refused *)
(* by the collector for its length.                                         *)
Settles ==
    \A e \in 1..MaxCaptures :
        e \in Ids(Pending) ~> (e \notin Ids(Pending) \/ []Blocked)
=============================================================================
