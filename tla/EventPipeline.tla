---------------------------- MODULE EventPipeline ----------------------------
(***************************************************************************)
(* Signal events from measurement to disk: the tracker of                  *)
(* crates/rf-engine/src/events.rs, the bounded writer of event_store.rs    *)
(* and the shutdown order and detections request of                        *)
(* crates/rf-server/src/main.rs.                                           *)
(*                                                                         *)
(* The DSP thread feeds one measurement per frame to EventTracker::observe *)
(* and enqueues an event that completes.  The event-store thread writes    *)
(* queued events to SQLite.  The main thread ends serving, joins the DSP   *)
(* thread, then stops the store.  A request for the detections reads the   *)
(* stored events, then the tracker.  A measurement is loud, at or above    *)
(* the threshold, or not; its frequency and its level are left out.        *)
(* Frames are numbered from 1; the number stands for the frame's           *)
(* timestamp, and an event's ID is its start.                              *)
(***************************************************************************)
EXTENDS Integers, Sequences, FiniteSets

CONSTANTS
    QuietFrames,    \* QUIET_FRAMES_TO_CLOSE
    RingEvents,     \* MAX_EVENTS kept by the tracker
    QueueCapacity,  \* EVENT_QUEUE_CAPACITY
    Limit,          \* stored events that a request reads
    MaxFrames,      \* bound: frames analyzed in a behavior
    MaxFailures     \* bound: failing writes in a behavior

ASSUME QuietAssumption == QuietFrames \in Nat \ {0}
ASSUME CapacityAssumption ==
    {RingEvents, QueueCapacity, Limit} \subseteq Nat \ {0}
ASSUME BoundAssumption == MaxFrames \in Nat /\ MaxFailures \in Nat

VARIABLES
    frames,             \* of every frame so far, whether it was loud (history)
    active, quiet,      \* EventTracker.active: an event or None; quiet_frames
    completed,          \* EventTracker.completed, oldest first
    closed,             \* every event that completed (history)
    queue, dropped,     \* the store's channel and its drop counter
    dspDone,            \* the DSP thread has left Engine::run
    storeOpen, storePc, \* Engine.event_store is Some; persist_loop's step
    stopping,           \* EventStore.shutdown
    writing,            \* the event it has taken from the queue, or None
    stored, failed,     \* events in SQLite; events whose write failed (logged)
    mainPc,             \* the main thread
    asked, rows         \* a request: how many events had completed when it came, or -1
                        \* when there is none; the stored events it read

dspVars == <<frames, active, quiet, completed, closed, dspDone>>
storeVars == <<storePc, writing, stored, failed>>
mainVars == <<mainPc, storeOpen, stopping>>
requestVars == <<asked, rows>>
vars == <<dspVars, storeVars, mainVars, queue, dropped, requestVars>>

None == [start |-> 0, end |-> 0]
Frame == Len(frames) + 1

(* main enables persistence before it spawns the DSP thread. *)
Init ==
    /\ frames = <<>> /\ active = None /\ quiet = 0
    /\ completed = <<>> /\ closed = <<>>
    /\ queue = <<>> /\ dropped = 0
    /\ dspDone = FALSE /\ mainPc = "serving"
    /\ storeOpen = TRUE /\ stopping = FALSE
    /\ storePc = "recv" /\ writing = None /\ stored = {} /\ failed = {}
    /\ asked = -1 /\ rows = {}

----------------------------------------------------------------------------
(* The DSP thread: EventTracker::observe, then EventStore::enqueue. *)

\* try_send while the store is there: a full queue costs the event.  Without a
\* store the event is not even counted.
Enqueue(event) ==
    IF ~storeOpen THEN UNCHANGED <<queue, dropped>>
    ELSE \/ /\ Len(queue) < QueueCapacity
            /\ queue' = Append(queue, event)
            /\ UNCHANGED dropped
         \/ /\ Len(queue) >= QueueCapacity
            /\ dropped' = dropped + 1
            /\ UNCHANGED queue

Running == ~dspDone /\ Len(frames) < MaxFrames

Loud ==
    /\ Running
    /\ frames' = Append(frames, TRUE)
    /\ active' = IF active = None THEN [start |-> Frame, end |-> 0] ELSE active
    /\ quiet' = 0
    /\ UNCHANGED <<completed, closed, dspDone, storeVars, mainVars, queue,
                   dropped, requestVars>>

\* Faulty variant of Closing: an event closes one quiet frame late.
ClosingLate == active # None /\ quiet >= QuietFrames

\* A quiet frame closes the active event when it is the third one in a row.
Closing == active # None /\ quiet + 1 >= QuietFrames

Quiet ==
    /\ Running /\ ~Closing
    /\ frames' = Append(frames, FALSE)
    /\ quiet' = IF active = None THEN quiet ELSE quiet + 1
    /\ UNCHANGED <<active, completed, closed, dspDone, storeVars, mainVars,
                   queue, dropped, requestVars>>

Close ==
    /\ Running /\ Closing
    /\ frames' = Append(frames, FALSE)
    /\ active' = None /\ quiet' = 0
    /\ LET event == [start |-> active.start, end |-> Frame]
           room == IF Len(completed) >= RingEvents THEN Tail(completed)
                   ELSE completed
       IN  /\ completed' = Append(room, event)
           /\ closed' = Append(closed, event)
           /\ Enqueue(event)
    /\ UNCHANGED <<dspDone, storeVars, mainVars, requestVars>>

\* Engine::run sees the shutdown flag at the head of its loop.
DspExit ==
    /\ ~dspDone /\ mainPc # "serving"
    /\ dspDone' = TRUE
    /\ UNCHANGED <<frames, active, quiet, completed, closed, storeVars,
                   mainVars, queue, dropped, requestVars>>

Dsp == Loud \/ Quiet \/ Close \/ DspExit

----------------------------------------------------------------------------
(* The event-store thread: persist_loop. *)

Take ==
    /\ writing = None
    /\ storePc \in {"recv", "drain"} /\ queue # <<>>
    /\ writing' = Head(queue) /\ queue' = Tail(queue)
    /\ UNCHANGED <<storePc, stored, failed, dspVars, mainVars, dropped, requestVars>>

\* record_signal_event either stores the event or logs an error.
Persist ==
    /\ writing # None
    /\ \/ stored' = stored \cup {writing} /\ UNCHANGED failed
       \/ /\ Cardinality(failed) < MaxFailures
          /\ failed' = failed \cup {writing} /\ UNCHANGED stored
    /\ writing' = None
    /\ UNCHANGED <<storePc, dspVars, mainVars, queue, dropped, requestVars>>

\* Faulty variant of AfterTimeout: the flag is ignored, as if only a disconnected
\* channel ended the loop.
AfterTimeoutRecv == "recv"

AfterTimeout == IF stopping THEN "drain" ELSE "recv"

\* recv_timeout times out on an empty queue; then the flag is read.
Expire ==
    /\ storePc = "recv" /\ writing = None /\ queue = <<>>
    /\ storePc' = AfterTimeout
    /\ UNCHANGED <<writing, stored, failed, dspVars, mainVars, queue, dropped,
                   requestVars>>

\* try_iter: what arrived since the timeout, then the loop breaks.
Drained ==
    /\ storePc = "drain" /\ writing = None /\ queue = <<>>
    /\ storePc' = "done"
    /\ UNCHANGED <<writing, stored, failed, dspVars, mainVars, queue, dropped,
                   requestVars>>

Store == Take \/ Persist \/ Expire \/ Drained

----------------------------------------------------------------------------
(* The main thread after axum::serve. *)

RequestShutdown ==
    /\ mainPc = "serving"
    /\ mainPc' = "joining"
    /\ UNCHANGED <<storeOpen, stopping, dspVars, storeVars, queue, dropped, requestVars>>

\* Faulty variant of DspJoined: main does not wait.
NotJoined == TRUE

DspJoined == dspDone

\* The DSP thread is joined; then shutdown_event_persistence takes the store and
\* sets its flag.
JoinDsp ==
    /\ mainPc = "joining" /\ DspJoined
    /\ mainPc' = "stopping"
    /\ storeOpen' = FALSE /\ stopping' = TRUE
    /\ UNCHANGED <<dspVars, storeVars, queue, dropped, requestVars>>

JoinStore ==
    /\ mainPc = "stopping" /\ storePc = "done"
    /\ mainPc' = "done"
    /\ UNCHANGED <<storeOpen, stopping, dspVars, storeVars, queue, dropped, requestVars>>

Main == JoinDsp \/ JoinStore

----------------------------------------------------------------------------
(* The request for the detections, while the server serves. *)

\* Storage::signal_events: the latest by the time they ended.
Newest(events) ==
    {e \in events : Cardinality({f \in events : f.end > e.end}) < Limit}

Ask ==
    /\ mainPc = "serving" /\ asked = -1
    /\ asked' = Len(closed) /\ rows' = Newest(stored)
    /\ UNCHANGED <<dspVars, storeVars, mainVars, queue, dropped>>

\* EventTracker::events: what the ring holds, and the event that has not ended.
Live == {completed[i] : i \in DOMAIN completed} \cup ({active} \ {None})

\* Faulty variant of Merged: the tracker is asked for the active event alone.
MergedActive == rows \cup ({active} \ {None})

\* By ID, a live event in place of a stored one.
Merged == Live \cup {e \in rows : \A f \in Live : f.start # e.start}

Answer ==
    /\ asked # -1
    /\ asked' = -1 /\ rows' = {}
    /\ UNCHANGED <<dspVars, storeVars, mainVars, queue, dropped>>

----------------------------------------------------------------------------
Stopped == mainPc = "done" /\ UNCHANGED vars

Next == Dsp \/ Store \/ RequestShutdown \/ Main \/ Ask \/ Answer \/ Stopped

Spec == Init /\ [][Next]_vars

\* The DSP loop comes back to its head, the store's timer fires and its thread
\* runs, and main is not interrupted.  Nothing forces frames or a shutdown.
Fairness == WF_vars(DspExit) /\ WF_vars(Store) /\ WF_vars(Main)

FairSpec == Spec /\ Fairness
----------------------------------------------------------------------------
(* Properties. *)

Elements(s) == {s[i] : i \in DOMAIN s}

Event == [start : Nat, end : Nat]

\* Every variable holds a value of its type; the tracker's ring and the store's
\* queue stay within their capacities.
TypeOK ==
    /\ frames \in Seq(BOOLEAN)
    /\ active \in Event /\ quiet \in Nat
    /\ completed \in Seq(Event) /\ Len(completed) <= RingEvents
    /\ closed \in Seq(Event)
    /\ queue \in Seq(Event) /\ Len(queue) <= QueueCapacity
    /\ dropped \in Nat
    /\ dspDone \in BOOLEAN /\ storeOpen \in BOOLEAN /\ stopping \in BOOLEAN
    /\ storePc \in {"recv", "drain", "done"}
    /\ writing \in Event /\ {stored, failed, rows} \subseteq SUBSET Event
    /\ asked \in -1..Len(closed)
    /\ mainPc \in {"serving", "joining", "stopping", "done"}

\* What an event is, said of the whole history of frames: it starts at a loud frame that
\* continues no earlier event, holds no pause as long as QuietFrames, and ends with one.
Pauses == {j \in QuietFrames..Len(frames) :
              \A k \in (j - QuietFrames + 1)..j : ~frames[k]}
Starts == {i \in DOMAIN frames :
              /\ frames[i]
              /\ \E k \in Pauses \cup {0} : k < i /\ \A m \in (k + 1)..(i - 1) : ~frames[m]}
EventsOf == {[start |-> i, end |-> CHOOSE j \in Pauses : j > i /\ Pauses \cap i..(j - 1) = {}]
                : i \in {i \in Starts : \E j \in Pauses : j > i}}

\* The tracker remembers the latest completed events, in order.
RingIsLatest ==
    /\ Len(completed) = IF Len(closed) < RingEvents THEN Len(closed)
                        ELSE RingEvents
    /\ \A i \in DOMAIN completed :
          completed[i] = closed[Len(closed) - Len(completed) + i]

\* observe, one frame at a time, finds exactly the events of the history, and its
\* ring shows the latest of them.
TrackerFindsEvents == Elements(closed) = EventsOf /\ RingIsLatest

\* Every completed event is stored, failed with a logged error, counted as
\* dropped, or still queued: none disappears.  When the process goes on to close
\* the device, nothing is left in the queue.
NoEventLost ==
    /\ Len(closed) = Cardinality(stored \cup failed) + dropped + Len(queue)
                     + IF writing = None THEN 0 ELSE 1
    /\ mainPc = "done" => queue = <<>>

\* docs/storage.md: the detections are "the latest 4096 stored completed events with the
\* bounded live event tracker".  An event that had completed when the request came is in
\* the answer, on its way through queue and store as it may be, if it is neither dropped
\* nor failed, the store's limit is not reached, and the request is not so slow that the
\* ring turns over what was queued when it came.
DetectionsComplete ==
    [][asked # -1 /\ asked' = -1 /\ dropped = 0 /\ Cardinality(stored) < Limit
       /\ Len(closed) - asked <= RingEvents - QueueCapacity - 1 =>
          \A i \in 1..asked : closed[i] \in Merged \cup failed]_vars

\* A shutdown ends, whatever the tracker and the database do.
ShutdownEnds == mainPc = "joining" ~> mainPc = "done"
=============================================================================
