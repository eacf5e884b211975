------------------------------ MODULE IqStream ------------------------------
(***************************************************************************)
(* One receive stream: crates/rf-device/src/stream.rs between the native   *)
(* callback that fills it and the loop of crates/rf-engine/src/lib.rs that *)
(* drains it.                                                              *)
(*                                                                         *)
(* The callback calls Ingress::push.  The DSP thread attaches the current  *)
(* recording to the stream, reads one block through BufferedSource, and    *)
(* resets the receivers when the drop counter moved.  The device owner     *)
(* stops the stream; a restart makes a new one.  Two mutexes are shared:   *)
(* the recording slot and the pool.  The callback only tries them.         *)
(* A block is its number in the order of arrival.                          *)
(***************************************************************************)
EXTENDS Integers, Sequences

CONSTANTS
    PoolBlocks,   \* POOL_BLOCKS
    MaxArrived,   \* bound: transfers the receiver delivers in a behavior
    MaxStale,     \* bound: drops the loop saw in the stream before this one
    MaxRecorded   \* bound: recordings started in a behavior

ASSUME PoolAssumption == PoolBlocks \in Nat \ {0}
ASSUME BoundAssumption ==
    MaxArrived \in Nat /\ MaxStale \in Nat /\ MaxRecorded \in Nat

VARIABLES
    free, ready,          \* Pool: number of free blocks; filled ones, in order
    poolLocked,           \* the reader holds the pool mutex
    slot, slotLocked,     \* Ingress.recording: a recording or 0; engine holds it
    blocks, dropped,      \* StreamCounters.blocks, dropped_blocks
    running,              \* StreamCounters.running
    cbPc, arrived, fits,  \* the callback; transfers so far; this one is valid
    streaming,            \* the native receiver may call back
    recording, recordings,\* RecordingManager.current, or 0; number started
    rPc, rSink, rBlock,   \* the engine's loop: step, sink to attach, block read
    seenDrops,            \* iq_drops, the drop count of the loop's last pass
    delivered,            \* blocks given to the receivers, in order (history)
    resets,               \* n: receivers were reset before delivered[n] (history)
    teed, missed,         \* blocks pushed to a recording, and not (history)
    haltedAt              \* Len(delivered) when running was cleared (history)

poolVars == <<free, ready, poolLocked>>
slotVars == <<slot, slotLocked>>
cbVars == <<cbPc, arrived, fits, blocks, dropped, teed, missed>>
rVars == <<rPc, rSink, rBlock, seenDrops, delivered, resets>>
ctlVars == <<running, streaming, recording, recordings, haltedAt>>
vars == <<poolVars, slotVars, cbVars, rVars, ctlVars>>

(* Receiver::start hands out a stream that is already running.  The engine   *)
(* resets the receivers when it takes the stream out of the mailbox; the     *)
(* drop count it compares with is that of the stream it read before.         *)
Init ==
    /\ free = PoolBlocks /\ ready = <<>> /\ poolLocked = FALSE
    /\ slot = 0 /\ slotLocked = FALSE
    /\ blocks = 0 /\ dropped = 0
    /\ running = TRUE /\ streaming = TRUE /\ haltedAt = 0
    /\ cbPc = "idle" /\ arrived = 0 /\ fits = TRUE
    /\ recording = 0 /\ recordings = 0
    /\ rPc = "sink" /\ rSink = 0 /\ rBlock = 0 /\ seenDrops \in 0..MaxStale
    /\ delivered = <<>> /\ resets = {1}
    /\ teed = {} /\ missed = {}

----------------------------------------------------------------------------
(* The callback: Ingress::push. *)

\* The slot is tried.  When the engine holds it the block skips the recording.
Arrive ==
    /\ cbPc = "idle" /\ streaming /\ arrived < MaxArrived
    /\ arrived' = arrived + 1
    /\ fits' \in BOOLEAN
    /\ \/ ~slotLocked /\ slot # 0 /\ cbPc' = "tee" /\ UNCHANGED missed
       \/ /\ slotLocked \/ slot = 0
          /\ cbPc' = "pool"
          /\ missed' = IF slotLocked /\ slot # 0 /\ slot = recording
                       THEN missed \cup {arrived + 1} ELSE missed
    /\ UNCHANGED <<blocks, dropped, teed, poolVars, slotVars, rVars, ctlVars>>

\* RecordingSink::push (module RecordingWriter), with the slot held.  A sink
\* whose recording has been stopped takes nothing.
Tee ==
    /\ cbPc = "tee"
    /\ teed' = IF slot = recording THEN teed \cup {arrived} ELSE teed
    /\ cbPc' = "pool"
    /\ UNCHANGED <<arrived, fits, blocks, dropped, missed, poolVars, slotVars,
                   rVars, ctlVars>>

\* drop_block, after a faulty variant that does not count a busy pool.
DropUnlessBusy == dropped' = IF poolLocked THEN dropped ELSE dropped + 1
DropBlock == dropped' = dropped + 1

\* try_lock and free.pop().
Room == ~poolLocked /\ free > 0

\* The pool is tried.  A transfer of a bad length, a busy pool and an empty one
\* cost the block.
Enqueue ==
    /\ cbPc = "pool"
    /\ blocks' = blocks + 1
    /\ \/ /\ fits /\ Room
          /\ free' = free - 1
          /\ ready' = Append(ready, arrived)
          /\ UNCHANGED dropped
       \/ /\ ~(fits /\ Room)
          /\ DropBlock
          /\ UNCHANGED <<free, ready>>
    /\ cbPc' = "idle"
    /\ UNCHANGED <<arrived, fits, teed, missed, poolLocked, slotVars, rVars,
                   ctlVars>>

Callback == Tee \/ Enqueue

----------------------------------------------------------------------------
(* The engine's loop over a hardware source. *)

\* recording.sink(), after a faulty variant that never detaches a recording.
SinkKept == IF recording = 0 THEN slot ELSE recording
Sink == recording

\* The sink is loaded before the lock in Ingress::set_recording is taken.
LoadSink ==
    /\ rPc = "sink"
    /\ rSink' = Sink
    /\ rPc' = "lockslot"
    /\ UNCHANGED <<rBlock, seenDrops, delivered, resets, poolVars, slotVars,
                   cbVars, ctlVars>>

LockSlot ==
    /\ rPc = "lockslot" /\ cbPc # "tee"
    /\ slotLocked' = TRUE
    /\ rPc' = "attach"
    /\ UNCHANGED <<rSink, rBlock, seenDrops, delivered, resets, slot, poolVars,
                   cbVars, ctlVars>>

Attach ==
    /\ rPc = "attach"
    /\ slot' = rSink /\ slotLocked' = FALSE
    /\ rPc' = "check"
    /\ UNCHANGED <<rSink, rBlock, seenDrops, delivered, resets, poolVars,
                   cbVars, ctlVars>>

\* The test of read, after a faulty variant that lets a stopped stream go on.
AlwaysReadable == TRUE
Readable == running

\* BufferedSource::read starts here: a stopped stream yields NoData.
Check ==
    /\ rPc = "check"
    /\ rPc' = IF Readable THEN "lockpool" ELSE "sink"
    /\ UNCHANGED <<rSink, rBlock, seenDrops, delivered, resets, poolVars,
                   slotVars, cbVars, ctlVars>>

\* The pool is locked twice: to take a block, and to give its buffer back.
LockPool ==
    /\ \/ rPc = "lockpool" /\ rPc' = "pop"
       \/ rPc = "convert" /\ rPc' = "recycle"
    /\ poolLocked' = TRUE
    /\ UNCHANGED <<rSink, rBlock, seenDrops, delivered, resets, free, ready,
                   slotVars, cbVars, ctlVars>>

Pop ==
    /\ rPc = "pop"
    /\ \/ ready = <<>> /\ rPc' = "sink" /\ UNCHANGED <<ready, rBlock>>
       \/ /\ ready # <<>>
          /\ rBlock' = Head(ready) /\ ready' = Tail(ready)
          /\ rPc' = "convert"
    /\ poolLocked' = FALSE
    /\ UNCHANGED <<rSink, seenDrops, delivered, resets, free, slotVars, cbVars,
                   ctlVars>>

\* The engine's output buffer holds a whole block, so read never fails here.
Recycle ==
    /\ rPc = "recycle"
    /\ free' = free + 1 /\ poolLocked' = FALSE
    /\ rPc' = "drops"
    /\ UNCHANGED <<rSink, rBlock, seenDrops, delivered, resets, ready, slotVars,
                   cbVars, ctlVars>>

\* A drop count that moved resets every receiver before this block.
CheckDrops ==
    /\ rPc = "drops"
    /\ seenDrops' = dropped
    /\ resets' = IF dropped # seenDrops THEN resets \cup {Len(delivered) + 1}
                 ELSE resets
    /\ rPc' = "process"
    /\ UNCHANGED <<rSink, rBlock, delivered, poolVars, slotVars, cbVars, ctlVars>>

Process ==
    /\ rPc = "process"
    /\ delivered' = Append(delivered, rBlock)
    /\ rPc' = "sink"
    /\ UNCHANGED <<rSink, rBlock, seenDrops, resets, poolVars, slotVars, cbVars,
                   ctlVars>>

Reader == LoadSink \/ LockSlot \/ Attach \/ Check \/ LockPool \/ Pop \/ Recycle
              \/ CheckDrops \/ Process

----------------------------------------------------------------------------
(* The control side. *)

StartRecording ==
    /\ recording = 0 /\ recordings < MaxRecorded
    /\ recordings' = recordings + 1
    /\ recording' = recordings + 1
    /\ UNCHANGED <<running, streaming, haltedAt, poolVars, slotVars, cbVars, rVars>>

StopRecording ==
    /\ recording # 0
    /\ recording' = 0
    /\ UNCHANGED <<running, streaming, haltedAt, recordings, poolVars, slotVars,
                   cbVars, rVars>>

\* Receiver::stop, or check_health when the native stream died, clears the flag.
Halt ==
    /\ running
    /\ running' = FALSE /\ haltedAt' = Len(delivered)
    /\ UNCHANGED <<streaming, recording, recordings, poolVars, slotVars, cbVars,
                   rVars>>

\* hackrf_stop_rx returns once the callback thread is joined.
JoinCallback ==
    /\ ~running /\ streaming /\ cbPc = "idle"
    /\ streaming' = FALSE
    /\ UNCHANGED <<running, haltedAt, recording, recordings, poolVars, slotVars,
                   cbVars, rVars>>

Next == Arrive \/ Callback \/ Reader \/ StartRecording \/ StopRecording \/ Halt
            \/ JoinCallback

Spec == Init /\ [][Next]_vars

\* Both threads are scheduled.  The DSP thread waits for the slot only while the
\* callback is inside a recording's push, which ends.
Fairness == WF_vars(Callback) /\ WF_vars(Reader)

FairSpec == Spec /\ Fairness
----------------------------------------------------------------------------
(* Properties. *)

One(condition) == IF condition THEN 1 ELSE 0

\* Every variable holds a value of its type in the code.
TypeOK ==
    /\ free \in Nat /\ ready \in Seq(Nat) /\ poolLocked \in BOOLEAN
    /\ slot \in Nat /\ slotLocked \in BOOLEAN
    /\ blocks \in Nat /\ dropped \in Nat
    /\ running \in BOOLEAN /\ streaming \in BOOLEAN /\ haltedAt \in Nat
    /\ cbPc \in {"idle", "tee", "pool"} /\ arrived \in Nat /\ fits \in BOOLEAN
    /\ recording \in Nat /\ recordings \in Nat
    /\ rPc \in {"sink", "lockslot", "attach", "check", "lockpool", "pop",
                "convert", "recycle", "drops", "process"}
    /\ rSink \in Nat /\ rBlock \in Nat /\ seenDrops \in Nat
    /\ delivered \in Seq(Nat) /\ resets \subseteq Nat
    /\ teed \subseteq Nat /\ missed \subseteq Nat

\* Ingress and BufferedSource never lose or duplicate a buffer of the pool.
PoolConserved ==
    free + Len(ready) + One(rPc \in {"convert", "recycle"}) = PoolBlocks

\* Every block counted as received is delivered, counted as dropped, waiting in
\* the pool or in the reader's hands: the diagnostics add up.
Accounted ==
    blocks = Len(delivered) + dropped + Len(ready)
                + One(rPc \in {"convert", "recycle", "drops", "process"})

\* Callback and reader, each with the pool's lock in turn, lose neither a buffer
\* nor a block: buffers are conserved and the diagnostics add up.
NothingIsLost == PoolConserved /\ Accounted

\* The receivers get the blocks in the order of arrival, none twice, whatever
\* the callback and the reader interleave.
DeliveredInOrder ==
    \A i, j \in DOMAIN delivered : i < j => delivered[i] < delivered[j]

\* However many blocks are missing from what the receivers got, the loop had seen at
\* least as many drops when it handed the last one on: no overload is invisible.
GapsCounted ==
    delivered # <<>> =>
        delivered[Len(delivered)] - Len(delivered) <= seenDrops

\* A stopped stream delivers at most the one block that was being read: blocks
\* received under the old settings stay in the pool.
StopsDelivery == ~running => Len(delivered) <= haltedAt + 1

\* What the receivers get is the stream in order, without the counted gaps and
\* without what a stop left behind.
StreamIsWhole == DeliveredInOrder /\ GapsCounted /\ StopsDelivery

\* What the receivers get is what StreamContract promises: in particular a gap is
\* counted before the block behind it is handed on, and a restart never lets more than
\* the block in the reader's hands through.
Contract ==
    INSTANCE StreamContract WITH
        heard <- delivered, lost <- dropped,
        stage <- IF running THEN "open"
                 ELSE IF Len(delivered) = haltedAt THEN "stopped" ELSE "over"

ContractKept == Contract!Spec

\* The recording attached to the stream ends up being the current one, and a
\* finished recording is detached.
SinkFollows == <>[](slot = recording)

----------------------------------------------------------------------------
(* Statements of the documentation that the code does not keep. *)

\* docs/vfo.md: receiver state persists across blocks; "reported IQ drops reset" it.
\* Two blocks with a drop between them are never processed as adjacent ones.
GapsReset ==
    \A i \in 2..Len(delivered) :
        delivered[i] # delivered[i - 1] + 1 => i \in resets

\* docs/architecture.md: for a recording "overload is explicit".  A block that
\* an attached recording never saw would have to show in some counter.
AttachedRecordingSeesAll == missed = {}
=============================================================================
