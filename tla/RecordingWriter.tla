--------------------------- MODULE RecordingWriter ---------------------------
(***************************************************************************)
(* One SigMF recording of crates/rf-engine/src/recording.rs, from the      *)
(* state Recording::start returns to the result of Recording::finish.      *)
(*                                                                         *)
(* Four threads meet here.  The native receive callback pushes IQ blocks   *)
(* through RecordingSink; the writer thread drains the bounded channel     *)
(* into the data file; a stop request runs finish; the control path        *)
(* retunes the receiver and records the new settings in the metadata.      *)
(* They share a pool of preallocated blocks, a bounded channel, atomics,   *)
(* and a summary.  A block is its number and the settings it was received  *)
(* under; a length in samples is counted in blocks.                        *)
(***************************************************************************)
EXTENDS Integers, Sequences

CONSTANTS
    PoolBlocks,     \* RECORD_POOL_BLOCKS: blocks preallocated for the sink
    ChannelBlocks,  \* CHANNEL_BLOCKS: capacity of the writer's channel
    Settings,       \* receiver settings (center frequency and sample rate)
    Modulus,        \* 2^64: the width of the queued counter
    MaxOffered,     \* bound: blocks the receiver delivers in a behavior
    MaxPatches      \* bound: setting changes in a behavior

ASSUME PoolAssumption == PoolBlocks \in Nat \ {0}
ASSUME ChannelAssumption == ChannelBlocks \in Nat \ {0}
ASSUME ModulusAssumption == Modulus \in Nat /\ Modulus > ChannelBlocks + 2
ASSUME BoundAssumption == MaxOffered \in Nat /\ MaxPatches \in Nat

VARIABLES
    free,       \* number of blocks in Shared.free
    queue,      \* blocks in the channel, oldest first
    queued,     \* Shared.queued, a wrapping u64
    dropped,    \* Shared.dropped_blocks (dropped_bytes moves with it)
    writeErrors, metaErrors,  \* Shared.write_errors, metadata_write_errors
    samples,    \* Shared.samples_written
    cbPc, cbBlock,            \* the callback inside RecordingSink::push
    offered,    \* blocks pushed while the recording was active (history)
    wPc, wBlock, bytes,       \* writer_loop: its step, its block, its count
    file,       \* blocks written whole to the data file, in file order
    torn,       \* failed writes that left part of a block in the data file
    summary,    \* the writer's RecordingSummary
    finPc, result,            \* Recording::finish and what it returned
    tuned, patches,           \* settings of the hardware; changes so far
    ctlPc, ctlStart, ctlTune, \* record_device_state, what it read
    captures, saved           \* metadata in memory; metadata file

cbVars == <<cbPc, cbBlock, offered>>
wVars == <<wPc, wBlock, bytes, file, torn, summary, samples>>
finVars == <<finPc, result>>
ctlVars == <<tuned, patches, ctlPc, ctlStart, ctlTune, captures, saved,
             metaErrors>>
poolVars == <<free, queue, queued, dropped, writeErrors>>
vars == <<cbVars, wVars, finVars, ctlVars, poolVars>>

Block == [n : Nat, tune : Settings]
Capture == [start : Nat, tune : Settings]
Summary == [written : Nat, queued : Nat, dropped : Nat, writeErrors : Nat]
NoBlock == [n |-> 0, tune |-> tuned]

----------------------------------------------------------------------------
\* Shared.active, and RecordingSink.tx being Some: only finish changes them.
Active == finPc = "idle"
SenderOpen == finPc \in {"idle", "closing"}

\* Mutex guards, by the steps that hold them.
HoldsUntilNext ==   \* faulty variant: the guard lives until the next block
    \/ wPc = "free"
    \/ wPc \in {"report", "recv"} /\ bytes > 0
WriterHoldsPool == wPc = "free"
CallbackHoldsSender == cbPc \in {"send", "count", "giveback"}

(* What Recording::start sets up, over a pool of so many blocks. *)
StartWith(blocks) ==
    /\ tuned \in Settings
    /\ free = blocks /\ queue = <<>>
    /\ queued = 0 /\ dropped = 0 /\ writeErrors = 0 /\ metaErrors = 0
    /\ samples = 0 /\ bytes = 0 /\ offered = 0 /\ patches = 0
    /\ cbPc = "idle" /\ cbBlock = NoBlock
    /\ wPc = "recv" /\ wBlock = NoBlock
    /\ file = <<>> /\ torn = 0
    /\ summary = [written |-> 0, queued |-> 0, dropped |-> 0,
                  writeErrors |-> 0]
    /\ finPc = "idle" /\ result = "none"
    /\ ctlPc = "idle" /\ ctlStart = 0 /\ ctlTune = tuned
    /\ captures = <<[start |-> 0, tune |-> tuned]>>
    /\ saved = captures

\* Faulty variant of Init: the range that fills the pool stops one short.
InitOneShort == StartWith(PoolBlocks - 1)

Init == StartWith(PoolBlocks)

----------------------------------------------------------------------------
(* The callback: RecordingSink::push.  A push that finds the recording     *)
(* inactive returns at once and changes nothing, so it is no step here.    *)

\* RecordingSink::drop, after a faulty variant that does not count.
DropUncounted == UNCHANGED dropped
Drop == dropped' = dropped + 1

Offer ==
    /\ cbPc = "idle" /\ Active /\ offered < MaxOffered
    /\ offered' = offered + 1
    /\ cbBlock' = [n |-> offered + 1, tune |-> tuned]
    /\ cbPc' = "take"
    /\ UNCHANGED <<wVars, finVars, ctlVars, poolVars>>

DropAtPool ==
    /\ cbPc = "take"
    /\ \/ WriterHoldsPool                \* try_lock fails
       \/ ~WriterHoldsPool /\ free = 0   \* no free block
       \/ ~WriterHoldsPool /\ free > 0   \* the transfer exceeds a block
    /\ Drop
    /\ cbPc' = "idle"
    /\ UNCHANGED <<cbBlock, offered, wVars, finVars, ctlVars,
                   free, queue, queued, writeErrors>>

TakeFree ==
    /\ cbPc = "take" /\ ~WriterHoldsPool /\ free > 0
    /\ free' = free - 1
    /\ cbPc' = "enter"
    /\ UNCHANGED <<cbBlock, offered, wVars, finVars, ctlVars,
                   queue, queued, dropped, writeErrors>>

\* tx.lock(): held from here to the end of the push.  When finish has taken
\* the sender the block is counted as dropped and never returns to the pool.
EnterChannel ==
    /\ cbPc = "enter"
    /\ \/ /\ SenderOpen
          /\ cbPc' = "send"
          /\ UNCHANGED dropped
       \/ /\ ~SenderOpen
          /\ cbPc' = "idle"
          /\ Drop
    /\ UNCHANGED <<cbBlock, offered, wVars, finVars, ctlVars,
                   free, queue, queued, writeErrors>>

\* try_send.  Its Disconnected outcome is left out: WriterOutlivesSender.
TrySend ==
    /\ cbPc = "send"
    /\ \/ /\ Len(queue) < ChannelBlocks
          /\ queue' = Append(queue, cbBlock)
          /\ cbPc' = "count"
          /\ UNCHANGED dropped
       \/ /\ Len(queue) >= ChannelBlocks
          /\ dropped' = dropped + 1
          /\ cbPc' = "giveback"
          /\ UNCHANGED queue
    /\ UNCHANGED <<cbBlock, offered, wVars, finVars, ctlVars,
                   free, queued, writeErrors>>

\* queued.fetch_add, after the block is already in the channel.
CountQueued ==
    /\ cbPc = "count"
    /\ queued' = (queued + 1) % Modulus
    /\ cbPc' = "idle"
    /\ UNCHANGED <<cbBlock, offered, wVars, finVars, ctlVars,
                   free, queue, dropped, writeErrors>>

GiveBack ==
    /\ cbPc = "giveback" /\ ~WriterHoldsPool
    /\ free' = free + 1
    /\ cbPc' = "idle"
    /\ UNCHANGED <<cbBlock, offered, wVars, finVars, ctlVars,
                   queue, queued, dropped, writeErrors>>

----------------------------------------------------------------------------
(* The writer thread: writer_loop. *)

Recv ==
    /\ wPc = "recv" /\ queue # <<>>
    /\ wBlock' = Head(queue)
    /\ queue' = Tail(queue)
    /\ wPc' = "sub"
    /\ UNCHANGED <<bytes, file, torn, summary, samples, cbVars, finVars,
                   ctlVars, free, queued, dropped, writeErrors>>

\* queued.fetch_sub(1) wraps; the faulty variant saturates and loses the one that
\* comes before its fetch_add.
OneLessSaturated == IF queued = 0 THEN 0 ELSE queued - 1
OneLess == (queued - 1) % Modulus

UncountQueued ==
    /\ wPc = "sub"
    /\ queued' = OneLess
    /\ wPc' = "write"
    /\ UNCHANGED <<wBlock, bytes, file, torn, summary, samples, cbVars,
                   finVars, ctlVars, free, queue, dropped, writeErrors>>

Write ==
    /\ wPc = "write"
    /\ \/ /\ file' = Append(file, wBlock)
          /\ bytes' = bytes + 1
          /\ UNCHANGED <<torn, writeErrors>>
       \/ /\ torn' \in {torn, torn + 1}  \* write_all fails before or after a part
          /\ writeErrors' = writeErrors + 1
          /\ UNCHANGED <<file, bytes>>
    /\ wPc' = "lock"
    /\ UNCHANGED <<wBlock, summary, samples, cbVars, finVars, ctlVars,
                   free, queue, queued, dropped>>

LockPool ==
    /\ wPc = "lock"
    /\ wPc' = "free"
    /\ UNCHANGED <<wBlock, bytes, file, torn, summary, samples, cbVars,
                   finVars, ctlVars, poolVars>>

ReturnBlock ==
    /\ wPc = "free"
    /\ free' = free + 1
    /\ wPc' = "report"
    /\ UNCHANGED <<wBlock, bytes, file, torn, summary, samples, cbVars,
                   finVars, ctlVars, queue, queued, dropped, writeErrors>>

Report ==
    /\ wPc = "report"
    /\ summary' = [written |-> bytes, queued |-> queued,
                   dropped |-> dropped, writeErrors |-> writeErrors]
    /\ samples' = bytes
    /\ wPc' = "recv"
    /\ UNCHANGED <<wBlock, bytes, file, torn, cbVars, finVars, ctlVars,
                   poolVars>>

\* recv fails once the sender is gone and the channel is drained; the faulty
\* variant waits for every buffer.
AllReturned == queue = <<>> /\ ~SenderOpen /\ free = PoolBlocks
ChannelClosed == queue = <<>> /\ ~SenderOpen

\* The last report, after a faulty variant that keeps the drops reported before.
FinalStale == [written |-> summary.written, queued |-> 0,
               dropped |-> summary.dropped, writeErrors |-> writeErrors]
FinalSummary == [written |-> summary.written, queued |-> 0,
                 dropped |-> dropped, writeErrors |-> writeErrors]

FinalReport ==
    /\ wPc = "recv" /\ ChannelClosed
    /\ summary' = FinalSummary
    /\ wPc' = "done"
    /\ UNCHANGED <<wBlock, bytes, file, torn, samples, cbVars, finVars,
                   ctlVars, poolVars>>

----------------------------------------------------------------------------
(* RecordingManager::stop and Recording::finish.  The server's mutations   *)
(* mutex keeps a stop from starting while a settings change is under way.  *)

Deactivate ==
    /\ finPc = "idle" /\ ctlPc = "idle"
    /\ finPc' = "closing"
    /\ UNCHANGED <<result, cbVars, wVars, ctlVars, poolVars>>

CloseSender ==
    /\ finPc = "closing" /\ ~CallbackHoldsSender
    /\ finPc' = "joining"
    /\ UNCHANGED <<result, cbVars, wVars, ctlVars, poolVars>>

\* Recording::summary overrides metadata_write_errors with the live counter.
JoinWriter ==
    /\ finPc = "joining" /\ wPc = "done"
    /\ result' = IF summary.dropped > 0 \/ summary.writeErrors > 0
                    \/ metaErrors > 0
                 THEN "incomplete" ELSE "complete"
    /\ finPc' = "returned"
    /\ UNCHANGED <<cbVars, wVars, ctlVars, poolVars>>

----------------------------------------------------------------------------
(* The control path.  The device worker applies new settings with the      *)
(* receiver stopped, so no callback is running; patch_state then takes a   *)
(* snapshot of the device and calls Recording::record_device_state.        *)

\* The control handler (PATCH /device/control), and a patch_state whose client
\* has gone before the worker is done, change the settings and record nothing.
\* A change after the stop request touches nothing this module observes.
Retune ==
    /\ finPc = "idle" /\ cbPc = "idle"
    /\ patches < MaxPatches
    /\ patches' = patches + 1
    /\ tuned' \in Settings
    /\ \/ ctlPc = "idle" /\ ctlPc' = "applied"
       \/ UNCHANGED ctlPc
    /\ UNCHANGED <<ctlStart, ctlTune, captures, saved, metaErrors, cbVars,
                   wVars, finVars, poolVars>>

\* samples_written, after a faulty variant that counts blocks not yet written.
PositionOffered == offered
Position == samples

LoadPosition ==
    /\ ctlPc = "applied"
    /\ ctlStart' = Position /\ ctlTune' = tuned
    /\ ctlPc' = "loaded"
    /\ UNCHANGED <<tuned, patches, captures, saved, metaErrors, cbVars,
                   wVars, finVars, poolVars>>

RecordState ==
    /\ ctlPc = "loaded"
    /\ captures' =
          IF captures[Len(captures)].tune = ctlTune THEN captures
          ELSE Append(captures, [start |-> ctlStart, tune |-> ctlTune])
    /\ \/ saved' = captures' /\ UNCHANGED metaErrors
       \/ metaErrors' = metaErrors + 1 /\ UNCHANGED saved
    /\ ctlPc' = "idle"
    /\ UNCHANGED <<tuned, patches, ctlStart, ctlTune, cbVars, wVars, finVars,
                   poolVars>>

----------------------------------------------------------------------------
Callback == DropAtPool \/ TakeFree \/ EnterChannel \/ TrySend \/ CountQueued
                \/ GiveBack
Writer == Recv \/ UncountQueued \/ Write \/ LockPool \/ ReturnBlock \/ Report
                \/ FinalReport
Finish == CloseSender \/ JoinWriter
Control == LoadPosition \/ RecordState

Stopped == finPc = "returned" /\ cbPc = "idle" /\ UNCHANGED vars

Next == Offer \/ Callback \/ Writer \/ Deactivate \/ Finish \/ Retune
            \/ Control \/ Stopped

Spec == Init /\ [][Next]_vars

\* Every thread is scheduled and file operations return.  Nothing makes the
\* receiver deliver a block, a user stop the recording or change settings.
Fairness == /\ WF_vars(Callback) /\ WF_vars(Writer)
            /\ WF_vars(Finish) /\ WF_vars(Control)

FairSpec == Spec /\ Fairness
----------------------------------------------------------------------------
(* Properties. *)

One(condition) == IF condition THEN 1 ELSE 0

\* Every variable holds a value of its type in the code; the channel never
\* exceeds its capacity and the wrapping counter stays in its width.
TypeOK ==
    /\ free \in Nat /\ dropped \in Nat /\ writeErrors \in Nat
    /\ metaErrors \in Nat /\ samples \in Nat /\ bytes \in Nat
    /\ torn \in Nat /\ offered \in Nat /\ patches \in Nat /\ ctlStart \in Nat
    /\ queue \in Seq(Block) /\ Len(queue) <= ChannelBlocks
    /\ queued \in 0..(Modulus - 1)
    /\ cbPc \in {"idle", "take", "enter", "send", "count", "giveback"}
    /\ wPc \in {"recv", "sub", "write", "lock", "free", "report", "done"}
    /\ finPc \in {"idle", "closing", "joining", "returned"}
    /\ ctlPc \in {"idle", "applied", "loaded"}
    /\ cbBlock \in Block /\ wBlock \in Block
    /\ file \in Seq(Block)
    /\ summary \in Summary
    /\ result \in {"none", "complete", "incomplete"}
    /\ tuned \in Settings /\ ctlTune \in Settings
    /\ captures \in Seq(Capture) /\ captures # <<>>
    /\ saved \in Seq(Capture)

\* Blocks whose fate is still open: in the callback, in the channel, or
\* received and not yet written.
Deciding == One(cbPc \in {"take", "enter", "send"})
Unwritten == One(wPc \in {"sub", "write"})
InFlight == Deciding + Len(queue) + Unwritten

\* Every block pushed into the active recording is written, dropped, failed
\* or in flight, exactly once: no block disappears without a counter.
Accounted == offered = Len(file) + writeErrors + dropped + InFlight

\* Buffers out of the pool: held by the callback, queued, held by the writer.
Borrowed == One(cbPc \in {"enter", "send", "giveback"}) + Len(queue)
                + One(wPc \in {"sub", "write", "lock", "free"})

\* No path of push or writer_loop leaks a buffer while the sender is there;
\* the push that finds it taken may lose the one buffer it holds.
PoolConserved ==
    /\ SenderOpen => free + Borrowed = PoolBlocks
    /\ free + Borrowed \in {PoolBlocks - 1, PoolBlocks}

\* 32 pool blocks over a 16 block channel: once the pool exceeds the channel
\* by two, push never finds it empty, and only lock contention, a full
\* channel or an oversized transfer can cost a block.
PoolSuffices ==
    PoolBlocks >= ChannelBlocks + 2 => (cbPc = "take" => free > 0)

\* The data file holds blocks in the order they were received, none twice.
FileInOrder == \A i, j \in DOMAIN file : i < j => file[i].n < file[j].n

\* When finish returns Ok the file is the first blocks of the recording with
\* no gap and no torn write, and lacks at most the one block whose push was
\* under way when the recording was stopped.
CompleteMeansGapless ==
    result = "complete" =>
        /\ \A i \in DOMAIN file : file[i].n = i
        /\ Len(file) \in {offered - 1, offered}
        /\ torn = 0

\* When finish returns Ok the metadata file describes every settings change.
CompleteMeansMetadataSaved == result = "complete" => saved = captures

\* The writer exits only after the sender is gone, so try_send never sees a
\* disconnected channel: that branch of push is dead unless the writer panics.
WriterOutlivesSender == CallbackHoldsSender => SenderOpen /\ wPc # "done"

\* The queued counter is off from the channel's length only by the step between
\* try_send and fetch_add, and the one between recv and fetch_sub: a writer that is
\* faster than the callback takes it below zero, and it comes back.
QueuedTracksChannel ==
    queued = (Len(queue) + One(wPc = "sub") - One(cbPc = "count")) % Modulus

\* The metadata file is always the captures up to some change (a failed write
\* leaves the one before), and its boundaries are positions already in the data
\* file, in order: whenever the process is killed, the recording is readable.
CapturesOrdered ==
    /\ Len(saved) \in 1..Len(captures)
    /\ \A i \in 1..Len(saved) : saved[i] = captures[i]
    /\ \A i \in 1..Len(captures) : captures[i].start <= Len(file)
    /\ \A i, j \in 1..Len(captures) :
          i < j => captures[i].start <= captures[j].start

\* Once finish has returned, neither the data nor the metadata changes.
FrozenAfterReturn == [][result # "none" => UNCHANGED <<file, torn, saved>>]_vars

\* The recording keeps the contract of RecordingContract.
Kept == [i \in DOMAIN file |-> file[i].n]
Contract == INSTANCE RecordingContract
                WITH taken <- offered, kept <- Kept, verdict <- result
ContractKept == Contract!Spec

\* Whatever the disk does, a stop request is answered (the sender is taken, the
\* channel drained, the writer joined), and the native callback returns from every
\* push: no two of the three threads wait for each other.
NobodyWaitsForever ==
    /\ finPc = "closing" ~> finPc = "returned"
    /\ cbPc # "idle" ~> cbPc = "idle"

----------------------------------------------------------------------------
(* Statements of the documentation that the code does not keep. *)

\* docs/recording.md: a stop "returns an explicit error if any blocks ... failed".
CompleteMeansNothingDropped == result = "complete" => dropped = 0

\* stream.rs: "No waiting ... occurs on this path", the callback's.
CallbackNeverWaits == cbPc # "idle" => ENABLED Callback

\* docs/recording.md: "Successful device-state changes append" an annotation,
\* and a change of frequency or rate a capture boundary.
SettingsRecorded == ctlPc = "idle" => captures[Len(captures)].tune = tuned

\* docs/architecture.md: hardware configuration stops RX first, "preventing old
\* buffered IQ from being labelled with new settings".  The capture that labels
\* block i of the file is the last one that starts before it.
LabelOf(i) == LET before == {k \in DOMAIN captures : captures[k].start < i}
              IN  CHOOSE k \in before : \A j \in before : j <= k
OldIqKeepsItsLabel ==
    result = "complete" =>
        \A i \in DOMAIN file, k \in DOMAIN captures :
            k < LabelOf(i) /\ captures[k].tune = file[i].tune
                => captures[LabelOf(i)].tune = file[i].tune
=============================================================================
