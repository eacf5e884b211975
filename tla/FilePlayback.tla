----------------------------- MODULE FilePlayback -----------------------------
(***************************************************************************)
(* Playback of a recorded file: SigmfSource of                             *)
(* crates/rf-device/src/file.rs behind the mutex of                        *)
(* crates/rf-engine/src/playback.rs, used by the handlers of the server    *)
(* and by one pass after the other of the loop of                          *)
(* crates/rf-engine/src/lib.rs.                                            *)
(*                                                                         *)
(* A pass of the loop locks the source four times, and a request may come  *)
(* between any two of them.  The operating system may refuse a seek or a   *)
(* read: the source then has moved one of the position it reports and the  *)
(* offset of the file, and not the other.  The hardware may be started     *)
(* meanwhile: its stream resets the receivers' channels, and is read once  *)
(* no file is loaded.  SpectrumStage composes this module with what the    *)
(* loop shows of the blocks, and states what is assumed of its constants.  *)
(***************************************************************************)
EXTENDS Integers, Sequences

CONSTANTS
    Lengths,      \* lengths of the files there are, in samples
    Block,        \* samples the loop asks for
    MaxRequests,  \* bound: requests in a behavior, to start the hardware too
    MaxErrors     \* bound: failing seeks and reads in a behavior

VARIABLES
    source,       \* PlaybackManager.source: a SigmfSource, or NoSource
    requests, errors,
    pc,           \* the pass of the loop
    loaded,       \* playback_loaded
    running,      \* state.running, from the playback if there is one
    playback,     \* is_playing()
    receivers,    \* audio_active in the registry: "idle" or "active"
    channels,     \* VfoProcessor.channels is not empty
    arrived,      \* a stream arrived since the last block (history)
    from, start,  \* position and offset at the last load or seek (history)
    lost,         \* samples that failing reads passed over since then (history)
    delivered     \* samples handed to the receivers since then (history)

vfoVars == <<receivers, channels, arrived>>
passVars == <<pc, loaded, running, playback>>
historyVars == <<from, start, lost, delivered>>
vars == <<source, requests, errors, passVars, vfoVars, historyVars>>

\* total_samples, position_samples, running (the opposite of paused), file offset.
Source == [total : Lengths, position : Nat, running : BOOLEAN, offset : Nat]
NoSource == [total |-> 0, position |-> 0, running |-> FALSE, offset |-> -1]
Loaded == source # NoSource

Init ==
    /\ source = NoSource /\ requests = 0 /\ errors = 0
    /\ pc = "summary" /\ loaded = FALSE /\ running = FALSE /\ playback = FALSE
    /\ receivers = "idle" /\ channels = FALSE /\ arrived = FALSE
    /\ from = 0 /\ start = 0 /\ lost = 0 /\ delivered = <<>>

Smaller(a, b) == IF a < b THEN a ELSE b

----------------------------------------------------------------------------
(* The requests. *)

Request ==
    /\ requests < MaxRequests /\ requests' = requests + 1
    /\ UNCHANGED <<passVars, vfoVars>>

\* SigmfSource::open: paused at the start of the file.
Load ==
    /\ Request
    /\ \E n \in Lengths :
           source' = [total |-> n, position |-> 0, running |-> FALSE, offset |-> 0]
    /\ from' = 0 /\ start' = 0 /\ lost' = 0 /\ delivered' = <<>>
    /\ UNCHANGED errors

Clear ==
    /\ Request /\ Loaded
    /\ source' = NoSource
    /\ UNCHANGED <<errors, historyVars>>

Play ==
    /\ Request /\ Loaded
    /\ source' = [source EXCEPT !.running = TRUE]
    /\ UNCHANGED <<errors, historyVars>>

Pause ==
    /\ Request /\ Loaded
    /\ source' = [source EXCEPT !.running = FALSE]
    /\ UNCHANGED <<errors, historyVars>>

Target(position) == Smaller(position, source.total)

\* The position is set before the file is asked.
Seek ==
    /\ Request /\ Loaded
    /\ \E position \in 0..(source.total + 1) :
           /\ \/ /\ source' = [source EXCEPT !.position = Target(position),
                                             !.offset = Target(position)]
                 /\ start' = Target(position)
                 /\ UNCHANGED errors
              \/ /\ errors < MaxErrors /\ errors' = errors + 1
                 /\ source' = [source EXCEPT !.position = Target(position)]
                 /\ start' = source.offset
           /\ from' = Target(position) /\ lost' = 0 /\ delivered' = <<>>

----------------------------------------------------------------------------
(* The loop. *)

\* The pass begins with the stream of a started receiver, if there is one: vfos.reset().
TakeStream ==
    /\ pc = "summary" /\ requests < MaxRequests /\ requests' = requests + 1
    /\ channels' = FALSE /\ arrived' = TRUE
    /\ UNCHANGED <<source, errors, passVars, receivers, historyVars>>

Summary ==
    /\ pc = "summary"
    /\ loaded' = Loaded /\ pc' = "playing"
    /\ UNCHANGED <<source, requests, errors, running, playback, vfoVars, historyVars>>

IsPlaying ==
    /\ pc = "playing"
    /\ playback' = source.running /\ pc' = "state"
    /\ UNCHANGED <<source, requests, errors, loaded, running, vfoVars, historyVars>>

\* vfos.process: the receivers have channels and are heard.
Process == channels' = TRUE /\ receivers' = "active" /\ arrived' = FALSE

\* vfos.pause: without channels there is nothing to do.
PauseVfos ==
    \/ ~channels /\ UNCHANGED vfoVars
    \/ channels /\ channels' = FALSE /\ receivers' = "idle" /\ UNCHANGED arrived

\* Without a file the pass is the mock's or the hardware's: a block of theirs, none as
\* they are stopped, or none yet.  A file that is gone leaves their state, running or not.
State ==
    /\ pc = "state"
    /\ \/ ~loaded /\ (Process \/ PauseVfos \/ UNCHANGED vfoVars)
          /\ pc' = "summary" /\ UNCHANGED running
       \/ loaded /\ Loaded /\ running' = source.running
          /\ pc' = "read" /\ UNCHANGED vfoVars
       \/ loaded /\ ~Loaded /\ running' \in BOOLEAN
          /\ pc' = "read" /\ UNCHANGED vfoVars
    /\ UNCHANGED <<source, requests, errors, loaded, playback, historyVars>>

\* Faulty variant of Silence: the receivers are left as they are.
SilenceNothing == UNCHANGED vfoVars

\* NoData and EndOfFile: a source that does not run silences the receivers.
Silence == (running /\ UNCHANGED vfoVars) \/ (~running /\ PauseVfos)

\* Nothing to read: not played, no source any more, or paused meanwhile.
ReadNothing ==
    /\ ~playback \/ ~Loaded \/ ~source.running
    /\ Silence
    /\ UNCHANGED <<source, errors, historyVars>>

ReadEnd ==
    /\ playback
    /\ Loaded /\ source.running /\ source.position >= source.total
    /\ source' = [source EXCEPT !.running = FALSE]
    /\ Silence
    /\ UNCHANGED <<errors, historyVars>>

\* Faulty variant of ReadSamples: the position advances by the size of the block.
ReadWhole ==
    /\ playback
    /\ Loaded /\ source.running /\ source.position < source.total
    /\ LET count == Smaller(Block, source.total - source.position)
       IN  /\ source' = [source EXCEPT !.position = @ + Block, !.offset = @ + count]
           /\ delivered' = delivered \o [i \in 1..count |-> source.offset + i - 1]
    /\ Process
    /\ UNCHANGED <<errors, from, start, lost>>

\* The samples at the offset of the file, as many as the position leaves.
ReadSamples ==
    /\ playback
    /\ Loaded /\ source.running /\ source.position < source.total
    /\ LET count == Smaller(Block, source.total - source.position)
       IN  /\ source.offset + count <= source.total
           /\ source' = [source EXCEPT !.position = @ + count, !.offset = @ + count]
           /\ delivered' = delivered \o [i \in 1..count |-> source.offset + i - 1]
    /\ Process
    /\ UNCHANGED <<errors, from, start, lost>>

\* read_exact fails, having read some of the samples, and always past the end.
ReadError ==
    /\ playback
    /\ Loaded /\ source.running /\ source.position < source.total
    /\ LET count == Smaller(Block, source.total - source.position)
       IN  \/ /\ source.offset + count > source.total
              /\ source' = [source EXCEPT !.offset = source.total]
              /\ lost' = lost + (source.total - source.offset)
              /\ UNCHANGED errors
           \/ /\ errors < MaxErrors /\ errors' = errors + 1
              /\ \E read \in 0..(count - 1) :
                     /\ source.offset + read <= source.total
                     /\ source' = [source EXCEPT !.offset = @ + read]
                     /\ lost' = lost + read
    /\ UNCHANGED <<vfoVars, from, start, delivered>>

Read ==
    /\ pc = "read"
    /\ ReadNothing \/ ReadEnd \/ ReadSamples \/ ReadError
    /\ pc' = "summary"
    /\ UNCHANGED <<requests, loaded, running, playback>>

----------------------------------------------------------------------------
Requests == Load \/ Clear \/ Play \/ Pause \/ Seek
Pass == Summary \/ IsPlaying \/ State \/ Read

Next == Requests \/ TakeStream \/ Pass

Spec == Init /\ [][Next]_vars
----------------------------------------------------------------------------
(* Properties. *)

\* Every variable holds a value of its type; the position lies within the file.
TypeOK ==
    /\ source \in Source \cup {NoSource} /\ source.position <= source.total
    /\ requests \in 0..MaxRequests /\ errors \in 0..MaxErrors
    /\ pc \in {"summary", "playing", "state", "read"}
    /\ loaded \in BOOLEAN /\ running \in BOOLEAN /\ playback \in BOOLEAN
    /\ receivers \in {"idle", "active"} /\ channels \in BOOLEAN /\ arrived \in BOOLEAN
    /\ {from, start, lost} \subseteq Nat /\ delivered \in Seq(Nat)

\* Whatever seeks and reads fail: since the last load or seek the reported position has
\* advanced by as much as the receivers got, and the file by that and by what failing
\* reads passed over; no sample is delivered twice or out of order, and none from before
\* the place where the file was.  As long as none failed, that is where the source was
\* told to go, and nothing is lost.
DeliveryIsAccounted ==
    Loaded =>
        /\ source.position = from + Len(delivered)
        /\ source.offset = start + Len(delivered) + lost
        /\ \A i \in DOMAIN delivered :
               /\ delivered[i] \in start..(source.offset - 1)
               /\ \A j \in 1..(i - 1) : delivered[j] < delivered[i]
        /\ errors = 0 => start = from /\ lost = 0

\* Receivers do not go on hearing a recording that is no longer played: a loaded source
\* that stays paused or ended takes their channels, and unless a stream arrived since
\* the last block they are reported silent.
ReceiversAreSilenced ==
    <>[](Loaded /\ ~source.running) => <>[](~channels /\ (receivers = "idle" \/ arrived))

----------------------------------------------------------------------------
(* Statements of the documentation that the code does not keep. *)

\* docs/audio.md: "VFO snapshots report audio rate, samples, frames, peak, squelch and
\* active state".  Receivers without channels are in the end not reported active while a
\* loaded source stays paused or ended.
ReportedAsTheyAre ==
    <>[](Loaded /\ ~source.running) => <>[](receivers = "active" => channels)

\* docs/playback.md: the playback request "returns the loaded recording and sample
\* timeline".  A block begins with the sample at the reported position.
TimelineIsExact ==
    [][Len(delivered') > Len(delivered)
          => delivered'[Len(delivered) + 1] = source.position]_vars
=============================================================================
