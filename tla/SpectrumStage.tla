----------------------------- MODULE SpectrumStage -----------------------------
(***************************************************************************)
(* The display half of Engine::run in crates/rf-engine/src/lib.rs, on the  *)
(* blocks that FilePlayback delivers, and its readers in                   *)
(* crates/rf-server/src/main.rs: the spectrum sockets and the requests for *)
(* the latest analysis and the retained observations.                      *)
(*                                                                         *)
(* A block that is due for display is cut to its last samples, measured,   *)
(* retained and broadcast, one store after the other, while the next loads *)
(* and seeks arrive and clients come, lag and go.  A file, and the         *)
(* settings it was recorded with, are known by its length.                 *)
(***************************************************************************)
EXTENDS Integers, Sequences

CONSTANTS
    Lengths, Block, MaxRequests, MaxErrors, \* of FilePlayback
    Clients,     \* spectrum sockets
    Sizes,       \* fft sizes
    Ring,        \* capacity of Engine.frames
    Retained,    \* capacity of Engine.observations
    MaxFrames    \* bound: frames in a behavior

ASSUME PlaybackAssumption ==
    Lengths \subseteq Nat /\ Block \in Nat \ {0} /\ {MaxRequests, MaxErrors} \subseteq Nat
ASSUME StageAssumption ==
    /\ Sizes \subseteq 1..Block /\ {Ring, Retained} \subseteq Nat \ {0}
    /\ MaxFrames \in Nat

VARIABLES
    source, requests, errors, pc, loaded, running, playback, receivers,
    channels, arrived, from, start, lost, delivered, \* of FilePlayback
    fftSize,         \* Engine.fft_size
    size, label,     \* of the pass: what it read of fft_size and of the source's state
    held,            \* the files that were loaded since it began, 0 for none (history)
    iq,              \* the loop's buffer: numbers of samples in their file
    stage, frame,    \* the frame on its way
    latest,          \* Engine.latest_measurements: the number of its frame
    observations,    \* Engine.observations: numbers of frames
    sequence,        \* frames broadcast: Engine.frames keeps the last of them
    dropped,         \* those nobody was subscribed to
    next, shown      \* of a client: the frame it receives next, 0 if not connected, and
                     \* the last one it got since it connected

playbackVars == <<source, requests, errors, pc, loaded, running, playback,
                  receivers, channels, arrived, from, start, lost, delivered>>
passVars == <<size, label, held, iq>>
storeVars == <<latest, observations, sequence, dropped>>
clientVars == <<next, shown>>
vars == <<playbackVars, fftSize, passVars, stage, frame, storeVars, clientVars>>

Playback == INSTANCE FilePlayback
----------------------------------------------------------------------------
NoFrame == [window |-> <<>>, label |-> 0, file |-> 0]

Last(s, n) == SubSeq(s, Len(s) - n + 1, Len(s))

Init ==
    /\ Playback!Init
    /\ fftSize \in Sizes /\ size = fftSize /\ label = 0 /\ held = {0}
    /\ iq = [i \in 1..Block |-> 0]
    /\ stage = "none" /\ frame = NoFrame
    /\ latest = 0 /\ observations = <<>> /\ sequence = 0 /\ dropped = 0
    /\ next = [c \in Clients |-> 0] /\ shown = [c \in Clients |-> 0]

----------------------------------------------------------------------------
(* Requests. *)

PlaybackRequest ==
    /\ \/ Playback!Load \/ Playback!Clear
       \/ Playback!Play \/ Playback!Pause \/ Playback!Seek
    /\ held' = held \cup {source'.total}
    /\ UNCHANGED <<fftSize, size, label, iq, stage, frame, storeVars, clientVars>>

SetFftSize ==
    /\ requests < MaxRequests /\ requests' = requests + 1
    /\ fftSize' \in Sizes
    /\ UNCHANGED <<source, errors, pc, loaded, running, playback, receivers,
                   channels, arrived, from, start, lost, delivered, passVars, stage, frame,
                   storeVars, clientVars>>

----------------------------------------------------------------------------
(* The loop. *)

TakeStream ==
    /\ stage = "none" /\ Playback!TakeStream
    /\ UNCHANGED <<fftSize, passVars, stage, frame, storeVars, clientVars>>

Summary ==
    /\ stage = "none" /\ Playback!Summary
    /\ size' = fftSize /\ held' = {source.total}
    /\ UNCHANGED <<fftSize, label, iq, stage, frame, storeVars, clientVars>>

IsPlaying ==
    /\ stage = "none" /\ Playback!IsPlaying
    /\ UNCHANGED <<fftSize, passVars, stage, frame, storeVars, clientVars>>

State ==
    /\ stage = "none" /\ Playback!State
    /\ label' = IF loaded /\ Playback!Loaded THEN source.total ELSE 0
    /\ UNCHANGED <<fftSize, size, held, iq, stage, frame, storeVars, clientVars>>

\* Faulty variant of Window: the end of the buffer for the end of the block.
WindowOfBuffer(buffer, count) == Last(buffer, size)

Window(buffer, count) == SubSeq(buffer, count - size + 1, count)

\* A block goes to the receivers; it is displayed if it is long enough and 40 ms have
\* passed.
Read ==
    /\ stage = "none" /\ Playback!Read
    /\ LET count == Len(delivered') - Len(delivered)
       IN  /\ iq' = Last(delivered', count) \o SubSeq(iq, count + 1, Block)
           /\ \/ UNCHANGED <<stage, frame>>
              \/ /\ count >= size /\ sequence < MaxFrames
                 /\ stage' = "measure"
                 /\ frame' = [window |-> Window(iq', count), label |-> label,
                              file |-> source.total]
    /\ UNCHANGED <<fftSize, size, label, held, storeVars, clientVars>>

Measure ==
    /\ stage = "measure" /\ stage' = "retain"
    /\ latest' = sequence + 1
    /\ UNCHANGED <<playbackVars, fftSize, passVars, frame, observations, sequence,
                   dropped, clientVars>>

\* Faulty variant of Evicted: the newest one is.
EvictNewest ==
    IF Len(observations) >= Retained THEN SubSeq(observations, 1, Retained - 1)
    ELSE observations

\* Faulty variant of Evicted: none is.
EvictNone == observations

Evicted == IF Len(observations) >= Retained THEN Tail(observations) ELSE observations

Retain ==
    /\ stage = "retain" /\ stage' = "send"
    /\ observations' = Append(Evicted, sequence + 1)
    /\ UNCHANGED <<playbackVars, fftSize, passVars, frame, latest, sequence, dropped,
                   clientVars>>

Send ==
    /\ stage = "send" /\ stage' = "none" /\ frame' = NoFrame
    /\ sequence' = sequence + 1
    /\ dropped' = IF \A c \in Clients : next[c] = 0 THEN dropped + 1 ELSE dropped
    /\ UNCHANGED <<playbackVars, fftSize, passVars, latest, observations, clientVars>>

----------------------------------------------------------------------------
(* A spectrum socket. *)

Oldest == IF sequence > Ring THEN sequence - Ring + 1 ELSE 1

Connect(c) ==
    /\ next[c] = 0
    /\ next' = [next EXCEPT ![c] = sequence + 1]
    /\ UNCHANGED <<playbackVars, fftSize, passVars, stage, frame, storeVars, shown>>

\* Faulty variant of Lag: the place in the ring stays.
LagStays(c) == UNCHANGED clientVars

\* RecvError::Lagged: go on with the oldest frame there is.
Lag(c) == next' = [next EXCEPT ![c] = Oldest] /\ UNCHANGED shown

Receive(c) ==
    /\ next[c] \in 1..sequence
    /\ \/ next[c] < Oldest /\ Lag(c)
       \/ /\ next[c] >= Oldest
          /\ next' = [next EXCEPT ![c] = @ + 1] /\ shown' = [shown EXCEPT ![c] = next[c]]
    /\ UNCHANGED <<playbackVars, fftSize, passVars, stage, frame, storeVars>>

Leave(c) ==
    /\ next[c] # 0
    /\ next' = [next EXCEPT ![c] = 0] /\ shown' = [shown EXCEPT ![c] = 0]
    /\ UNCHANGED <<playbackVars, fftSize, passVars, stage, frame, storeVars>>

----------------------------------------------------------------------------
Pass == Summary \/ IsPlaying \/ State \/ Read \/ Measure \/ Retain \/ Send

Next ==
    \/ PlaybackRequest \/ SetFftSize \/ TakeStream \/ Pass
    \/ \E c \in Clients : Connect(c) \/ Receive(c) \/ Leave(c)

Spec == Init /\ [][Next]_vars

\* The DSP thread runs; a socket's task runs and its peer reads.
FairSpec == Spec /\ WF_vars(Pass) /\ \A c \in Clients : WF_vars(Receive(c))
----------------------------------------------------------------------------
(* Properties. *)

\* Every variable holds a value of its type; the retained observations are bounded.
TypeOK ==
    /\ Playback!TypeOK
    /\ fftSize \in Sizes /\ size \in Sizes /\ label \in Lengths \cup {0}
    /\ held \subseteq Lengths \cup {0} /\ iq \in [1..Block -> Nat]
    /\ stage \in {"none", "measure", "retain", "send"}
    /\ (stage = "none") = (frame = NoFrame)
    /\ sequence \in 0..MaxFrames /\ latest \in sequence..(sequence + 1)
    /\ observations \in Seq(1..MaxFrames) /\ Len(observations) <= Retained
    /\ dropped \in 0..sequence
    /\ next \in [Clients -> 0..(sequence + 1)] /\ shown \in [Clients -> 0..sequence]

\* Whatever fails, position, file and receivers advance together (FilePlayback).
DeliveryIsAccounted == Playback!DeliveryIsAccounted

\* A source that stays paused or ended takes the receivers' channels, and silences them
\* unless a stream arrived since the last block (FilePlayback).
ReceiversAreSilenced == Playback!ReceiversAreSilenced

\* docs/dsp.md: "selects the tail FFT window of eligible blocks for display".  A frame
\* shows the last samples that the receivers got, none of an earlier block or file that
\* is still in the buffer; and the file it comes from and the one whose settings it
\* carries were both loaded within the pass, so that they are the same when no file was
\* loaded or cleared meanwhile.
FrameIsTrue ==
    [][stage = "none" /\ stage' # "none" =>
          /\ frame'.window = Last(delivered', size)
          /\ {frame'.label, frame'.file} \subseteq held]_vars

\* docs/analysis.md: "updated alongside spectrum frames".  A client that has a frame and
\* then asks for the analysis gets that of this frame or a later one, and its observation
\* unless as many as are retained came after it.
AnalysisNotBehind ==
    \A c \in Clients :
        /\ shown[c] <= latest
        /\ shown[c] > 0 /\ shown[c] + Retained > latest =>
               \E i \in DOMAIN observations : observations[i] = shown[c]

\* docs/protocol.md: "lagging clients skip missed frames instead of terminating".  A
\* client that stays connected gets the newest frame in the end.
ClientCatchesUp ==
    \A c \in Clients : <>[](next[c] # 0) => <>[](next[c] = sequence + 1)

----------------------------------------------------------------------------
(* Statements of the documentation that the code does not keep. *)

\* docs/protocol.md: a frame's header holds its "center frequency Hz" and "sample rate
\* Hz", whatever is loaded while the loop goes from the state of the file to its samples.
FrameIsLabelled ==
    [][stage = "none" /\ stage' # "none" => frame'.label = frame'.file]_vars

\* docs/audio.md on the active state of receivers (FilePlayback).
ReportedAsTheyAre == Playback!ReportedAsTheyAre

\* docs/playback.md on the timeline of samples (FilePlayback).
TimelineIsExact == Playback!TimelineIsExact
=============================================================================
