---------------------------- MODULE AudioTransport ----------------------------
(***************************************************************************)
(* The way of one receiver's sound to a browser: the packetizer and the    *)
(* broadcast bus of crates/rf-engine/src/audio.rs, the task stream_audio   *)
(* of crates/rf-server/src/main.rs, and the main thread and the worklet of *)
(* web/src/AudioPlayer.tsx and audio-worklet.ts.                           *)
(*                                                                         *)
(* The DSP thread never waits: a packet goes to a ring that forgets its    *)
(* oldest packet.  The task of a connected client reads the ring at its    *)
(* own pace, gives up on a socket that stalls, and skips to the newest     *)
(* packet when the ring has overtaken it.  The main thread hands packets   *)
(* to the worklet as long as few are unacknowledged.  Everything in        *)
(* between can lose packets, and a rebuilt channel starts a new epoch.     *)
(***************************************************************************)
EXTENDS Integers, Sequences

CONSTANTS
    Capacity, Prime, StepNum, StepDen,  \* see AudioQueue
    Packet,         \* AUDIO_FRAME_SAMPLES
    RingCapacity,   \* packets the broadcast channel retains: 32
    PendingLimit,   \* packets posted to the worklet without an ack: 8
    SocketLimit,    \* packets the network takes before a send stalls
    MaxPackets,     \* bound: samples, in packets, in a behavior
    MaxRebuilds,    \* bound: channel rebuilds in a behavior
    MaxRenders,     \* bound: changes of the receiver list in a behavior
    MaxRuns         \* bound: connections in a behavior

ASSUME QueueAssumption ==
    /\ Capacity \in Nat /\ Prime \in 1..Capacity
    /\ StepNum \in Nat \ {0} /\ StepDen \in Nat \ {0}
ASSUME BoundAssumption ==
    /\ Packet \in Nat \ {0} /\ RingCapacity \in Nat \ {0}
    /\ PendingLimit \in Nat \ {0} /\ SocketLimit \in Nat \ {0}
    /\ MaxPackets \in Nat /\ MaxRebuilds \in Nat /\ MaxRenders \in Nat
    /\ MaxRuns \in Nat

Queue == INSTANCE AudioQueue

VARIABLES
    position,       \* samples the receiver has put out
    packetizer,     \* Packetizer: [epoch, sequence, samples]
    epochs,         \* AudioBus.epochs
    ring, sent,     \* the broadcast channel: packets retained, packets ever sent
    task,           \* stream_audio: "none", "recv" or "send"
    next, frame,    \* its position in the channel, the packet it sends
    lagged,         \* AudioBus.lagged
    skipped,        \* packets sent while it listened that it did not get (history)
    socket,         \* packets on their way to the browser
    playing, runs,  \* the browser has a player; players started so far
    active, effect, \* activeIds holds the receiver; its configure is to be posted
    pending,        \* packets posted and not acknowledged
    port, acks,     \* messages to the worklet and from it
    known, queue,   \* the worklet has a queue for the receiver; the queue
    stored, gaps,   \* last position pushed, pushes that left some out (history)
    renders,
    heard           \* source time of the last output since a clear, or 0 (history)

dspVars == <<position, packetizer, epochs>>
busVars == <<ring, sent>>
taskVars == <<task, next, frame, lagged, skipped>>
mainVars == <<playing, runs, active, effect, pending, renders>>
workletVars == <<known, queue, stored, gaps, heard>>
vars == <<dspVars, busVars, taskVars, socket, mainVars, port, acks, workletVars>>

Frame == [epoch : Nat \ {0}, sequence : Nat \ {0}, samples : Seq(Nat)]
NoFrame == [epoch |-> 0, sequence |-> 0, samples |-> <<>>]
Pcm(f) == [type |-> "pcm", frame |-> f, on |-> FALSE]
Configure(on) == [type |-> "configure", frame |-> NoFrame, on |-> on]

Init ==
    /\ position = 0 /\ epochs = 2
    /\ packetizer = [epoch |-> 1, sequence |-> 0, samples |-> <<>>]
    /\ ring = <<>> /\ sent = 0
    /\ task = "none" /\ next = 0 /\ frame = NoFrame /\ lagged = 0 /\ skipped = 0
    /\ socket = <<>>
    /\ playing = FALSE /\ runs = 0 /\ active = TRUE /\ effect = FALSE
    /\ pending = 0 /\ renders = 0
    /\ port = <<>> /\ acks = 0
    /\ known = FALSE /\ queue = Queue!New /\ stored = 0 /\ gaps = 0 /\ heard = 0

----------------------------------------------------------------------------
(* The DSP thread. *)

\* broadcast::Sender::send, external: the oldest packet makes room.
Broadcast(f) ==
    /\ sent' = sent + 1
    /\ ring' = IF Len(ring) < RingCapacity THEN Append(ring, f)
               ELSE Append(Tail(ring), f)

\* Packetizer::push, one sample.  A full packet is sent if anybody listens.
PushSample ==
    /\ position < MaxPackets * Packet
    /\ position' = position + 1
    /\ LET samples == Append(packetizer.samples, position + 1)
           f == [epoch |-> packetizer.epoch, sequence |-> packetizer.sequence + 1,
                 samples |-> samples]
       IN  \/ /\ Len(samples) < Packet
              /\ packetizer' = [packetizer EXCEPT !.samples = samples]
              /\ UNCHANGED busVars
           \/ /\ Len(samples) = Packet
              /\ packetizer' = [packetizer EXCEPT !.samples = <<>>, !.sequence = @ + 1]
              /\ IF task # "none" THEN Broadcast(f) ELSE UNCHANGED busVars
    /\ UNCHANGED <<epochs, taskVars, socket, mainVars, port, acks, workletVars>>

\* AudioBus.epochs, after a faulty variant that goes on in the old epoch.
OldEpoch == packetizer.epoch
NewEpoch == epochs

\* A rebuilt channel has a new packetizer; a partly filled packet is lost.
Rebuild ==
    /\ epochs <= MaxRebuilds + 1
    /\ epochs' = epochs + 1
    /\ packetizer' = [epoch |-> NewEpoch, sequence |-> 0, samples |-> <<>>]
    /\ UNCHANGED <<position, busVars, taskVars, socket, mainVars, port, acks,
                   workletVars>>

----------------------------------------------------------------------------
(* stream_audio. *)

Oldest == sent - Len(ring)

\* frames.recv(), the packet after the last one read is still there.
Recv ==
    /\ task = "recv" /\ next < sent /\ next >= Oldest
    /\ frame' = ring[next - Oldest + 1] /\ next' = next + 1
    /\ task' = "send"
    /\ UNCHANGED <<dspVars, busVars, lagged, skipped, socket, mainVars, port, acks,
                   workletVars>>

\* Lagged(count): counted, and resubscribed at the end of the channel.
Lag ==
    /\ task = "recv" /\ next < Oldest
    /\ lagged' = lagged + (Oldest - next)
    /\ skipped' = skipped + (sent - next)
    /\ next' = sent
    /\ UNCHANGED <<dspVars, busVars, task, frame, socket, mainVars, port, acks,
                   workletVars>>

Send ==
    /\ task = "send" /\ Len(socket) < SocketLimit
    /\ socket' = Append(socket, frame)
    /\ frame' = NoFrame /\ task' = "recv"
    /\ UNCHANGED <<dspVars, busVars, next, lagged, skipped, mainVars, port, acks,
                   workletVars>>

\* The send takes 250 ms, the client has gone, or the server is interrupted.
Leave ==
    /\ \/ task = "send" /\ Len(socket) = SocketLimit
       \/ task # "none" /\ ~playing
       \/ task = "recv"
    /\ task' = "none" /\ frame' = NoFrame /\ next' = 0
    /\ UNCHANGED <<dspVars, busVars, lagged, skipped, socket, mainVars, port, acks,
                   workletVars>>

----------------------------------------------------------------------------
(* The browser's main thread. *)

\* start(): a new worklet, told the receivers, and a new connection.  The task of
\* the former one has ended.
Start ==
    /\ ~playing /\ task = "none" /\ runs < MaxRuns
    /\ playing' = TRUE /\ runs' = runs + 1
    /\ task' = "recv" /\ next' = sent
    /\ pending' = 0 /\ acks' = 0 /\ socket' = <<>>
    /\ port' = <<Configure(active)>>
    /\ known' = FALSE /\ queue' = Queue!New
    /\ stored' = 0 /\ gaps' = 0 /\ heard' = 0
    /\ UNCHANGED <<dspVars, busVars, frame, lagged, skipped, active, effect, renders>>

\* stop(): by the user, or because the server closed the connection.
Stop ==
    /\ playing
    /\ playing' = FALSE
    /\ socket' = <<>> /\ port' = <<>> /\ acks' = 0 /\ pending' = 0 /\ known' = FALSE
    /\ UNCHANGED <<dspVars, busVars, taskVars, runs, active, effect, renders, queue,
                   stored, gaps, heard>>

\* The list of receivers changes; an effect posts it after the render.
Render ==
    /\ renders < MaxRenders /\ ~effect
    /\ renders' = renders + 1
    /\ active' = ~active /\ effect' = TRUE
    /\ UNCHANGED <<dspVars, busVars, taskVars, socket, playing, runs, pending, port,
                   acks, workletVars>>

Effect ==
    /\ effect /\ effect' = FALSE
    /\ port' = IF playing THEN Append(port, Configure(active)) ELSE port
    /\ UNCHANGED <<dspVars, busVars, taskVars, socket, playing, runs, active, pending,
                   renders, acks, workletVars>>

\* ws.onmessage: a packet of an unknown receiver or beyond the limit is lost.
OnMessage ==
    /\ playing /\ socket # <<>>
    /\ socket' = Tail(socket)
    /\ IF pending < PendingLimit /\ active
       THEN pending' = pending + 1 /\ port' = Append(port, Pcm(Head(socket)))
       ELSE UNCHANGED <<pending, port>>
    /\ UNCHANGED <<dspVars, busVars, taskVars, playing, runs, active, effect, renders,
                   acks, workletVars>>

OnAck ==
    /\ playing /\ acks > 0
    /\ acks' = acks - 1
    /\ pending' = IF pending > 0 THEN pending - 1 ELSE 0
    /\ UNCHANGED <<dspVars, busVars, taskVars, socket, playing, runs, active, effect,
                   renders, port, workletVars>>

----------------------------------------------------------------------------
(* The worklet. *)

\* configure: the queue of a receiver that is gone is deleted, a new one is made.
Reconfigure ==
    /\ port # <<>> /\ Head(port).type = "configure"
    /\ port' = Tail(port)
    /\ known' = Head(port).on
    /\ IF known /\ Head(port).on THEN UNCHANGED <<queue, stored, gaps, heard>>
       ELSE queue' = Queue!New /\ stored' = 0 /\ gaps' = 0 /\ heard' = 0
    /\ UNCHANGED <<dspVars, busVars, taskVars, socket, mainVars, acks>>

\* queues.get(id)?.push(...)
Store(f) ==
    IF ~known THEN UNCHANGED <<queue, stored, gaps, heard>>
    ELSE LET pushed == Queue!Push(queue, f)
             cleared == pushed.overruns + pushed.discontinuities
                            # queue.overruns + queue.discontinuities
         IN  /\ queue' = pushed
             /\ stored' = f.samples[Len(f.samples)]
             /\ gaps' = IF stored \in {0, f.samples[1] - 1} THEN gaps ELSE gaps + 1
             /\ heard' = IF cleared THEN 0 ELSE heard

\* A packet is acknowledged whether there is a queue for it or not; in the faulty
\* variant only when there is.
AcksIfKnown == IF known THEN acks + 1 ELSE acks
Acks == acks + 1

\* pcm: stored if the receiver has a queue.
Receive ==
    /\ port # <<>> /\ Head(port).type = "pcm"
    /\ port' = Tail(port)
    /\ Store(Head(port).frame)
    /\ acks' = Acks
    /\ UNCHANGED <<dspVars, busVars, taskVars, socket, mainVars, known>>

\* process: one output sample.
Output ==
    /\ known /\ queue.primed
    /\ \/ /\ Queue!Sounds(queue)
          /\ heard' = queue.data[1] * StepDen + queue.fraction
          /\ queue' = Queue!Advance(queue)
       \/ /\ ~Queue!Sounds(queue)
          /\ queue' = Queue!Starve(queue)
          /\ UNCHANGED heard
    /\ UNCHANGED <<dspVars, busVars, taskVars, socket, mainVars, port, acks, known,
                   stored, gaps>>

----------------------------------------------------------------------------
Dsp == PushSample \/ Rebuild
Task == Recv \/ Lag \/ Send \/ Leave
Main == Start \/ Stop \/ Render \/ Effect \/ OnMessage \/ OnAck
Worklet == Reconfigure \/ Receive \/ Output

Next == Dsp \/ Task \/ Main \/ Worklet

Spec == Init /\ [][Next]_vars

\* The main thread and the worklet handle the messages they were sent.
FairSpec ==
    Spec /\ WF_vars(OnAck) /\ WF_vars(Effect) /\ WF_vars(Reconfigure \/ Receive)
----------------------------------------------------------------------------
(* Properties. *)

\* Every variable holds a value of its type; the ring, the sample queue and the
\* partly filled packet stay within their fixed storage.
TypeOK ==
    /\ position \in Nat /\ epochs \in Nat /\ sent \in Nat
    /\ packetizer.epoch < epochs /\ Len(packetizer.samples) < Packet
    /\ Len(ring) <= RingCapacity /\ \A i \in DOMAIN ring : ring[i] \in Frame
    /\ task \in {"none", "recv", "send"} /\ next \in 0..sent
    /\ frame \in Frame \cup {NoFrame} /\ lagged \in Nat /\ skipped \in Nat
    /\ Len(socket) <= SocketLimit
    /\ playing \in BOOLEAN /\ active \in BOOLEAN /\ effect \in BOOLEAN
    /\ known \in BOOLEAN /\ Len(queue.data) <= Capacity
    /\ queue.fraction \in 0..(StepDen - 1)

\* The worklet never plays across a loss: the samples in a queue follow one
\* another in the receiver's output, wherever packets were dropped on the way.
QueueIsUnbroken ==
    \A i \in 1..(Len(queue.data) - 1) : queue.data[i + 1] = queue.data[i] + 1

\* docs/audio.md: "Health reports underruns, overruns and sequence/epoch
\* discontinuities".  Sound that never reached a queue that was playing shows in
\* the discontinuities, also when the channel was rebuilt in between.
GapsAreReported == gaps <= queue.discontinuities

\* Lost sound is never glued together, and never lost in silence.
SoundIsWhole == QueueIsUnbroken /\ GapsAreReported

\* Between two clears the queue is played at the constant rate of the output
\* device, across packet borders and underruns.
PlaysAtRate ==
    [][heard # 0 /\ heard' \notin {0, heard} => heard' = heard + StepNum]_vars

\* Packets are refused for a while only: a full window opens again.
WindowReopens == pending = PendingLimit ~> pending < PendingLimit

\* docs/audio.md: "lagged audio clients resubscribe and increment diagnostics";
\* Diagnostics reports "lagged frames".  So the counter is the packets skipped.
SkippedAreCounted == lagged = skipped
=============================================================================
