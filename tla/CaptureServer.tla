---------------------------- MODULE CaptureServer ----------------------------
(***************************************************************************)
(* Which source the engine listens to: the HTTP handlers of                *)
(* crates/rf-server/src/main.rs over the device worker (DeviceControl) and *)
(* the loop of crates/rf-engine/src/lib.rs.                                *)
(*                                                                         *)
(* Handlers that change something run one at a time under the mutations    *)
(* mutex.  A device call runs on a thread of the blocking pool; a client   *)
(* that goes away cancels its handler and frees the mutex, and the device  *)
(* call goes on: calls of several requests may be under way, and the pool  *)
(* delivers them in any order.  The engine reads, one after the other and  *)
(* without a lock over them, the stream mailbox, the hardware flag, the    *)
(* mock's state and the playback slot, and then takes one block from one   *)
(* source.                                                                 *)
(***************************************************************************)
EXTENDS Integers, Sequences, FiniteSets

CONSTANTS
    Configs, Default,  \* receiver configurations, see DeviceControl
    MaxRequests,       \* bound: requests served in a behavior
    MaxStreams,        \* bound: receive streams started in a behavior
    MaxFiles,          \* bound: playback loads in a behavior
    MaxRecordings      \* bound: recordings started in a behavior

ASSUME BoundAssumption ==
    MaxRequests \in Nat /\ MaxStreams \in Nat /\ MaxFiles \in Nat
        /\ MaxRecordings \in Nat
ASSUME ConfigAssumption == Default \in Configs

VARIABLES
    dev,          \* the device worker and the hardware, see DeviceControl
    tasks,        \* device calls under way: [op, owned, overtaken]; owned by the
                  \* handler, overtaken by the call of a later request
    late,         \* history: an overtaken selection of hardware was served, and
                  \* no selection of hardware was requested since
    hPc, hTodo,   \* the handler under the mutex: what it awaits, ops to come
    reply,        \* the result of its device call, or NoReply
    requests,     \* requests served so far
    hardware,     \* Engine.hardware
    mockRunning,  \* Engine.state.running
    recording,    \* RecordingManager.current: its number, or 0
    playback,     \* PlaybackManager.source: number of the load, or 0; playing
    loads,        \* recordings and playback sources so far
    ePc,          \* the engine's loop
    eHardware, eRunning, eLoaded, ePlaying,  \* what this pass read
    engineSrc,    \* hardware_source: a stream or 0
    slots,        \* by stream: the recording attached to it, or 0
    source        \* where the last pass took its block

handlerVars == <<hPc, hTodo, reply, requests, late>>
engineVars == <<hardware, mockRunning, recording, playback, loads>>
passVars == <<ePc, eHardware, eRunning, eLoaded, ePlaying, engineSrc, slots,
              source>>
vars == <<dev, tasks, handlerVars, engineVars, passVars>>

Device == INSTANCE DeviceControl
              WITH Clients <- {}, QueueCapacity <- 1, MaxCalls <- MaxStreams,
                   queue <- <<>>, op <- <<>>, answer <- <<>>, waiting <- {},
                   calls <- 0, wPc <- "recv"

Streams == 1..MaxStreams
Task == [op : Device!Ops, owned : BOOLEAN, overtaken : BOOLEAN]
NoReply == [ok |-> FALSE, driver |-> "none", opened |-> FALSE]
Source == [from : {"none", "mock", "file", "hardware"}, stream : Streams \cup {0}]
Nothing == [from |-> "none", stream |-> 0]
Stream(s) == [from |-> "hardware", stream |-> s]

(* main: the mock runs from the start. *)
Init ==
    /\ dev = [selected |-> "mock", library |-> "none", owned |-> FALSE,
              config |-> Device!NoConfig, ingress |-> 0, live |-> {},
              labels |-> <<>>, mailbox |-> 0, native |-> 0,
              hw |-> Device!NoConfig]
    /\ tasks = <<>> /\ late = FALSE
    /\ hPc = "idle" /\ hTodo = <<>> /\ reply = NoReply /\ requests = 0
    /\ hardware = FALSE /\ mockRunning = TRUE /\ recording = 0
    /\ playback = [load |-> 0, playing |-> FALSE]
    /\ loads = [recordings |-> 0, files |-> 0]
    /\ ePc = "mailbox" /\ eHardware = FALSE /\ eRunning = FALSE
    /\ eLoaded = FALSE /\ ePlaying = FALSE /\ engineSrc = 0
    /\ slots = [s \in Streams |-> 0]
    /\ source = Nothing

----------------------------------------------------------------------------
(* The handlers. *)

\* mutations.lock().await
Begin ==
    /\ hPc = "idle" /\ requests < MaxRequests
    /\ requests' = requests + 1

\* device_call: spawn_blocking, then await.
Spawn(o) ==
    tasks' = Append(tasks, [op |-> o, owned |-> TRUE, overtaken |-> FALSE])

ControlOps == {"select_mock", "select_hackrf", "open", "close", "start", "stop",
               "configure"}

\* The requests that pause the mock, after a faulty variant without any.
PausesNothing(o) == FALSE
Pauses(o) == o = "select_hackrf"

\* Selecting hardware pauses the mock and turns the engine away from it first.
Control(o) ==
    /\ Begin
    /\ mockRunning' = (mockRunning /\ ~Pauses(o))
    /\ hardware' = (hardware \/ Pauses(o))
    /\ late' = (late /\ ~Pauses(o))
    /\ Spawn(o)
    /\ hPc' = "control"
    /\ UNCHANGED <<hTodo, reply, dev, recording, playback, loads, passVars>>

\* The selection's driver decides what the engine listens to.  An error leaves
\* the flag as it is.
ControlReply ==
    /\ hPc = "control" /\ reply # NoReply
    /\ hardware' = IF reply.ok THEN reply.driver # "mock" ELSE hardware
    /\ hPc' = "idle" /\ reply' = NoReply
    /\ UNCHANGED <<late, hTodo, requests, dev, tasks, mockRunning, recording,
                   playback, loads, passVars>>

\* A patch asks for a configuration, a start or stop, or both.
Patches == {<<"configure">>, <<"start">>, <<"stop">>, <<"configure", "start">>,
            <<"configure", "stop">>}

PatchState(ops) ==
    /\ Begin
    /\ Spawn("snapshot")
    /\ hPc' = "patch" /\ hTodo' = ops
    /\ UNCHANGED <<late, reply, dev, engineVars, passVars>>

\* The mock's state changes at once unless the patch is refused; an opened receiver is
\* sent its commands.
PatchReply ==
    /\ hPc = "patch" /\ reply # NoReply
    /\ reply' = NoReply
    /\ \/ /\ reply.driver = "mock"
          /\ mockRunning' \in {mockRunning} \cup
                                 {o = "start" : o \in {"start", "stop"} \cap {hTodo[Len(hTodo)]}}
          /\ hPc' = "idle" /\ hTodo' = <<>>
          /\ UNCHANGED tasks
       \/ /\ reply.driver # "mock" /\ ~reply.opened
          /\ hPc' = "idle" /\ hTodo' = <<>>
          /\ UNCHANGED <<mockRunning, tasks>>
       \/ /\ reply.driver # "mock" /\ reply.opened
          /\ Spawn(Head(hTodo))
          /\ hPc' = "apply" /\ hTodo' = Tail(hTodo)
          /\ UNCHANGED mockRunning
    /\ UNCHANGED <<late, requests, dev, hardware, recording, playback, loads,
                   passVars>>

\* One command after the other, until one fails.  The closing snapshot and
\* record_device_state are in RecordingWriter.
ApplyReply ==
    /\ hPc = "apply" /\ reply # NoReply
    /\ reply' = NoReply
    /\ \/ /\ reply.ok /\ hTodo # <<>>
          /\ Spawn(Head(hTodo))
          /\ hTodo' = Tail(hTodo)
          /\ UNCHANGED hPc
       \/ /\ ~reply.ok \/ hTodo = <<>>
          /\ hPc' = "idle" /\ hTodo' = <<>>
          /\ UNCHANGED tasks
    /\ UNCHANGED <<late, requests, dev, engineVars, passVars>>

\* A call nobody awaits any more, after a faulty variant of it.
StillOwned(task) == task
Disowned(task) == [task EXCEPT !.owned = FALSE]

\* The client goes away while its handler awaits the device.
Cancel ==
    /\ hPc # "idle"
    /\ hPc' = "idle" /\ hTodo' = <<>> /\ reply' = NoReply
    /\ tasks' = [i \in DOMAIN tasks |-> Disowned(tasks[i])]
    /\ UNCHANGED <<late, requests, dev, engineVars, passVars>>

\* recording_start takes a snapshot first.
RecordingStart ==
    /\ Begin /\ loads.recordings < MaxRecordings
    /\ Spawn("snapshot")
    /\ hPc' = "record"
    /\ UNCHANGED <<late, hTodo, reply, dev, engineVars, passVars>>

RecordingReply ==
    /\ hPc = "record" /\ reply # NoReply
    /\ \/ /\ recording = 0
          /\ loads' = [loads EXCEPT !.recordings = @ + 1]
          /\ recording' = loads.recordings + 1
       \/ UNCHANGED <<loads, recording>>   \* one is active, or no file could be made
    /\ hPc' = "idle" /\ reply' = NoReply
    /\ UNCHANGED <<late, hTodo, requests, dev, tasks, hardware, mockRunning,
                   playback, passVars>>

RecordingStop ==
    /\ Begin /\ recording # 0
    /\ recording' = 0
    /\ UNCHANGED <<late, hPc, hTodo, reply, dev, tasks, hardware, mockRunning,
                   playback, loads, passVars>>

\* Refused while the engine listens to hardware.
PlaybackLoad ==
    /\ Begin /\ loads.files < MaxFiles /\ ~hardware
    /\ loads' = [loads EXCEPT !.files = @ + 1]
    /\ playback' = [load |-> loads.files + 1, playing |-> FALSE]
    /\ UNCHANGED <<late, hPc, hTodo, reply, dev, tasks, hardware, mockRunning,
                   recording, passVars>>

\* Play, pause and eject.
PlaybackCommand ==
    /\ Begin /\ playback.load # 0
    /\ playback' \in {[playback EXCEPT !.playing = TRUE],
                      [playback EXCEPT !.playing = FALSE],
                      [load |-> 0, playing |-> FALSE]}
    /\ UNCHANGED <<late, hPc, hTodo, reply, dev, tasks, hardware, mockRunning,
                   recording, loads, passVars>>

----------------------------------------------------------------------------
(* The device worker. *)

\* Without its call number i; those before it have been overtaken.
Served(i) == [j \in 1..(Len(tasks) - 1) |->
                 IF j < i THEN [tasks[j] EXCEPT !.overtaken = TRUE] ELSE tasks[j + 1]]

\* Some thread of the pool, no matter which was first, delivers its call and the worker
\* serves it.
Perform ==
    \E i \in DOMAIN tasks : \E r \in Device!Results(dev, tasks[i].op) :
        /\ Len(r.dev.labels) <= MaxStreams
        /\ dev' = r.dev
        /\ tasks' = Served(i)
        /\ late' = (late \/ (tasks[i].overtaken /\ tasks[i].op = "select_hackrf"))
        /\ reply' = IF tasks[i].owned
                    THEN [ok |-> r.ok, driver |-> r.dev.selected,
                          opened |-> r.dev.config # Device!NoConfig]
                    ELSE reply
        /\ UNCHANGED <<hPc, hTodo, requests, engineVars, passVars>>

----------------------------------------------------------------------------
(* One pass of the engine's loop. *)

Waiting == dev.mailbox # 0

TakeStream ==
    /\ ePc = "mailbox"
    /\ \/ /\ Waiting
          /\ engineSrc' = dev.mailbox
          /\ slots' = [slots EXCEPT ![dev.mailbox] = recording]
          /\ dev' = [dev EXCEPT !.mailbox = 0]
       \/ ~Waiting /\ UNCHANGED <<engineSrc, slots, dev>>
    /\ ePc' = "flag"
    /\ UNCHANGED <<eHardware, eRunning, eLoaded, ePlaying, source, tasks,
                   handlerVars, engineVars>>

ReadFlag ==
    /\ ePc = "flag"
    /\ eHardware' = hardware
    /\ engineSrc' = IF hardware THEN engineSrc ELSE 0
    /\ ePc' = "state"
    /\ UNCHANGED <<eRunning, eLoaded, ePlaying, slots, source, dev, tasks,
                   handlerVars, engineVars>>

ReadState ==
    /\ ePc = "state"
    /\ eRunning' = mockRunning
    /\ ePc' = "loaded"
    /\ UNCHANGED <<eHardware, eLoaded, ePlaying, engineSrc, slots, source, dev,
                   tasks, handlerVars, engineVars>>

ReadLoaded ==
    /\ ePc = "loaded"
    /\ eLoaded' = (playback.load # 0)
    /\ ePc' = "playing"
    /\ UNCHANGED <<eHardware, eRunning, ePlaying, engineSrc, slots, source, dev,
                   tasks, handlerVars, engineVars>>

ReadPlaying ==
    /\ ePc = "playing"
    /\ ePlaying' = playback.playing
    /\ ePc' = "read"
    /\ UNCHANGED <<eHardware, eRunning, eLoaded, engineSrc, slots, source, dev,
                   tasks, handlerVars, engineVars>>

\* A loaded playback comes before the hardware, the hardware before the mock.
ReadFile ==
    /\ ePc = "read" /\ eLoaded
    /\ source' = IF ePlaying /\ playback.playing
                 THEN [Nothing EXCEPT !.from = "file"] ELSE Nothing
    /\ UNCHANGED slots

Attached == IF engineSrc # 0 THEN [slots EXCEPT ![engineSrc] = recording] ELSE slots

ReadHardware ==
    /\ ePc = "read" /\ ~eLoaded /\ eHardware
    /\ source' = IF engineSrc \in dev.live THEN Stream(engineSrc) ELSE Nothing
    /\ slots' = Attached

ReadMock ==
    /\ ePc = "read" /\ ~eLoaded /\ ~eHardware
    /\ source' = IF eRunning THEN [Nothing EXCEPT !.from = "mock"] ELSE Nothing
    /\ UNCHANGED slots

ReadBlock ==
    /\ ReadFile \/ ReadHardware \/ ReadMock
    /\ ePc' = "mailbox"
    /\ UNCHANGED <<eHardware, eRunning, eLoaded, ePlaying, engineSrc, dev, tasks,
                   handlerVars, engineVars>>

----------------------------------------------------------------------------
Handler == ControlReply \/ PatchReply \/ ApplyReply \/ RecordingReply
EnginePass == TakeStream \/ ReadFlag \/ ReadState \/ ReadLoaded \/ ReadPlaying
                  \/ ReadBlock
Request == \/ \E o \in ControlOps : Control(o)
           \/ \E ops \in Patches : PatchState(ops)
           \/ RecordingStart \/ RecordingStop \/ PlaybackLoad \/ PlaybackCommand

Next == Request \/ Handler \/ Cancel \/ Perform \/ EnginePass

Spec == Init /\ [][Next]_vars

\* The pool, the worker and the DSP thread are scheduled and native calls
\* return; a handler whose call has returned goes on.  No request has to come.
Fairness == WF_vars(Handler) /\ WF_vars(Perform) /\ WF_vars(EnginePass)

FairSpec == Spec /\ Fairness
----------------------------------------------------------------------------
(* Properties. *)

\* Every variable holds a value of its type; a handler awaits at most the one
\* device call it owns, and never has both that call and its reply.
TypeOK ==
    /\ dev \in Device!Device
    /\ tasks \in Seq(Task)
    /\ hPc \in {"idle", "control", "patch", "apply", "record"}
    /\ hTodo \in Seq(Device!Ops) /\ requests \in Nat
    /\ reply \in [ok : BOOLEAN, driver : {"none", "mock", "hackrf"},
                  opened : BOOLEAN]
    /\ Cardinality({i \in DOMAIN tasks : tasks[i].owned})
          = IF hPc # "idle" /\ reply = NoReply THEN 1 ELSE 0
    /\ late \in BOOLEAN /\ hardware \in BOOLEAN /\ mockRunning \in BOOLEAN
    /\ recording \in Nat
    /\ playback \in [load : Nat, playing : BOOLEAN]
    /\ loads \in [recordings : Nat, files : Nat]
    /\ ePc \in {"mailbox", "flag", "state", "loaded", "playing", "read"}
    /\ eHardware \in BOOLEAN /\ eRunning \in BOOLEAN /\ eLoaded \in BOOLEAN
    /\ ePlaying \in BOOLEAN /\ engineSrc \in Streams \cup {0}
    /\ slots \in [Streams -> Nat] /\ source \in Source

\* While the worker has the hardware selected, the mock is paused and the engine turned
\* to the hardware (so that no file is loaded either), through failed, cancelled and
\* repeated requests and stale replies (main.rs, control and patch_state).  One thing
\* breaks it: a selection of a cancelled request that is served after the call of a
\* later request; from the next selection of hardware on it holds again.
NoMockUnderHardware == dev.selected = "hackrf" /\ ~late => hardware /\ ~mockRunning



----------------------------------------------------------------------------
(* Statements of the documentation that the code does not keep. *)

\* docs/protocol.md: hardware selection pauses the mock, "including a failed
\* selection attempt"; "returning to mock requires explicit START RX".  So with
\* the mock selected and started, the engine must not wait for hardware.
StartReturnsToMock ==
    dev.selected = "mock" /\ mockRunning /\ hPc = "idle" /\ tasks = <<>>
        => ~hardware

\* main.rs on select: the mock is paused first "so a cancelled HTTP request cannot leave
\* mock IQ running underneath a hardware selection that completes on the worker".
NoMockAfterCancel == dev.selected = "hackrf" => hardware \/ ~mockRunning

\* docs/architecture.md: "The engine continuously drains hardware".
HardwareIsDrained == \A s \in Streams : []<>(s \in dev.live => source = Stream(s))
=============================================================================
