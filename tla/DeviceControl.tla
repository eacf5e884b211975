---------------------------- MODULE DeviceControl ----------------------------
(***************************************************************************)
(* The owner of the radio: DeviceController and Worker of                  *)
(* crates/rf-device/src/control.rs over Receiver and Library of            *)
(* crates/rf-device/src/hackrf/mod.rs.                                     *)
(*                                                                         *)
(* Blocking server threads call the controller.  A request waits in a      *)
(* bounded queue for the worker thread, which owns all native state,       *)
(* serves one request at a time and checks the stream's health before      *)
(* each.  A started stream is handed to the DSP thread through a mailbox   *)
(* of one slot.  Any native call may fail; a stream may die by itself.     *)
(*                                                                         *)
(* A stream (an Ingress with its BufferedSource) is its number in the      *)
(* order of creation.  A native call is modelled by the set of its         *)
(* outcomes, and a Rust function returning Result by the set of its        *)
(* results: the device it leaves and whether it is Ok.                     *)
(***************************************************************************)
EXTENDS Integers, Sequences, FiniteSets

CONSTANTS
    Clients,        \* server threads that may be inside a call
    Configs,        \* receiver configurations that pass validation
    Default,        \* the configuration Library::open applies
    QueueCapacity,  \* requests the channel holds: 8
    MaxCalls        \* bound: calls accepted in a behavior

ASSUME ConfigAssumption == Default \in Configs
ASSUME CapacityAssumption == QueueCapacity \in Nat \ {0}
ASSUME BoundAssumption == MaxCalls \in Nat

NoConfig == "none"    \* no accepted configuration; partly applied settings
ASSUME NoConfigAssumption == NoConfig \notin Configs

Ops == {"select_mock", "select_hackrf", "open", "close", "start", "stop",
        "configure", "snapshot", "inventory", "shutdown"}

VARIABLES
    dev,        \* the worker's and the hardware's state, see Device
    engineSrc,  \* the stream the DSP thread reads, or 0
    queue,      \* clients whose requests wait in the channel
    op, answer, \* by client: the request it makes; the last reply it got
    waiting,    \* clients inside call()
    calls,      \* calls accepted
    wPc         \* the worker: "health", "recv", "exit", "gone"

workVars == <<dev, engineSrc>>
callVars == <<queue, op, answer, waiting, calls>>
vars == <<workVars, callVars, wPc>>

Streams == 1..MaxCalls
Device == [
    selected : {"mock", "hackrf"},          \* Worker.selected.descriptor.driver
    library  : {"none", "open", "stuck"},   \* Worker.library; hackrf_exit failed
    owned    : BOOLEAN,                     \* Worker.receiver is Some
    config   : Configs \cup {NoConfig},     \* the receiver's accepted settings
    ingress  : Streams \cup {0},            \* Receiver.ingress
    live     : SUBSET Streams,              \* streams whose running flag is set
    labels   : Seq(Configs),                \* settings of each stream created
    mailbox  : Streams \cup {0},            \* DeviceController.stream
    native   : Streams \cup {0},            \* stream the hardware calls back into
    hw       : Configs \cup {NoConfig}]     \* settings the hardware really has

(* DeviceController::new. *)
Init ==
    /\ dev = [selected |-> "mock", library |-> "none", owned |-> FALSE,
              config |-> NoConfig, ingress |-> 0, live |-> {}, labels |-> <<>>,
              mailbox |-> 0, native |-> 0, hw |-> NoConfig]
    /\ engineSrc = 0
    /\ queue = <<>> /\ waiting = {} /\ calls = 0
    /\ op = [c \in Clients |-> "snapshot"]
    /\ answer = [c \in Clients |-> "none"]
    /\ wPc = "health"

----------------------------------------------------------------------------
(* Receiver: results of its methods on device d. *)

Ok(d) == [dev |-> d, ok |-> TRUE]
Err(d) == [dev |-> d, ok |-> FALSE]

IsRunning(d) == d.ingress \in d.live

\* The flag is cleared first.  When hackrf_stop_rx fails the stream may go on,
\* and its ingress is retained.
Stop(d) ==
    LET quiet == [d EXCEPT !.live = @ \ {d.ingress}]
    IN  IF d.ingress = 0 THEN {Ok(d)}
        ELSE {Ok([quiet EXCEPT !.native = 0, !.ingress = 0]), Err(quiet),
              Err([quiet EXCEPT !.native = 0])}

\* The receiver holds the ingress before the native start; in the faulty variant it
\* does so only when that succeeded.
Forgetting(d, s) == d
Retaining(d, s) == [d EXCEPT !.ingress = s]

\* A fresh stream labelled with the accepted settings.  A failed
\* hackrf_start_rx may have begun to call back.
StartRx(d) ==
    LET s == Len(d.labels) + 1
        new == [d EXCEPT !.labels = Append(@, d.config)]
    IN  {Ok([new EXCEPT !.ingress = s, !.native = s, !.live = @ \cup {s}]),
         Err(Retaining(new, s)), Err([Retaining(new, s) EXCEPT !.native = s])}

Start(d) == UNION {IF r.ok THEN StartRx(r.dev) ELSE {r} : r \in Stop(d)}

\* The native setters are not transactional: a failure leaves any mixture.
Apply(d, c) == {Ok([d EXCEPT !.config = c, !.hw = c]), Err(d),
                Err([d EXCEPT !.hw = NoConfig])}

\* close stops, then hackrf_close frees the handle and ends the stream even when
\* it reports an error.  The receiver is gone in any case, its settings with it.
Closed(d) == [d EXCEPT !.owned = FALSE, !.config = NoConfig, !.ingress = 0,
                       !.live = @ \ {d.ingress}, !.native = 0,
                       !.hw = NoConfig]
CloseReceiver(d) == {Ok(Closed(d)), Err(Closed(d))}

----------------------------------------------------------------------------
(* Worker: results of a command on device d. *)

\* library(): hackrf_init runs when there is no context yet.
Library(d) == IF d.library = "none"
              THEN {Ok([d EXCEPT !.library = "open"]), Err(d)}
              ELSE {Ok(d)}

\* A failed initialization or enumeration leaves the hardware out of the list.
Enumerate(d) == UNION {IF r.ok THEN {r, Err(r.dev)} ELSE {r} : r \in Library(d)}
Inventory(d) == {Ok(r.dev) : r \in Enumerate(d)}

SelectMock(d) == IF d.owned THEN {Err(d)} ELSE {Ok([d EXCEPT !.selected = "mock"])}

SelectHackrf(d) ==
    IF d.owned THEN {Err(d)}
    ELSE {IF r.ok THEN Ok([r.dev EXCEPT !.selected = "hackrf"]) ELSE r :
            r \in Enumerate(d)}

\* Library::open applies the default settings; a handle that could not be
\* queried or configured is closed again.
Open(d) ==
    IF d.selected = "mock" THEN {Err(d)}
    ELSE IF d.owned THEN {Ok(d)}
    ELSE {IF r.ok THEN Ok([r.dev EXCEPT !.owned = TRUE, !.config = Default,
                                        !.hw = Default])
          ELSE r : r \in Enumerate(d)}

Close(d) == IF d.owned THEN CloseReceiver(d) ELSE {Ok(d)}

Publish(results) ==
    {IF r.ok THEN Ok([r.dev EXCEPT !.mailbox = r.dev.ingress]) ELSE r :
        r \in results}

StartStream(d) ==
    IF ~d.owned THEN {Err(d)}
    ELSE IF IsRunning(d) THEN {Ok(d)}
    ELSE Publish(Start(d))

StopStream(d) == IF d.owned THEN Stop(d) ELSE {Ok(d)}

\* Faulty variant of ApplyOrClose: a failed configuration keeps the receiver.
ApplyOrKeep(d, c) == Apply(d, c)

\* A receiver that took only part of its settings is closed.
ApplyOrClose(d, c) ==
    UNION {IF r.ok THEN {r} ELSE {Err(Closed(r.dev))} : r \in Apply(d, c)}

\* Streaming stops before the settings change and starts afresh afterwards.
Configure(d, c) ==
    LET stopped == Stop(d)
        applied == UNION {IF r.ok THEN ApplyOrClose(r.dev, c) ELSE {r} :
                            r \in stopped}
    IN  IF ~d.owned THEN {Err(d)}
        ELSE IF ~IsRunning(d) THEN applied
        ELSE UNION {IF r.ok THEN Publish(Start(r.dev)) ELSE {r} : r \in applied}

\* Worker::shutdown closes, then runs hackrf_exit; a failed exit is reported and
\* forbids another context.
Shutdown(d) ==
    UNION {IF r.dev.library = "open"
           THEN {[r EXCEPT !.dev.library = "none"],
                 Err([r.dev EXCEPT !.library = "stuck"])}
           ELSE {r} : r \in Close(d)}

Results(d, o) ==
    CASE o = "select_mock"   -> SelectMock(d)
      [] o = "select_hackrf" -> SelectHackrf(d)
      [] o = "open"          -> Open(d)
      [] o = "close"         -> Close(d)
      [] o = "start"         -> StartStream(d)
      [] o = "stop"          -> StopStream(d)
      [] o = "configure"     -> {Err(d)}   \* it did not validate
                                    \cup UNION {Configure(d, c) : c \in Configs}
      [] o = "snapshot"      -> {Ok(d)}
      [] o = "inventory"     -> Inventory(d)
      [] o = "shutdown"      -> Shutdown(d)

----------------------------------------------------------------------------
(* Clients: DeviceController::call. *)

\* try_send.
Call(c, o) ==
    /\ c \notin waiting /\ calls < MaxCalls
    /\ wPc # "gone" /\ Len(queue) < QueueCapacity
    /\ calls' = calls + 1
    /\ queue' = Append(queue, c)
    /\ op' = [op EXCEPT ![c] = o]
    /\ waiting' = waiting \cup {c}
    /\ UNCHANGED <<answer, workVars, wPc>>

\* A full queue, or a worker that is gone, is an error at once.
Refuse(c) ==
    /\ c \notin waiting
    /\ wPc = "gone" \/ Len(queue) >= QueueCapacity
    /\ answer' = [answer EXCEPT ![c] = "unavailable"]
    /\ UNCHANGED <<queue, op, waiting, calls, workVars, wPc>>

----------------------------------------------------------------------------
(* The worker thread. *)

\* Receiver::check_health: a running stream the hardware no longer feeds is marked
\* as stopped; the faulty variant overlooks it.
Unchecked(d) == d
Checked(d) == IF IsRunning(d) /\ d.native = 0
              THEN [d EXCEPT !.live = @ \ {d.ingress}] ELSE d

CheckHealth ==
    /\ wPc = "health"
    /\ dev' = Checked(dev)
    /\ wPc' = "recv"
    /\ UNCHANGED <<engineSrc, callVars>>

Timeout ==
    /\ wPc = "recv" /\ queue = <<>>
    /\ wPc' = "health"
    /\ UNCHANGED <<workVars, callVars>>

Serve ==
    /\ wPc = "recv" /\ queue # <<>>
    /\ LET c == Head(queue)
       IN  /\ \E r \in Results(dev, op[c]) :
                 /\ dev' = r.dev
                 /\ answer' = [answer EXCEPT ![c] = IF r.ok THEN "ok" ELSE "error"]
           /\ waiting' = waiting \ {c}
           /\ wPc' = IF op[c] = "shutdown" THEN "exit" ELSE "health"
    /\ queue' = Tail(queue)
    /\ UNCHANGED <<engineSrc, op, calls>>

\* The thread ends: the channel and the requests left in it are dropped, and
\* with them their reply senders; in the faulty variant those live on.
NoCaller == {}
Released == waiting

Hangup ==
    /\ wPc = "exit"
    /\ wPc' = "gone"
    /\ queue' = <<>> /\ waiting' = waiting \ Released
    /\ answer' = [c \in Clients |-> IF c \in Released THEN "unavailable"
                                    ELSE answer[c]]
    /\ UNCHANGED <<workVars, op, calls>>

Worker == CheckHealth \/ Timeout \/ Serve \/ Hangup

----------------------------------------------------------------------------
(* The rest of the world. *)

\* The hardware stops feeding the stream: unplugged, or a USB error.
StreamDies ==
    /\ dev.native # 0
    /\ dev' = [dev EXCEPT !.native = 0]
    /\ UNCHANGED <<engineSrc, callVars, wPc>>

\* Engine::run takes what the mailbox holds.
TakeStream ==
    /\ dev.mailbox # 0
    /\ engineSrc' = dev.mailbox
    /\ dev' = [dev EXCEPT !.mailbox = 0]
    /\ UNCHANGED <<callVars, wPc>>

Next ==
    \/ \E c \in Clients : Refuse(c) \/ \E o \in Ops : Call(c, o)
    \/ Worker \/ StreamDies \/ TakeStream

Spec == Init /\ [][Next]_vars

\* The worker thread is scheduled and native calls return; the DSP loop runs.
Fairness == WF_vars(Worker) /\ WF_vars(TakeStream)

FairSpec == Spec /\ Fairness
----------------------------------------------------------------------------
(* Properties. *)

\* Every variable holds a value of its type; the queue keeps its capacity.
TypeOK ==
    /\ dev \in Device
    /\ engineSrc \in Streams \cup {0}
    /\ queue \in Seq(Clients) /\ Len(queue) <= QueueCapacity
    /\ op \in [Clients -> Ops]
    /\ answer \in [Clients -> {"none", "ok", "error", "unavailable"}]
    /\ waiting \subseteq Clients /\ calls \in Nat
    /\ wPc \in {"health", "recv", "exit", "gone"}

\* The hardware calls back only into an ingress its receiver still holds,
\* whatever start, stop or close failed before.
CallbackStorageRetained == dev.native # 0 => dev.owned /\ dev.ingress = dev.native

\* IQ enters a stream under exactly the settings the stream is labelled with.
LabelsAreTrue == dev.native # 0 => dev.hw = dev.labels[dev.native]

\* The settings a status reports are those of the hardware, never settings that
\* a failed configuration left half applied.
ReportedIsApplied == dev.config # NoConfig => dev.owned /\ dev.hw = dev.config

\* Whatever setter, stop or start failed before, neither the label of a stream
\* nor the status claims settings the hardware does not have.
SettingsAreTrue == LabelsAreTrue /\ ReportedIsApplied

\* Every call returns: answered, or refused when the worker is gone.
EveryCallReturns == \A c \in Clients : c \in waiting ~> c \notin waiting

\* A stream that died by itself does not stay marked as running.
DeathIsNoticed ==
    \A s \in Streams :
        (s \in dev.live /\ dev.native # s) ~> s \notin dev.live
=============================================================================
