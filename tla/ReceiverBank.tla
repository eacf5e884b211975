---------------------------- MODULE ReceiverBank ----------------------------
(***************************************************************************)
(* Virtual receivers: the registry VfoBank and the DSP thread's            *)
(* VfoProcessor of crates/rf-engine/src/vfo.rs, with the handlers of       *)
(* crates/rf-server/src/main.rs that edit the registry.                    *)
(*                                                                         *)
(* A handler takes a snapshot of the capture settings, then edits the      *)
(* registry under its lock.  For every IQ block the DSP thread copies the  *)
(* registry, serves the copies one by one in the order of their IDs, and   *)
(* publishes what it measured for each; a paused source makes it publish   *)
(* the copies too.  Edits and changes of the sources interleave with all   *)
(* of it.                                                                  *)
(*                                                                         *)
(* The handler and the DSP thread do not ask the same question.  The       *)
(* snapshot reports the selected receiver before a loaded file, and        *)
(* settings of zero for one that is not opened; the thread reads a loaded  *)
(* file before the receiver, and nothing from one that does not stream.    *)
(* Which source is selected and when is in CaptureServer.                  *)
(*                                                                         *)
(* A configuration is a frequency and a bandwidth: a change of any other   *)
(* setting that rebuilds the channel is like a change of frequency, and    *)
(* the settings that do not rebuild it are left out.  IDs are strings that *)
(* end in the counter and sort as text; up to nine receivers that is the   *)
(* order of the numbers used here.                                         *)
(***************************************************************************)
EXTENDS Integers, FiniteSets, FiniteSetsExt, Functions

CONSTANTS
    Frequencies, Bandwidths, \* of receivers: small sets of positive integers
    Centers, Rates,          \* of captures: likewise
    WorkBudget,     \* VfoBank.work_budget
    MaxReceivers,   \* bound: receivers created in a behavior
    MaxEdits,       \* bound: requests in a behavior
    MaxRetunes,     \* bound: changes of the sources in a behavior
    MaxProcessed    \* bound: processed_samples saturates here

ASSUME ValuesAssumption ==
    /\ Frequencies \subseteq Nat \ {0} /\ Bandwidths \subseteq Nat \ {0}
    /\ Centers \subseteq Nat \ {0} /\ Rates \subseteq Nat \ {0}
ASSUME BoundAssumption ==
    /\ WorkBudget \in Nat /\ MaxReceivers \in Nat /\ MaxEdits \in Nat
    /\ MaxRetunes \in Nat /\ MaxProcessed \in Nat

VARIABLES
    mock, file,          \* settings of the mock and of the loaded file, or Absent
    device, streaming, \* of the selected hardware, Closed or Absent; it streams
    hardware,            \* Engine.hardware
    retunes,             \* changes of the sources so far
    registry,            \* VfoBank.receivers: by ID
    next,                \* VfoBank.next
    asked,               \* the last configuration a request gave each ID (history)
    hPc, hCapture, edits,\* the handler under the mutations mutex: its snapshot
    channels,            \* VfoProcessor.channels: the receivers that have one
    pass, batch,         \* the pass under way; copies it has still to serve
    passCapture, budget, \* process(): the settings of the block, work left
    spent,               \* work done in this pass (history)
    used                 \* captures that admitted a receiver or had a block (history)

sourceVars == <<mock, file, device, streaming, hardware, retunes>>
registryVars == <<registry, next, asked>>
handlerVars == <<hPc, hCapture, edits>>
passVars == <<channels, pass, batch, passCapture, budget, spent>>
vars == <<sourceVars, registryVars, handlerVars, passVars, used>>

Ids == 1..MaxReceivers
Configs == [frequency : Frequencies, bandwidth : Bandwidths]
Captures == [center : Centers, rate : Rates]
Closed == [center |-> 0, rate |-> 0]    \* of hardware that is not opened
Absent == [center |-> -1, rate |-> 0]   \* of no source
Receiver == [config : Configs, suspended : BOOLEAN, processed : 0..MaxProcessed]
Empty == [i \in {} |-> 0]

\* The sources may have been chosen before the first receiver is created.
Init ==
    /\ mock \in Captures /\ file \in Captures \cup {Absent}
    /\ device \in Captures \cup {Closed, Absent}
    /\ hardware \in BOOLEAN /\ (hardware <=> device # Absent)
    /\ streaming \in BOOLEAN /\ (streaming <=> device \in Captures)
    /\ retunes = 0
    /\ registry = Empty /\ next = 1 /\ asked = Empty
    /\ hPc = "idle" /\ hCapture = mock /\ edits = 0
    /\ channels = {} /\ pass = "none" /\ batch = Empty
    /\ passCapture = mock /\ budget = WorkBudget /\ spent = 0
    /\ used = {}

----------------------------------------------------------------------------
(* Admission. *)

\* estimated_work grows with the capture rate and with the bandwidth.
Work(rate, config) == rate * config.bandwidth

\* validate: the passband lies inside the capture.
Fits(config, c) ==
    LET offset == IF config.frequency >= c.center
                  THEN config.frequency - c.center ELSE c.center - config.frequency
    IN  2 * offset + config.bandwidth <= c.rate

TotalWork(rate, ids) ==
    MapThenSumSet(LAMBDA i : Work(rate, registry[i].config), ids)

\* put: the new configuration fits beside all other receivers.
Admitted(config, c, others) ==
    /\ Fits(config, c)
    /\ TotalWork(c.rate, others) + Work(c.rate, config) <= WorkBudget

----------------------------------------------------------------------------
(* The sources. *)

\* Engine::run: the settings of the next block, or Absent when there is none.
Heard ==
    IF file # Absent THEN file
    ELSE IF ~hardware THEN mock
    ELSE IF streaming THEN device ELSE Absent

\* snapshot: the settings an edit is checked against.
Reported ==
    IF device # Absent THEN device
    ELSE IF file # Absent THEN file ELSE mock

Change ==
    /\ retunes < MaxRetunes /\ retunes' = retunes + 1
    /\ UNCHANGED <<registryVars, handlerVars, passVars, used>>

\* Requests for the mock and the file wait for the mutations mutex; a file is loaded with
\* the hardware flag down, and stays loaded when a receiver is selected.
Tune ==
    /\ Change /\ hPc = "idle" /\ device = Absent
    /\ mock' \in Captures \ {mock}
    /\ UNCHANGED <<file, device, streaming, hardware>>

PlaybackLoad ==
    /\ Change /\ hPc = "idle" /\ ~hardware
    /\ file' \in Captures \ {file}
    /\ UNCHANGED <<mock, device, streaming, hardware>>

PlaybackClear ==
    /\ Change /\ hPc = "idle" /\ file # Absent
    /\ file' = Absent
    /\ UNCHANGED <<mock, device, streaming, hardware>>

\* Select, open, configure, close: also calls that a cancelled request left behind, so
\* that the flag may end up either way (CaptureServer says how).  They end the stream; a
\* new one is started with the settings as they are.
Retune ==
    /\ Change
    /\ device' \in {Closed, Absent} \cup (IF device = Absent THEN {} ELSE Captures)
    /\ hardware' \in BOOLEAN /\ <<device', hardware'>> # <<device, hardware>>
    /\ streaming' = FALSE
    /\ UNCHANGED <<mock, file>>

StopStream ==
    /\ Change /\ streaming
    /\ streaming' = FALSE
    /\ UNCHANGED <<mock, file, device, hardware>>

\* The next pass finds the stream of a started receiver; vfos.reset().
TakeStream ==
    /\ pass = "none" /\ hardware /\ device \in Captures /\ ~streaming
    /\ streaming' = TRUE /\ channels' = {}
    /\ UNCHANGED <<mock, file, device, hardware, retunes, registryVars, handlerVars, pass, batch,
                   passCapture, budget, spent, used>>

----------------------------------------------------------------------------
(* The handlers. *)

\* snapshot(&e).await: what put() will be given.
Snapshot ==
    /\ hPc = "idle" /\ edits < MaxEdits
    /\ edits' = edits + 1
    /\ hPc' = "put" /\ hCapture' = Reported
    /\ UNCHANGED <<sourceVars, registryVars, passVars, used>>

Put(i, config, others) ==
    /\ hPc = "put"
    /\ Admitted(config, hCapture, others)
    /\ registry' = [j \in DOMAIN registry \cup {i} |->
                       IF j # i THEN registry[j]
                       ELSE [config |-> config, suspended |-> FALSE,
                             processed |-> IF i \in DOMAIN registry
                                           THEN registry[i].processed ELSE 0]]
    /\ asked' = [j \in DOMAIN asked \cup {i} |-> IF j = i THEN config ELSE asked[j]]
    /\ used' = used \cup {hCapture}
    /\ hPc' = "idle"

\* fetch_add on the counter.
NextId == next + 1

\* put(None, ...) and put(Some(id), ...).
AddVfo ==
    /\ next \in Ids
    /\ \E config \in Configs : Put(next, config, DOMAIN registry)
    /\ next' = NextId
    /\ UNCHANGED <<sourceVars, hCapture, edits, passVars>>

UpdateVfo ==
    /\ \E i \in DOMAIN registry, config \in Configs :
           Put(i, config, DOMAIN registry \ {i})
    /\ UNCHANGED <<sourceVars, next, hCapture, edits, passVars>>

\* put returns an error, or the client goes away during the snapshot.
GiveUp ==
    /\ hPc = "put" /\ hPc' = "idle"
    /\ UNCHANGED <<sourceVars, registryVars, hCapture, edits, passVars, used>>

RemoveVfo ==
    /\ hPc = "idle" /\ edits < MaxEdits
    /\ edits' = edits + 1
    /\ \E i \in DOMAIN registry :
           /\ registry' = Restrict(registry, DOMAIN registry \ {i})
           /\ asked' = Restrict(asked, DOMAIN registry \ {i})
    /\ UNCHANGED <<sourceVars, next, hPc, hCapture, passVars, used>>

----------------------------------------------------------------------------
(* The DSP thread. *)

\* Faulty variant of Publish: a copy with an outdated configuration counts too.
PublishOutdated(i, receiver) ==
    registry' = [j \in DOMAIN registry |->
                    IF j = i THEN receiver ELSE registry[j]]

\* publish: a receiver removed or reconfigured meanwhile keeps its new state.
Publish(i, receiver) ==
    registry' = [j \in DOMAIN registry |->
                    IF j = i /\ registry[j].config = receiver.config
                    THEN receiver ELSE registry[j]]

\* process: copy the registry, forget the channels of removed receivers.
BeginBlock ==
    /\ pass = "none" /\ Heard # Absent
    /\ pass' = "block" /\ batch' = registry /\ passCapture' = Heard
    /\ channels' = channels \cap DOMAIN registry
    /\ budget' = WorkBudget /\ spent' = 0
    /\ used' = used \cup {Heard}
    /\ UNCHANGED <<sourceVars, registryVars, handlerVars>>

\* pause: the source is stopped; the channels go, the copies are published.
Pause ==
    /\ pass = "none" /\ channels # {}
    /\ channels' = {}
    /\ pass' = "pause" /\ batch' = registry
    /\ UNCHANGED <<sourceVars, registryVars, handlerVars, passCapture, budget, spent,
                   used>>

\* reset: IQ was dropped.
Reset ==
    /\ pass = "none" /\ channels # {}
    /\ channels' = {}
    /\ UNCHANGED <<sourceVars, registryVars, handlerVars, pass, batch, passCapture,
                   budget, spent, used>>

\* Faulty variant of Affordable: the budget is not looked at.
AffordableAlways(config) == Fits(config, passCapture)

Affordable(config) ==
    Fits(config, passCapture) /\ Work(passCapture.rate, config) <= budget

Suspend(i) ==
    /\ pass = "block" /\ ~Affordable(batch[i].config)
    /\ channels' = channels \ {i}
    /\ Publish(i, [batch[i] EXCEPT !.suspended = TRUE])
    /\ UNCHANGED <<budget, spent>>

\* Faulty variant of Measured: a receiver once suspended stays so.
MeasuredStill(receiver) ==
    [receiver EXCEPT !.processed = IF @ < MaxProcessed THEN @ + 1 ELSE @]

Measured(receiver) ==
    [receiver EXCEPT !.processed = IF @ < MaxProcessed THEN @ + 1 ELSE @,
                     !.suspended = FALSE]

Channelize(i) ==
    /\ pass = "block" /\ Affordable(batch[i].config)
    /\ LET cost == Work(passCapture.rate, batch[i].config)
       IN  budget' = budget - cost /\ spent' = spent + cost
    /\ channels' = channels \cup {i}
    /\ Publish(i, Measured(batch[i]))

Silence(i) ==
    /\ pass = "pause"
    /\ Publish(i, batch[i])
    /\ UNCHANGED <<channels, budget, spent>>

Serve ==
    /\ batch # Empty
    /\ LET i == Min(DOMAIN batch)
       IN  /\ Suspend(i) \/ Channelize(i) \/ Silence(i)
           /\ batch' = Restrict(batch, DOMAIN batch \ {i})
    /\ UNCHANGED <<sourceVars, next, asked, handlerVars, pass, passCapture, used>>

EndPass ==
    /\ pass # "none" /\ batch = Empty
    /\ pass' = "none"
    /\ UNCHANGED <<sourceVars, registryVars, handlerVars, channels, batch, passCapture,
                   budget, spent, used>>

----------------------------------------------------------------------------
Edit == Snapshot \/ AddVfo \/ UpdateVfo \/ GiveUp \/ RemoveVfo

SourceChange == Tune \/ PlaybackLoad \/ PlaybackClear \/ Retune \/ StopStream

Next == SourceChange \/ TakeStream \/ Edit \/ BeginBlock \/ Pause \/ Reset \/ Serve \/ EndPass

Spec == Init /\ [][Next]_vars

\* The DSP thread keeps running and, as long as the source runs, gets blocks.
FairSpec == Spec /\ WF_vars(BeginBlock) /\ WF_vars(Serve) /\ WF_vars(EndPass)
----------------------------------------------------------------------------
(* Properties. *)

\* Every variable holds a value of its type, and the work charged in a pass is
\* what is missing from its budget.
TypeOK ==
    /\ mock \in Captures /\ file \in Captures \cup {Absent}
    /\ device \in Captures \cup {Closed, Absent}
    /\ hardware \in BOOLEAN /\ streaming \in BOOLEAN
    /\ (streaming => hardware /\ device \in Captures)
    /\ retunes \in 0..MaxRetunes /\ used \subseteq Captures
    /\ DOMAIN registry \subseteq 1..(next - 1) /\ next \in 1..(MaxReceivers + 1)
    /\ \A i \in DOMAIN registry : registry[i] \in Receiver
    /\ DOMAIN asked = DOMAIN registry
    /\ hPc \in {"idle", "put"} /\ hCapture \in Captures \cup {Closed} /\ edits \in 0..MaxEdits
    /\ channels \subseteq Ids
    /\ pass \in {"none", "block", "pause"} /\ passCapture \in Captures
    /\ \A i \in DOMAIN batch : i \in Ids /\ batch[i] \in Receiver
    /\ budget = WorkBudget - spent

\* A PATCH answered with success is not undone by the block that was being
\* processed with the former configuration.
EditsStick == \A i \in DOMAIN registry : registry[i].config = asked[i]

\* docs/vfo.md: the budget bounds intended work.  However the capture changed and
\* receivers were edited, no block costs more than the budget.
BudgetKept == spent <= WorkBudget

\* As long as every receiver was admitted for the capture that every block came with,
\* admission control suffices: whatever edits are made before, during and after a pass,
\* and whatever else is selected meanwhile, the DSP thread suspends no receiver.
AdmittedIsServed ==
    (\A c, d \in used : c = d) => \A i \in DOMAIN registry : ~registry[i].suspended

\* Neither admission nor the pass gives away more than the budget, or less.
BudgetIsShared == BudgetKept /\ AdmittedIsServed

\* The receivers served in stable ID order: left[i] is what the first i leave.
Left ==
    LET left[i \in 0..MaxReceivers] ==
            IF i = 0 THEN WorkBudget
            ELSE IF i \in DOMAIN registry
                    /\ Fits(registry[i].config, Heard)
                    /\ Work(Heard.rate, registry[i].config) <= left[i - 1]
                 THEN left[i - 1] - Work(Heard.rate, registry[i].config)
                 ELSE left[i - 1]
    IN  left

Excess(i) == Left[i] = Left[i - 1]

\* docs/vfo.md: capture changes "suspend excess channels in stable ID order", and a
\* suspended channel "resumes if later capture settings contain it".  Once edits
\* and changes of the sources cease and blocks come, whatever the edits were checked
\* against, exactly the excess receivers end up suspended.
SuspensionSettles ==
    \A i \in Ids :
        <>[](i \in DOMAIN registry /\ Heard # Absent =>
                 registry[i].suspended = Excess(i))

----------------------------------------------------------------------------
(* A statement of the documentation that the code does not keep. *)

\* docs/vfo.md: "Requested nominal passbands must lie entirely inside instantaneous
\* capture bandwidth", the capture that the blocks come with.
RequestedInsideCapture ==
    [][\A i \in DOMAIN asked' :
          (i \in DOMAIN asked => asked'[i] # asked[i]) /\ Heard # Absent
              => Fits(asked'[i], Heard)]_vars
=============================================================================
