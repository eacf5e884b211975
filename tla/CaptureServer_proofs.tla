-------------------------- MODULE CaptureServer_proofs --------------------------
(***************************************************************************)
(* Proofs about CaptureServer, for any configurations, numbers of          *)
(* requests, streams, files and recordings.                                *)
(*                                                                         *)
(* Device calls are delivered in any order throughout.                     *)
(*                                                                         *)
(* NoMockTheorem.  Of the device only the selection matters: no command    *)
(* but a selection of hardware selects hardware.  Of the server it is that *)
(* a selection under way that no later call has overtaken already has the  *)
(* flag set and the mock paused, and that whoever changes either does so   *)
(* with the reply of the latest call in hand, when every other call under  *)
(* way has been overtaken.                                                 *)
(*                                                                         *)
(* TypeCorrect.  A handler owns one call while it awaits and none          *)
(* otherwise (WorkInv), whichever call is served first.                    *)
(***************************************************************************)
EXTENDS CaptureServer, SequenceTheorems, FiniteSetTheorems, TLAPS

USE DEF Pauses, Disowned, Waiting, Attached

----------------------------------------------------------------------------
(* The device: its shape, its selection and its answers. *)

Shape == [
    selected : {"mock", "hackrf"}, library : {"none", "open", "stuck"},
    owned : BOOLEAN, config : Configs \cup {Device!NoConfig}, ingress : Nat,
    live : SUBSET Nat, labels : Seq(Configs), mailbox : Nat, native : Nat,
    hw : Configs \cup {Device!NoConfig}]

\* A device of the right types that knows of no stream but those it created.
Shaped(d) ==
    /\ d \in Shape
    /\ d.ingress <= Len(d.labels) /\ d.mailbox <= Len(d.labels)
    /\ d.native <= Len(d.labels)
    /\ \A s \in d.live : 1 <= s /\ s <= Len(d.labels)
    /\ d.owned => d.config \in Configs

Keeps(d, e) == Shaped(e) /\ e.selected = d.selected

LEMMA ShapedFacts == ASSUME NEW d, Shaped(d) PROVE d \in Shape /\ Len(d.labels) \in Nat
  BY LenProperties DEF Shaped, Shape

LEMMA StopKeeps ==
    ASSUME NEW d, Shaped(d), NEW r \in Device!Stop(d)
    PROVE  Keeps(d, r.dev) /\ r.dev.owned = d.owned
<1> DEFINE quiet == [d EXCEPT !.live = @ \ {d.ingress}]
<1>1. d \in Shape /\ Len(d.labels) \in Nat
  BY ShapedFacts
<1>2. ASSUME NEW e \in {d, quiet, [quiet EXCEPT !.native = 0],
                        [quiet EXCEPT !.native = 0, !.ingress = 0]}
      PROVE  Keeps(d, e) /\ e.owned = d.owned
  <2>1. /\ e \in Shape /\ e.selected = d.selected /\ e.owned = d.owned
        /\ e.config = d.config /\ e.labels = d.labels /\ e.mailbox = d.mailbox
        /\ e.ingress \in {0, d.ingress} /\ e.native \in {0, d.native}
        /\ e.live \in {d.live, d.live \ {d.ingress}}
    <3>1. CASE e = d
      BY <1>1, <3>1
    <3>2. CASE e = quiet
      BY <1>1, <3>2 DEF Shape
    <3>3. CASE e = [quiet EXCEPT !.native = 0]
      BY <1>1, <3>3 DEF Shape
    <3>4. CASE e = [quiet EXCEPT !.native = 0, !.ingress = 0]
      BY <1>1, <3>4 DEF Shape
    <3>5. QED
      BY <1>2, <3>1, <3>2, <3>3, <3>4
  <2>2. QED
    BY <1>1, <2>1 DEF Shaped, Keeps
<1>3. r.dev \in {d, quiet, [quiet EXCEPT !.native = 0],
                 [quiet EXCEPT !.native = 0, !.ingress = 0]}
  BY DEF Device!Stop, Device!Ok, Device!Err
<1>4. QED
  BY <1>2, <1>3

LEMMA StartKeeps ==
    ASSUME NEW d, Shaped(d), d.owned, NEW r \in Device!Start(d)
    PROVE  Keeps(d, r.dev)
<1>1. PICK q \in Device!Stop(d) : r \in IF q.ok THEN Device!StartRx(q.dev) ELSE {q}
  BY DEF Device!Start
<1>2. Keeps(d, q.dev) /\ q.dev.owned
  BY StopKeeps
<1>3. ASSUME NEW p \in Device!StartRx(q.dev) PROVE Keeps(d, p.dev)
  <2> DEFINE b == q.dev
             s == Len(b.labels) + 1
             new == [b EXCEPT !.labels = Append(@, b.config)]
             held == [new EXCEPT !.ingress = s]
  <2>1. p.dev \in {[new EXCEPT !.ingress = s, !.native = s, !.live = @ \cup {s}],
                   held, [held EXCEPT !.native = s]}
    BY <1>3 DEF Device!StartRx, Device!Retaining, Device!Ok, Device!Err
  <2>2. Shaped(b) /\ b \in Shape /\ Len(b.labels) \in Nat /\ b.config \in Configs
    BY <1>2, ShapedFacts DEF Keeps, Shaped
  <2>3. s \in Nat /\ Append(b.labels, b.config) \in Seq(Configs)
        /\ Len(Append(b.labels, b.config)) = s
    BY <2>2, AppendProperties DEF Shape
  <2> HIDE DEF b
  <2>4. /\ new \in Shape /\ new.labels = Append(b.labels, b.config)
        /\ new.selected = b.selected /\ new.owned = b.owned /\ new.config = b.config
        /\ new.ingress = b.ingress /\ new.mailbox = b.mailbox
        /\ new.native = b.native /\ new.live = b.live
    BY <2>2, <2>3 DEF Shape
  <2> HIDE DEF new, s
  <2>5. ASSUME NEW e \in {[new EXCEPT !.ingress = s, !.native = s, !.live = @ \cup {s}],
                          held, [held EXCEPT !.native = s]}
        PROVE  /\ e \in Shape /\ e.labels = new.labels
               /\ e.selected = b.selected /\ e.owned = b.owned /\ e.config = b.config
               /\ e.ingress = s /\ e.mailbox = b.mailbox
               /\ e.native \in {s, b.native} /\ e.live \subseteq b.live \cup {s}
    <3>1. CASE e = [new EXCEPT !.ingress = s, !.native = s, !.live = @ \cup {s}]
      BY <2>3, <2>4, <3>1 DEF Shape
    <3>2. CASE e = held
      BY <2>3, <2>4, <3>2 DEF Shape
    <3>3. CASE e = [held EXCEPT !.native = s]
      BY <2>3, <2>4, <3>3 DEF Shape
    <3>4. QED
      BY <2>5, <3>1, <3>2, <3>3
  <2> HIDE DEF held
  <2>6. Len(new.labels) = s /\ s = Len(b.labels) + 1
    BY <2>3, <2>4 DEF s
  <2>7. ASSUME NEW e \in Shape, e.labels = new.labels,
               e.selected = b.selected, e.owned = b.owned, e.config = b.config,
               e.ingress = s, e.mailbox = b.mailbox, e.native \in {s, b.native},
               e.live \subseteq b.live \cup {s}
        PROVE  Keeps(b, e)
    <3>1. \A i \in b.live : i \in Nat /\ 1 <= i /\ i <= Len(b.labels)
      BY <2>2 DEF Shaped, Shape
    <3>2. \A i \in e.live : 1 <= i /\ i <= s
      BY <2>2, <2>3, <2>6, <2>7, <3>1
    <3>3. e.mailbox <= s /\ e.native <= s
      BY <2>2, <2>3, <2>6, <2>7 DEF Shaped, Shape
    <3>4. QED
      BY <2>2, <2>3, <2>6, <2>7, <3>2, <3>3 DEF Keeps, Shaped
  <2>8. Keeps(b, p.dev)
    BY <2>1, <2>5, <2>7
  <2>9. QED
    BY <1>2, <2>8 DEF Keeps, b
<1>4. QED
  BY <1>1, <1>2, <1>3

LEMMA ClosedKeeps ==
    ASSUME NEW d, Shaped(d)
    PROVE  Keeps(d, Device!Closed(d))
<1>0. d \in Shape
  BY ShapedFacts
<1>1. ASSUME NEW e, e = Device!Closed(d) PROVE Keeps(d, e)
  <2>1. /\ e \in Shape /\ e.selected = d.selected /\ e.owned = FALSE /\ e.labels = d.labels
        /\ e.mailbox = d.mailbox /\ e.ingress = 0 /\ e.native = 0
        /\ e.live = d.live \ {d.ingress}
    BY <1>0, <1>1 DEF Device!Closed, Shape, Device!NoConfig
  <2>2. QED
    BY <2>1, ShapedFacts DEF Keeps, Shaped
<1>2. QED
  BY <1>1

LEMMA ApplyKeeps ==
    ASSUME NEW d, Shaped(d), d.owned, NEW c \in Configs, NEW r \in Device!ApplyOrClose(d, c)
    PROVE  Keeps(d, r.dev) /\ (r.ok => r.dev.owned)
<1>1. PICK q \in Device!Apply(d, c) :
          r \in IF q.ok THEN {q} ELSE {Device!Err(Device!Closed(q.dev))}
  BY DEF Device!ApplyOrClose
<1>2. q.dev \in {[d EXCEPT !.config = c, !.hw = c], d,
                 [d EXCEPT !.hw = Device!NoConfig]}
  BY DEF Device!Apply, Device!Ok, Device!Err
<1>3. /\ q.dev \in Shape /\ q.dev.selected = d.selected /\ q.dev.owned = d.owned
      /\ q.dev.labels = d.labels /\ q.dev.mailbox = d.mailbox /\ q.dev.live = d.live
      /\ q.dev.ingress = d.ingress /\ q.dev.native = d.native
      /\ q.dev.config \in {c, d.config}
  <2>1. d \in Shape
    BY ShapedFacts
  <2>2. CASE q.dev = [d EXCEPT !.config = c, !.hw = c]
    BY <2>1, <2>2 DEF Shape, Device!NoConfig
  <2>3. CASE q.dev = d
    BY <2>1, <2>3
  <2>4. CASE q.dev = [d EXCEPT !.hw = Device!NoConfig]
    BY <2>1, <2>4 DEF Shape, Device!NoConfig
  <2>5. QED
    BY <1>2, <2>2, <2>3, <2>4
<1>4. Keeps(d, q.dev)
  BY <1>3 DEF Keeps, Shaped
<1>5. Keeps(d, Device!Closed(q.dev))
  BY <1>4, ClosedKeeps DEF Keeps
<1>6. CASE q.ok
  BY <1>1, <1>3, <1>4, <1>6
<1>7. CASE ~q.ok
  BY <1>1, <1>5, <1>7 DEF Device!Err
<1>8. QED
  BY <1>6, <1>7

LEMMA PublishKeeps ==
    ASSUME NEW d, NEW results, \A q \in results : Keeps(d, q.dev),
           NEW r \in Device!Publish(results)
    PROVE  Keeps(d, r.dev)
<1>1. PICK q \in results :
          r = IF q.ok THEN Device!Ok([q.dev EXCEPT !.mailbox = q.dev.ingress]) ELSE q
  BY DEF Device!Publish
<1>2. Keeps(d, q.dev) /\ q.dev \in Shape
  BY DEF Keeps, Shaped
<1>3. ASSUME NEW e, e = [q.dev EXCEPT !.mailbox = q.dev.ingress] PROVE Keeps(d, e)
  <2>1. /\ e \in Shape /\ e.selected = q.dev.selected /\ e.owned = q.dev.owned
        /\ e.labels = q.dev.labels /\ e.mailbox = q.dev.ingress /\ e.live = q.dev.live
        /\ e.ingress = q.dev.ingress /\ e.native = q.dev.native
        /\ e.config = q.dev.config
    BY <1>2, <1>3 DEF Shape
  <2>2. QED
    BY <1>2, <2>1 DEF Keeps, Shaped
<1>4. QED
  BY <1>1, <1>2, <1>3 DEF Device!Ok

LEMMA ConfigureKeeps ==
    ASSUME NEW d, Shaped(d), NEW c \in Configs, NEW r \in Device!Configure(d, c)
    PROVE  Keeps(d, r.dev)
<1> DEFINE applied == UNION {IF q.ok THEN Device!ApplyOrClose(q.dev, c) ELSE {q} :
                                q \in Device!Stop(d)}
<1>1. ASSUME d.owned, NEW a \in applied PROVE Keeps(d, a.dev) /\ (a.ok => a.dev.owned)
  <2>1. PICK q \in Device!Stop(d) :
            a \in IF q.ok THEN Device!ApplyOrClose(q.dev, c) ELSE {q}
    BY <1>1
  <2>2. Keeps(d, q.dev) /\ q.dev.owned
    BY <1>1, StopKeeps
  <2>3. CASE q.ok
    BY <2>1, <2>2, <2>3, ApplyKeeps DEF Keeps
  <2>4. CASE ~q.ok
    BY <2>1, <2>2, <2>4
  <2>5. QED
    BY <2>3, <2>4
<1>2. \/ r = Device!Err(d)
      \/ d.owned /\ r \in applied
      \/ d.owned /\ r \in UNION {IF q.ok THEN Device!Publish(Device!Start(q.dev)) ELSE {q} :
                                    q \in applied}
  BY DEF Device!Configure
<1> HIDE DEF applied
<1>3. ASSUME d.owned, NEW q \in applied, q.ok,
             NEW p \in Device!Publish(Device!Start(q.dev))
      PROVE  Keeps(d, p.dev)
  <2>1. \A s \in Device!Start(q.dev) : Keeps(d, s.dev)
    BY <1>1, <1>3, StartKeeps DEF Keeps
  <2>2. QED
    BY <1>3, <2>1, PublishKeeps
<1>4. QED
  BY <1>1, <1>2, <1>3 DEF Device!Err, Keeps

\* Selecting a source and opening the library touch no stream.
LEMMA SelectShaped ==
    ASSUME NEW d, Shaped(d), NEW x \in {"mock", "hackrf"}, NEW e,
           e = [d EXCEPT !.selected = x]
    PROVE  Shaped(e) /\ e.selected = x
<1>1. /\ e \in Shape /\ e.selected = x /\ e.labels = d.labels /\ e.owned = d.owned
      /\ e.config = d.config /\ e.ingress = d.ingress /\ e.native = d.native
      /\ e.mailbox = d.mailbox /\ e.live = d.live
  BY ShapedFacts DEF Shape
<1>2. QED
  BY <1>1 DEF Shaped

LEMMA LibraryKeeps ==
    ASSUME NEW d, Shaped(d), NEW y \in {"none", "open", "stuck"}, NEW e,
           e = [d EXCEPT !.library = y]
    PROVE  Keeps(d, e)
<1>1. /\ e \in Shape /\ e.selected = d.selected /\ e.labels = d.labels
      /\ e.owned = d.owned /\ e.config = d.config /\ e.ingress = d.ingress
      /\ e.native = d.native /\ e.mailbox = d.mailbox /\ e.live = d.live
  BY ShapedFacts DEF Shape
<1>2. QED
  BY <1>1 DEF Shaped, Keeps

LEMMA MailboxKeeps ==
    ASSUME NEW d, Shaped(d), NEW e, e = [d EXCEPT !.mailbox = 0]
    PROVE  Keeps(d, e) /\ e.labels = d.labels
<1>1. /\ e \in Shape /\ e.selected = d.selected /\ e.labels = d.labels
      /\ e.owned = d.owned /\ e.config = d.config /\ e.ingress = d.ingress
      /\ e.native = d.native /\ e.mailbox = 0 /\ e.live = d.live
  BY ShapedFacts DEF Shape
<1>2. QED
  BY <1>1, ShapedFacts DEF Shaped, Keeps

\* A receiver that opens has the default settings.
LEMMA OpenedKeeps ==
    ASSUME NEW d, Shaped(d), NEW e,
           e = [d EXCEPT !.owned = TRUE, !.config = Default, !.hw = Default]
    PROVE  Keeps(d, e)
<1>0. d \in Shape
  BY ShapedFacts
<1>1. /\ e \in Shape /\ e.selected = d.selected /\ e.labels = d.labels
      /\ e.config = Default /\ e.ingress = d.ingress
      /\ e.native = d.native /\ e.mailbox = d.mailbox /\ e.live = d.live
  BY <1>0, ConfigAssumption DEF Shape, Device!NoConfig
<1>2. QED
  BY <1>1, ConfigAssumption DEF Shaped, Keeps

LEMMA EnumerateKeeps ==
    ASSUME NEW d, Shaped(d), NEW r \in Device!Enumerate(d)
    PROVE  Keeps(d, r.dev)
<1>1. PICK q \in Device!Library(d) : r \in IF q.ok THEN {q, Device!Err(q.dev)} ELSE {q}
  BY DEF Device!Enumerate
<1>2. q.dev \in {[d EXCEPT !.library = "open"], d}
  BY DEF Device!Library, Device!Ok, Device!Err
<1>3. r.dev = q.dev
  BY <1>1 DEF Device!Err
<1>4. QED
  BY <1>2, <1>3, LibraryKeeps DEF Keeps

\* Every result of a command is a success or an error.
Answers(results) == \A q \in results : q.ok \in BOOLEAN

LEMMA OutcomeAnswers ==
    ASSUME NEW d PROVE Device!Ok(d).ok \in BOOLEAN /\ Device!Err(d).ok \in BOOLEAN
  BY DEF Device!Ok, Device!Err

LEMMA StopAnswers == ASSUME NEW d PROVE Answers(Device!Stop(d))
  BY OutcomeAnswers DEF Answers, Device!Stop

LEMMA StartAnswers == ASSUME NEW d PROVE Answers(Device!Start(d))
<1>1. \A e : Answers(Device!StartRx(e))
  BY OutcomeAnswers DEF Answers, Device!StartRx
<1>2. QED
  BY <1>1, StopAnswers DEF Answers, Device!Start

LEMMA PublishAnswers ==
    ASSUME NEW results, Answers(results) PROVE Answers(Device!Publish(results))
  BY OutcomeAnswers DEF Answers, Device!Publish

LEMMA EnumerateAnswers == ASSUME NEW d PROVE Answers(Device!Enumerate(d))
<1>1. Answers(Device!Library(d))
  BY OutcomeAnswers DEF Answers, Device!Library
<1>2. QED
  BY <1>1, OutcomeAnswers DEF Answers, Device!Enumerate

LEMMA ConfigureAnswers == ASSUME NEW d, NEW c PROVE Answers(Device!Configure(d, c))
<1> DEFINE applied == UNION {IF q.ok THEN Device!ApplyOrClose(q.dev, c) ELSE {q} :
                                q \in Device!Stop(d)}
<1>1. ASSUME NEW e PROVE Answers(Device!ApplyOrClose(e, c))
  <2>1. Answers(Device!Apply(e, c))
    BY OutcomeAnswers DEF Answers, Device!Apply
  <2>2. QED
    BY <2>1, OutcomeAnswers DEF Answers, Device!ApplyOrClose
<1>2. Answers(applied)
  BY <1>1, StopAnswers DEF Answers
<1>3. \A e : Answers(Device!Publish(Device!Start(e)))
  BY StartAnswers, PublishAnswers
<1>4. \/ Device!Configure(d, c) = {Device!Err(d)} \/ Device!Configure(d, c) = applied
      \/ Device!Configure(d, c) =
            UNION {IF q.ok THEN Device!Publish(Device!Start(q.dev)) ELSE {q} : q \in applied}
  BY DEF Device!Configure
<1> HIDE DEF applied
<1>5. Answers(UNION {IF q.ok THEN Device!Publish(Device!Start(q.dev)) ELSE {q} :
                        q \in applied})
  BY <1>2, <1>3 DEF Answers
<1>6. Answers({Device!Err(d)})
  BY OutcomeAnswers DEF Answers
<1>7. QED
  BY <1>2, <1>4, <1>5, <1>6

LEMMA ResultsAnswer ==
    ASSUME NEW d, NEW o \in Device!Ops, NEW r \in Device!Results(d, o)
    PROVE  r.ok \in BOOLEAN
<1>1. CASE o = "select_mock"
  BY <1>1, OutcomeAnswers DEF Device!Results, Device!SelectMock
<1>2. CASE o = "select_hackrf"
  <2>1. r = Device!Err(d) \/ \E q \in Device!Enumerate(d) :
            r = IF q.ok THEN Device!Ok([q.dev EXCEPT !.selected = "hackrf"]) ELSE q
    BY <1>2 DEF Device!Results, Device!SelectHackrf
  <2>2. QED
    BY <2>1, EnumerateAnswers, OutcomeAnswers DEF Answers
<1>3. CASE o = "open"
  <2>1. r \in {Device!Ok(d), Device!Err(d)} \/ \E q \in Device!Enumerate(d) :
            r = IF q.ok THEN Device!Ok([q.dev EXCEPT !.owned = TRUE, !.config = Default,
                                        !.hw = Default])
                ELSE q
    BY <1>3 DEF Device!Results, Device!Open
  <2>2. QED
    BY <2>1, EnumerateAnswers, OutcomeAnswers DEF Answers
<1>4. CASE o = "close"
  BY <1>4, OutcomeAnswers DEF Device!Results, Device!Close, Device!CloseReceiver
<1>5. CASE o = "start"
  <2>1. r \in {Device!Ok(d), Device!Err(d)} \/ r \in Device!Publish(Device!Start(d))
    BY <1>5 DEF Device!Results, Device!StartStream
  <2>2. QED
    BY <2>1, StartAnswers, PublishAnswers, OutcomeAnswers DEF Answers
<1>6. CASE o = "stop"
  <2>1. r = Device!Ok(d) \/ r \in Device!Stop(d)
    BY <1>6 DEF Device!Results, Device!StopStream
  <2>2. QED
    BY <2>1, StopAnswers, OutcomeAnswers DEF Answers
<1>7. CASE o = "configure"
  <2>1. r = Device!Err(d) \/ \E c \in Configs : r \in Device!Configure(d, c)
    BY <1>7 DEF Device!Results
  <2>2. QED
    BY <2>1, ConfigureAnswers, OutcomeAnswers DEF Answers
<1>8. CASE o = "snapshot"
  BY <1>8, OutcomeAnswers DEF Device!Results
<1>9. CASE o = "inventory"
  BY <1>9, OutcomeAnswers DEF Device!Results, Device!Inventory
<1>10. CASE o = "shutdown"
  <2>1. PICK q \in Device!Close(d) :
            r \in IF q.dev.library = "open"
                  THEN {[q EXCEPT !.dev.library = "none"],
                        Device!Err([q.dev EXCEPT !.library = "stuck"])}
                  ELSE {q}
    BY <1>10 DEF Device!Results, Device!Shutdown
  <2>2. \E b \in BOOLEAN, e \in {d, Device!Closed(d)} : q = [dev |-> e, ok |-> b]
    BY DEF Device!Close, Device!CloseReceiver, Device!Ok, Device!Err
  <2>3. q.ok \in BOOLEAN /\ [q EXCEPT !.dev.library = "none"].ok = q.ok
    BY <2>2
  <2>4. QED
    BY <2>1, <2>3, OutcomeAnswers
<1>11. QED
  BY <1>1, <1>2, <1>3, <1>4, <1>5, <1>6, <1>7, <1>8, <1>9, <1>10 DEF Device!Ops

\* No command but a selection of hardware selects hardware (Worker::command).
LEMMA OnlySelectionSelects ==
    ASSUME NEW d, Shaped(d), NEW o \in Device!Ops, NEW r \in Device!Results(d, o)
    PROVE  /\ Shaped(r.dev)
           /\ r.dev.selected = "hackrf" => d.selected = "hackrf" \/ o = "select_hackrf"
<1>1. CASE o = "select_mock"
  <2>1. r.dev \in {d, [d EXCEPT !.selected = "mock"]}
    BY <1>1 DEF Device!Results, Device!SelectMock, Device!Ok, Device!Err
  <2>2. QED
    BY <2>1, SelectShaped
<1>2. CASE o = "select_hackrf"
  <2>1. CASE r = Device!Err(d)
    BY <1>2, <2>1 DEF Device!Err
  <2>2. CASE r # Device!Err(d)
    <3>1. PICK q \in Device!Enumerate(d) :
              r = IF q.ok THEN Device!Ok([q.dev EXCEPT !.selected = "hackrf"]) ELSE q
      BY <1>2, <2>2 DEF Device!Results, Device!SelectHackrf
    <3>2. Shaped(q.dev)
      BY EnumerateKeeps DEF Keeps
    <3>3. r.dev \in {q.dev, [q.dev EXCEPT !.selected = "hackrf"]}
      BY <3>1 DEF Device!Ok
    <3>4. QED
      BY <1>2, <3>2, <3>3, SelectShaped
  <2>3. QED
    BY <2>1, <2>2
<1>3. CASE o = "open"
  <2>1. CASE r \in {Device!Ok(d), Device!Err(d)}
    BY <2>1 DEF Device!Ok, Device!Err
  <2>2. CASE r \notin {Device!Ok(d), Device!Err(d)}
    <3>1. PICK q \in Device!Enumerate(d) :
              r = IF q.ok THEN Device!Ok([q.dev EXCEPT !.owned = TRUE,
                                          !.config = Default, !.hw = Default])
                  ELSE q
      BY <1>3, <2>2 DEF Device!Results, Device!Open
    <3>2. Keeps(d, q.dev)
      BY EnumerateKeeps
    <3>3. r.dev \in {q.dev, [q.dev EXCEPT !.owned = TRUE, !.config = Default,
                                          !.hw = Default]}
      BY <3>1 DEF Device!Ok
    <3>4. QED
      BY <3>2, <3>3, OpenedKeeps DEF Keeps
  <2>3. QED
    BY <2>1, <2>2
<1>4. CASE o = "close"
  <2>1. r.dev \in {d, Device!Closed(d)}
    BY <1>4 DEF Device!Results, Device!Close, Device!CloseReceiver, Device!Ok, Device!Err
  <2>2. QED
    BY <2>1, ClosedKeeps DEF Keeps
<1>5. CASE o = "start"
  <2>1. r.dev = d \/ (d.owned /\ r \in Device!Publish(Device!Start(d)))
    BY <1>5, ShapedFacts DEF Device!Results, Device!StartStream, Device!Ok, Device!Err, Shape
  <2>2. d.owned => \A q \in Device!Start(d) : Keeps(d, q.dev)
    BY StartKeeps
  <2>3. QED
    BY <2>1, <2>2, PublishKeeps DEF Keeps
<1>6. CASE o = "stop"
  <2>1. r.dev = d \/ r \in Device!Stop(d)
    BY <1>6 DEF Device!Results, Device!StopStream, Device!Ok
  <2>2. QED
    BY <2>1, StopKeeps DEF Keeps
<1>7. CASE o = "configure"
  <2>1. r = Device!Err(d) \/ \E c \in Configs : r \in Device!Configure(d, c)
    BY <1>7 DEF Device!Results
  <2>2. QED
    BY <2>1, ConfigureKeeps DEF Keeps, Device!Err
<1>8. CASE o = "snapshot"
  BY <1>8 DEF Device!Results, Device!Ok
<1>9. CASE o = "inventory"
  <2>1. PICK q \in Device!Enumerate(d) : r = Device!Ok(q.dev)
    BY <1>9 DEF Device!Results, Device!Inventory
  <2>2. QED
    BY <2>1, EnumerateKeeps DEF Device!Ok, Keeps
<1>10. CASE o = "shutdown"
  <2>1. PICK q \in Device!Close(d) :
            r \in IF q.dev.library = "open"
                  THEN {[q EXCEPT !.dev.library = "none"],
                        Device!Err([q.dev EXCEPT !.library = "stuck"])}
                  ELSE {q}
    BY <1>10 DEF Device!Results, Device!Shutdown
  <2>2. \E b \in BOOLEAN, e \in {d, Device!Closed(d)} : q = [dev |-> e, ok |-> b]
    BY DEF Device!Close, Device!CloseReceiver, Device!Ok, Device!Err
  <2>3. Keeps(d, q.dev)
    BY <2>2, ClosedKeeps DEF Keeps
  <2>4. r.dev \in {q.dev, [q.dev EXCEPT !.library = "none"],
                   [q.dev EXCEPT !.library = "stuck"]}
    BY <2>1, <2>2 DEF Device!Err
  <2>5. QED
    BY <2>3, <2>4, LibraryKeeps DEF Keeps
<1>11. QED
  BY <1>1, <1>2, <1>3, <1>4, <1>5, <1>6, <1>7, <1>8, <1>9, <1>10 DEF Device!Ops
----------------------------------------------------------------------------
(* The handlers. *)

Types ==
    /\ Shaped(dev) /\ tasks \in Seq(Task) /\ late \in BOOLEAN
    /\ hTodo \in Seq({"configure", "start", "stop"})
    /\ hPc = "patch" => hTodo # <<>>

\* Only the handler under the mutex owns a call, the last one; with a reply in hand
\* every call under way has been overtaken, and the reply does not take a hardware
\* selection for the mock unless an overtaken selection has been served.
Turns ==
    /\ \A i \in DOMAIN tasks :
          tasks[i].owned => i = Len(tasks) /\ hPc # "idle" /\ reply = NoReply
    /\ hPc = "idle" => reply = NoReply
    /\ reply # NoReply => \A i \in DOMAIN tasks : tasks[i].overtaken
    /\ reply # NoReply /\ ~late /\ dev.selected = "hackrf" => reply.driver # "mock"

\* A selection of hardware is under way that has its request's effects still.
Selecting == \E i \in DOMAIN tasks : tasks[i].op = "select_hackrf" /\ ~tasks[i].overtaken

SelectInv ==
    /\ Types /\ Turns
    /\ ~late /\ (dev.selected = "hackrf" \/ Selecting) => hardware /\ ~mockRunning

LEMMA EmptyFacts == ASSUME NEW S PROVE <<>> \in Seq(S) /\ DOMAIN <<>> = {}
  OBVIOUS

\* The calls that are left when one has been served.
LEMMA ServedFacts ==
    ASSUME tasks \in Seq(Task), NEW i \in DOMAIN tasks
    PROVE  /\ Served(i) \in Seq(Task) /\ Len(Served(i)) = Len(tasks) - 1
           /\ Len(tasks) \in Nat /\ DOMAIN tasks = 1..Len(tasks)
           /\ DOMAIN Served(i) = 1..(Len(tasks) - 1)
           /\ \A j \in 1..(Len(tasks) - 1) :
                 /\ j \in DOMAIN tasks /\ j + 1 \in DOMAIN tasks
                 /\ j < i => /\ Served(i)[j].op = tasks[j].op
                             /\ Served(i)[j].owned = tasks[j].owned
                             /\ Served(i)[j].overtaken = TRUE
                 /\ ~(j < i) => Served(i)[j] = tasks[j + 1]
<1>1. /\ Len(tasks) \in Nat /\ DOMAIN tasks = 1..Len(tasks) /\ i \in 1..Len(tasks)
      /\ \A j \in 1..Len(tasks) : tasks[j] \in Task
  BY LenProperties
<1>2. \A j \in 1..(Len(tasks) - 1) : j \in 1..Len(tasks) /\ j + 1 \in 1..Len(tasks)
  BY <1>1
<1>3. ASSUME NEW t \in Task
      PROVE  /\ [t EXCEPT !.overtaken = TRUE] \in Task
             /\ [t EXCEPT !.overtaken = TRUE].op = t.op
             /\ [t EXCEPT !.overtaken = TRUE].owned = t.owned
             /\ [t EXCEPT !.overtaken = TRUE].overtaken = TRUE
  BY DEF Task
<1>4. \A j \in 1..(Len(tasks) - 1) :
         (IF j < i THEN [tasks[j] EXCEPT !.overtaken = TRUE] ELSE tasks[j + 1]) \in Task
  BY <1>1, <1>2, <1>3
<1>5. Len(tasks) - 1 \in Nat
  BY <1>1
<1>6. Served(i) \in Seq(Task) /\ DOMAIN Served(i) = 1..(Len(tasks) - 1)
  BY <1>4, <1>5 DEF Served
<1>7. Len(Served(i)) = Len(tasks) - 1
  BY <1>5, <1>6, LenProperties
<1>8. \A j \in 1..(Len(tasks) - 1) :
         /\ j < i => Served(i)[j] = [tasks[j] EXCEPT !.overtaken = TRUE]
         /\ ~(j < i) => Served(i)[j] = tasks[j + 1]
  BY DEF Served
<1>9. ASSUME NEW j \in 1..(Len(tasks) - 1)
      PROVE  /\ j \in DOMAIN tasks /\ j + 1 \in DOMAIN tasks
             /\ j < i => /\ Served(i)[j].op = tasks[j].op
                         /\ Served(i)[j].owned = tasks[j].owned
                         /\ Served(i)[j].overtaken = TRUE
  BY <1>1, <1>2, <1>3, <1>8
<1>10. QED
  BY <1>1, <1>6, <1>7, <1>8, <1>9

LEMMA InitSelectInv == Init => SelectInv
<1> SUFFICES ASSUME Init PROVE SelectInv
  OBVIOUS
<1>1. Shaped(dev) /\ dev.selected = "mock"
  BY EmptyFacts DEF Init, Shaped, Shape
<1>2. /\ tasks = <<>> /\ hTodo = <<>> /\ hPc = "idle" /\ reply = NoReply
      /\ DOMAIN tasks = {} /\ late = FALSE
  BY EmptyFacts DEF Init
<1>3. Types
  BY <1>1, <1>2, EmptyFacts DEF Types
<1>4. Turns /\ ~Selecting
  BY <1>2 DEF Turns, Selecting
<1>5. QED
  BY <1>1, <1>3, <1>4 DEF SelectInv

\* A call is added when none is owned: at the start of a request, or with a reply.
LEMMA SpawnTurns ==
    ASSUME Types, Turns, NEW o \in Device!Ops, Spawn(o), hPc = "idle" \/ reply # NoReply,
           hPc' # "idle", reply' = NoReply
    PROVE  /\ tasks' \in Seq(Task)
           /\ \A i \in DOMAIN tasks' :
                 tasks'[i].owned => i = Len(tasks') /\ hPc' # "idle" /\ reply' = NoReply
           /\ Selecting' => Selecting \/ o = "select_hackrf"
<1> DEFINE t == [op |-> o, owned |-> TRUE, overtaken |-> FALSE]
<1>1. t \in Task /\ t.op = o
  BY DEF Task
<1>2. tasks' = Append(tasks, t) /\ tasks \in Seq(Task)
  BY DEF Spawn, Types
<1> HIDE DEF t
<1>3. /\ tasks' \in Seq(Task) /\ Len(tasks') = Len(tasks) + 1 /\ Len(tasks) \in Nat
      /\ DOMAIN tasks = 1..Len(tasks) /\ DOMAIN tasks' = 1..(Len(tasks) + 1)
      /\ \A i \in 1..Len(tasks) : tasks'[i] = tasks[i]
      /\ tasks'[Len(tasks) + 1] = t
  BY <1>1, <1>2, AppendProperties, LenProperties
<1>4. \A i \in DOMAIN tasks : ~tasks[i].owned
  BY <1>3 DEF Turns
<1>5. \A i \in DOMAIN tasks' : i \in DOMAIN tasks \/ i = Len(tasks')
  BY <1>3
<1>6. QED
  BY <1>1, <1>3, <1>4, <1>5 DEF Selecting

LEMMA PatchFacts ==
    ASSUME NEW ops \in Patches
    PROVE  ops \in Seq({"configure", "start", "stop"}) /\ ops # <<>>
<1>1. /\ \A a \in {"configure", "start", "stop"} :
            <<a>> \in Seq({"configure", "start", "stop"}) /\ <<a>> # <<>>
      /\ \A a, b \in {"configure", "start", "stop"} :
            <<a, b>> \in Seq({"configure", "start", "stop"}) /\ <<a, b>> # <<>>
  OBVIOUS
<1>2. QED
  BY <1>1 DEF Patches

LEMMA RequestSelectInv == SelectInv /\ Request => SelectInv'
<1> SUFFICES ASSUME SelectInv, Request PROVE SelectInv'
  OBVIOUS
<1> USE DEF SelectInv
<1>1. ASSUME NEW o \in ControlOps, Control(o) PROVE SelectInv'
  <2>1. /\ hPc = "idle" /\ hPc' = "control" /\ reply' = reply /\ hTodo' = hTodo
        /\ dev' = dev /\ Spawn(o) /\ o \in Device!Ops
    BY <1>1 DEF Control, Begin, ControlOps, Device!Ops
  <2>2. reply = NoReply
    BY <2>1 DEF Turns
  <2>3. /\ tasks' \in Seq(Task)
        /\ \A i \in DOMAIN tasks' :
              tasks'[i].owned => i = Len(tasks') /\ hPc' # "idle" /\ reply' = NoReply
        /\ Selecting' => Selecting \/ o = "select_hackrf"
    BY <2>1, <2>2, SpawnTurns
  <2>4. ~late' /\ (dev'.selected = "hackrf" \/ Selecting') => hardware' /\ ~mockRunning'
    <3>1. CASE o = "select_hackrf"
      BY <1>1, <3>1 DEF Control
    <3>2. CASE o # "select_hackrf"
      BY <1>1, <2>1, <2>3, <3>2 DEF Control, Types
    <3>3. QED
      BY <3>1, <3>2
  <2>5. QED
    BY <1>1, <2>1, <2>2, <2>3, <2>4 DEF Control, Types, Turns
<1>2. ASSUME NEW o \in {"snapshot"}, Begin, Spawn(o), reply' = reply,
             UNCHANGED <<late, dev, hardware, mockRunning>>, hPc' # "idle",
             hTodo' \in Seq({"configure", "start", "stop"}),
             hPc' = "patch" => hTodo' # <<>>
      PROVE  SelectInv'
  <2>1. reply = NoReply /\ hPc = "idle" /\ o \in Device!Ops
    BY <1>2 DEF Turns, Begin, Device!Ops
  <2>2. /\ tasks' \in Seq(Task)
        /\ \A i \in DOMAIN tasks' :
              tasks'[i].owned => i = Len(tasks') /\ hPc' # "idle" /\ reply' = NoReply
        /\ Selecting' => Selecting \/ o = "select_hackrf"
    BY <1>2, <2>1, SpawnTurns
  <2>3. QED
    BY <1>2, <2>1, <2>2 DEF Types, Turns
<1>3. ASSUME NEW ops \in Patches, PatchState(ops) PROVE SelectInv'
  BY <1>2, <1>3, PatchFacts DEF PatchState, engineVars
<1>4. CASE RecordingStart
  BY <1>2, <1>4 DEF RecordingStart, engineVars, Types
<1>5. CASE RecordingStop \/ PlaybackLoad \/ PlaybackCommand
  BY <1>5 DEF RecordingStop, PlaybackLoad, PlaybackCommand, Begin, Types, Turns, Selecting
<1>6. QED
  BY <1>1, <1>3, <1>4, <1>5 DEF Request

LEMMA HandlerSelectInv == SelectInv /\ Handler => SelectInv'
<1> SUFFICES ASSUME SelectInv, Handler PROVE SelectInv'
  OBVIOUS
<1> USE DEF SelectInv
<1>1. /\ reply # NoReply /\ hPc # "idle"
      /\ \A i \in DOMAIN tasks : tasks[i].overtaken /\ ~tasks[i].owned
      /\ ~late /\ dev.selected = "hackrf" => reply.driver # "mock"
  BY DEF Handler, ControlReply, PatchReply, ApplyReply, RecordingReply, Turns
<1>2. ~Selecting
  BY <1>1 DEF Selecting
<1>3. CASE ControlReply
  BY <1>1, <1>2, <1>3 DEF ControlReply, passVars, Types, Turns, Selecting
<1>4. ASSUME hTodo # <<>>, Spawn(Head(hTodo)), hTodo' = Tail(hTodo), hPc' = "apply",
             reply' = NoReply, UNCHANGED <<late, dev, hardware, mockRunning>>
      PROVE  SelectInv'
  <2>1. /\ Head(hTodo) \in {"configure", "start", "stop"}
        /\ Tail(hTodo) \in Seq({"configure", "start", "stop"})
    BY <1>4, HeadTailProperties, LenProperties DEF Types
  <2>2. /\ tasks' \in Seq(Task)
        /\ \A i \in DOMAIN tasks' :
              tasks'[i].owned => i = Len(tasks') /\ hPc' # "idle" /\ reply' = NoReply
        /\ Selecting' => Selecting \/ Head(hTodo) = "select_hackrf"
    BY <1>1, <1>4, <2>1, SpawnTurns DEF Device!Ops
  <2>3. QED
    BY <1>2, <1>4, <2>1, <2>2 DEF Types, Turns
<1>5. CASE PatchReply
  <2>1. CASE reply.driver = "mock"
    BY <1>1, <1>2, <1>5, <2>1, EmptyFacts DEF PatchReply, passVars, Types, Turns, Selecting
  <2>2. CASE reply.driver # "mock" /\ ~reply.opened
    <3>1. /\ hPc' = "idle" /\ hTodo' = <<>> /\ reply' = NoReply
          /\ UNCHANGED <<late, dev, tasks, hardware, mockRunning>>
      BY <1>5, <2>2 DEF PatchReply
    <3>2. QED
      BY <1>1, <1>2, <3>1, EmptyFacts DEF Types, Turns, Selecting
  <2>3. CASE reply.driver # "mock" /\ reply.opened
    BY <1>4, <1>5, <2>3 DEF PatchReply, passVars, Types
  <2>4. QED
    BY <2>1, <2>2, <2>3
<1>6. CASE ApplyReply
  <2>1. CASE reply.ok /\ hTodo # <<>>
    BY <1>4, <1>6, <2>1 DEF ApplyReply, engineVars, passVars
  <2>2. CASE ~reply.ok \/ hTodo = <<>>
    BY <1>1, <1>2, <1>6, <2>2, EmptyFacts
       DEF ApplyReply, engineVars, passVars, Types, Turns, Selecting
  <2>3. QED
    BY <2>1, <2>2
<1>7. CASE RecordingReply
  BY <1>1, <1>2, <1>7 DEF RecordingReply, passVars, Types, Turns, Selecting
<1>8. QED
  BY <1>3, <1>5, <1>6, <1>7 DEF Handler

LEMMA CancelSelectInv == SelectInv /\ Cancel => SelectInv'
<1> SUFFICES ASSUME SelectInv, Cancel PROVE SelectInv'
  OBVIOUS
<1>1. /\ tasks \in Seq(Task) /\ DOMAIN tasks = 1..Len(tasks) /\ Len(tasks) \in Nat
      /\ \A i \in DOMAIN tasks : tasks[i] \in Task
  BY DEF SelectInv, Types
<1>2. tasks' = [i \in 1..Len(tasks) |-> [tasks[i] EXCEPT !.owned = FALSE]]
  BY <1>1 DEF Cancel
<1>3. \A i \in 1..Len(tasks) :
         /\ tasks'[i] \in Task /\ tasks'[i].op = tasks[i].op /\ tasks'[i].owned = FALSE
         /\ tasks'[i].overtaken = tasks[i].overtaken
  BY <1>1, <1>2 DEF Task
<1>4. tasks' \in Seq(Task) /\ DOMAIN tasks' = DOMAIN tasks
  BY <1>1, <1>2, <1>3
<1>5. /\ hPc' = "idle" /\ hTodo' = <<>> /\ reply' = NoReply
      /\ UNCHANGED <<late, dev, hardware, mockRunning>>
  BY DEF Cancel, engineVars
<1>6. Types'
  BY <1>4, <1>5, EmptyFacts DEF SelectInv, Types
<1>7. Turns'
  BY <1>1, <1>3, <1>4, <1>5 DEF Turns
<1>8. Selecting' => Selecting
  BY <1>1, <1>3, <1>4 DEF Selecting
<1>9. QED
  BY <1>5, <1>6, <1>7, <1>8 DEF SelectInv

LEMMA PerformSelectInv == SelectInv /\ Perform => SelectInv'
<1> SUFFICES ASSUME SelectInv, Perform PROVE SelectInv'
  OBVIOUS
<1>1. PICK i \in DOMAIN tasks : \E r \in Device!Results(dev, tasks[i].op) :
          /\ dev' = r.dev
          /\ tasks' = Served(i)
          /\ late' = (late \/ (tasks[i].overtaken /\ tasks[i].op = "select_hackrf"))
          /\ reply' = IF tasks[i].owned
                      THEN [ok |-> r.ok, driver |-> r.dev.selected,
                            opened |-> r.dev.config # Device!NoConfig]
                      ELSE reply
          /\ UNCHANGED <<hPc, hTodo, requests, engineVars, passVars>>
  BY DEF Perform
<1>2. PICK r \in Device!Results(dev, tasks[i].op) :
          /\ dev' = r.dev
          /\ reply' = IF tasks[i].owned
                      THEN [ok |-> r.ok, driver |-> r.dev.selected,
                            opened |-> r.dev.config # Device!NoConfig]
                      ELSE reply
  BY <1>1
<1>3. /\ tasks' = Served(i)
      /\ late' = (late \/ (tasks[i].overtaken /\ tasks[i].op = "select_hackrf"))
      /\ UNCHANGED <<hPc, hTodo, hardware, mockRunning>>
  BY <1>1 DEF engineVars
<1>4. tasks \in Seq(Task) /\ tasks[i] \in Task /\ late \in BOOLEAN
  BY <1>1 DEF SelectInv, Types
<1>5. tasks[i].op \in Device!Ops /\ tasks[i].overtaken \in BOOLEAN
  BY <1>4 DEF Task
<1>6. /\ Shaped(dev')
      /\ dev'.selected = "hackrf" => dev.selected = "hackrf" \/ tasks[i].op = "select_hackrf"
  BY <1>2, <1>5, OnlySelectionSelects DEF SelectInv, Types
<1>7. /\ tasks' \in Seq(Task) /\ Len(tasks') = Len(tasks) - 1
      /\ Len(tasks) \in Nat /\ DOMAIN tasks = 1..Len(tasks)
      /\ DOMAIN tasks' = 1..(Len(tasks) - 1)
      /\ \A j \in 1..(Len(tasks) - 1) :
            /\ j \in DOMAIN tasks /\ j + 1 \in DOMAIN tasks
            /\ j < i => /\ tasks'[j].op = tasks[j].op
                        /\ tasks'[j].owned = tasks[j].owned
                        /\ tasks'[j].overtaken = TRUE
            /\ ~(j < i) => tasks'[j] = tasks[j + 1]
  BY <1>1, <1>3, <1>4, ServedFacts
<1>8. Types'
  BY <1>3, <1>4, <1>5, <1>6, <1>7 DEF SelectInv, Types
<1>9. dev'.selected = "hackrf" /\ ~late' => hardware /\ ~mockRunning
  BY <1>1, <1>3, <1>6 DEF SelectInv, Selecting
<1>10. Selecting' => Selecting
  BY <1>7 DEF Selecting
<1>11. \A j \in DOMAIN tasks' : tasks'[j].owned => j = Len(tasks') /\ hPc # "idle"
  <2>1. ASSUME NEW j \in DOMAIN tasks', tasks'[j].owned, j < i PROVE FALSE
    <3>1. j = Len(tasks)
      BY <1>7, <2>1 DEF SelectInv, Turns
    <3>2. QED
      BY <1>7, <2>1, <3>1
  <2>2. ASSUME NEW j \in DOMAIN tasks', tasks'[j].owned, ~(j < i)
        PROVE  j + 1 = Len(tasks) /\ hPc # "idle"
    BY <1>7, <2>2 DEF SelectInv, Turns
  <2>3. ASSUME NEW j \in DOMAIN tasks', tasks'[j].owned
        PROVE  j = Len(tasks') /\ hPc # "idle"
    <3>1. j + 1 = Len(tasks) /\ hPc # "idle"
      BY <2>1, <2>2, <2>3
    <3>2. QED
      BY <1>7, <2>3, <3>1
  <2>4. QED
    BY <2>3
<1>12. Turns'
  <2>1. CASE tasks[i].owned
    <3>1. i = Len(tasks) /\ hPc # "idle"
      BY <1>1, <2>1 DEF SelectInv, Turns
    <3>2. \A j \in DOMAIN tasks' : j < i
      BY <1>7, <3>1
    <3>3. \A j \in DOMAIN tasks' : tasks'[j].overtaken /\ j # Len(tasks)
      BY <1>7, <3>1, <3>2
    <3>4. \A j \in DOMAIN tasks' : ~tasks'[j].owned
      BY <1>7, <3>2, <3>3 DEF SelectInv, Turns
    <3>5. reply'.driver = dev'.selected
      BY <1>2, <2>1
    <3>6. QED
      BY <1>3, <3>1, <3>3, <3>4, <3>5 DEF Turns
  <2>2. CASE ~tasks[i].owned
    <3>1. reply' = reply
      BY <1>2, <2>2
    <3>2. \A j \in DOMAIN tasks' : tasks'[j].owned => reply = NoReply
      BY <1>7 DEF SelectInv, Turns
    <3>3. reply # NoReply => \A j \in DOMAIN tasks' : tasks'[j].overtaken
      BY <1>7 DEF SelectInv, Turns
    <3>4. reply # NoReply /\ ~late' /\ dev'.selected = "hackrf" => reply.driver # "mock"
      BY <1>1, <1>3, <1>6 DEF SelectInv, Turns
    <3>5. hPc' = "idle" => reply' = NoReply
      BY <1>3, <3>1 DEF SelectInv, Turns
    <3>6. QED
      BY <1>3, <1>11, <3>1, <3>2, <3>3, <3>4, <3>5 DEF Turns
  <2>3. QED
    BY <2>1, <2>2
<1>13. QED
  BY <1>3, <1>4, <1>8, <1>9, <1>10, <1>12 DEF SelectInv

LEMMA PassSelectInv == SelectInv /\ (EnginePass \/ UNCHANGED vars) => SelectInv'
<1> SUFFICES ASSUME SelectInv, EnginePass \/ UNCHANGED vars PROVE SelectInv'
  OBVIOUS
<1>1. /\ UNCHANGED <<tasks, hPc, hTodo, reply, late, hardware, mockRunning>>
      /\ dev' \in {dev, [dev EXCEPT !.mailbox = 0]}
  <2>1. CASE TakeStream
    BY <2>1 DEF TakeStream, handlerVars, engineVars
  <2>2. CASE ReadFlag \/ ReadState \/ ReadLoaded \/ ReadPlaying \/ ReadBlock
    BY <2>2 DEF ReadFlag, ReadState, ReadLoaded, ReadPlaying, ReadBlock, handlerVars,
                engineVars
  <2>3. CASE UNCHANGED vars
    BY <2>3 DEF vars, handlerVars, engineVars
  <2>4. QED
    BY <2>1, <2>2, <2>3 DEF EnginePass
<1>2. Shaped(dev') /\ dev'.selected = dev.selected
  BY <1>1, MailboxKeeps DEF SelectInv, Types, Keeps
<1>3. QED
  BY <1>1, <1>2 DEF SelectInv, Types, Turns, Selecting

\* While the worker has the hardware selected, the mock is paused and the engine turned
\* to the hardware, whatever requests come, fail or are cancelled and in whatever order
\* the pool delivers their device calls (main.rs, control and patch_state), but for a
\* selection of a cancelled request that is served after the call of a later request.
THEOREM NoMockTheorem == Spec => []NoMockUnderHardware
<1>1. SelectInv /\ [Next]_vars => SelectInv'
  BY RequestSelectInv, HandlerSelectInv, CancelSelectInv, PerformSelectInv, PassSelectInv
     DEF Next
<1>2. SelectInv => NoMockUnderHardware
  BY DEF SelectInv, NoMockUnderHardware
<1>3. QED
  BY <1>1, <1>2, InitSelectInv, PTL DEF Spec
----------------------------------------------------------------------------
(* Types, in whatever order the blocking pool delivers its calls.             *)

Owned == {i \in DOMAIN tasks : tasks[i].owned}

\* A handler under the mutex awaits its one call, until it has the reply.
WorkInv ==
    /\ Types /\ Len(dev.labels) <= MaxStreams
    /\ hPc \in {"idle", "control", "patch", "apply", "record"} /\ requests \in Nat
    /\ reply \in [ok : BOOLEAN, driver : {"none", "mock", "hackrf"}, opened : BOOLEAN]
    /\ hPc = "idle" => reply = NoReply
    /\ hPc # "idle" /\ reply = NoReply => \E k : Owned = {k}
    /\ hPc = "idle" \/ reply # NoReply => Owned = {}

EngineInv ==
    /\ hardware \in BOOLEAN /\ mockRunning \in BOOLEAN /\ recording \in Nat
    /\ playback \in [load : Nat, playing : BOOLEAN]
    /\ loads \in [recordings : Nat, files : Nat]
    /\ ePc \in {"mailbox", "flag", "state", "loaded", "playing", "read"}
    /\ eHardware \in BOOLEAN /\ eRunning \in BOOLEAN /\ eLoaded \in BOOLEAN
    /\ ePlaying \in BOOLEAN /\ engineSrc \in Streams \cup {0}
    /\ slots \in [Streams -> Nat] /\ source \in Source

LEMMA NoReplyType ==
    NoReply \in [ok : BOOLEAN, driver : {"none", "mock", "hackrf"}, opened : BOOLEAN]
  BY DEF NoReply

LEMMA InitTypes == Init => WorkInv /\ EngineInv
<1> SUFFICES ASSUME Init PROVE WorkInv /\ EngineInv
  OBVIOUS
<1>1. Types /\ Len(dev.labels) = 0
  BY InitSelectInv DEF SelectInv, Init
<1>2. Owned = {} /\ reply = NoReply /\ hPc = "idle" /\ requests = 0
  BY EmptyFacts DEF Init, Owned
<1>3. WorkInv
  BY <1>1, <1>2, NoReplyType, BoundAssumption DEF WorkInv
<1>4. EngineInv
  BY DEF Init, EngineInv, Nothing, Source
<1>5. QED
  BY <1>3, <1>4

LEMMA SpawnOwned ==
    ASSUME Types, Owned = {}, NEW o \in Device!Ops, Spawn(o)
    PROVE  tasks' \in Seq(Task) /\ \E k : Owned' = {k}
<1> DEFINE t == [op |-> o, owned |-> TRUE, overtaken |-> FALSE]
<1>1. t \in Task /\ t.owned = TRUE
  BY DEF Task
<1>2. tasks' = Append(tasks, t) /\ tasks \in Seq(Task)
  BY DEF Spawn, Types
<1> HIDE DEF t
<1>3. /\ tasks' \in Seq(Task) /\ Len(tasks) \in Nat
      /\ DOMAIN tasks = 1..Len(tasks) /\ DOMAIN tasks' = 1..(Len(tasks) + 1)
      /\ \A i \in 1..Len(tasks) : tasks'[i] = tasks[i]
      /\ tasks'[Len(tasks) + 1] = t
  BY <1>1, <1>2, AppendProperties, LenProperties
<1>4. \A i \in DOMAIN tasks : ~tasks[i].owned
  BY DEF Owned
<1>5. Owned' = {Len(tasks) + 1}
  BY <1>1, <1>3, <1>4 DEF Owned
<1>6. QED
  BY <1>3, <1>5

\* A request that asks the device, and one that does not.
LEMMA RequestTypes == WorkInv /\ EngineInv /\ Request => WorkInv' /\ EngineInv'
<1> SUFFICES ASSUME WorkInv, EngineInv, Request PROVE WorkInv' /\ EngineInv'
  OBVIOUS
<1>1. ASSUME NEW o \in Device!Ops, hPc = "idle", requests' \in Nat, Spawn(o),
             UNCHANGED <<reply, dev>>, late' \in BOOLEAN,
             hPc' \in {"control", "patch", "record"},
             hTodo' \in Seq({"configure", "start", "stop"}), hPc' = "patch" => hTodo' # <<>>
      PROVE  WorkInv'
  <2>1. Types /\ Owned = {} /\ reply = NoReply
    BY <1>1 DEF WorkInv
  <2>2. tasks' \in Seq(Task) /\ \E k : Owned' = {k}
    BY <1>1, <2>1, SpawnOwned
  <2>3. Types'
    BY <1>1, <2>1, <2>2 DEF Types
  <2>4. QED
    BY <1>1, <2>1, <2>2, <2>3 DEF WorkInv
<1>2. ASSUME hPc = "idle", requests' \in Nat, UNCHANGED <<late, tasks, hPc, hTodo, reply, dev>>
      PROVE  WorkInv'
  BY <1>2 DEF WorkInv, Types, Owned
<1>3. late \in BOOLEAN /\ (Begin => hPc = "idle" /\ requests' \in Nat)
  BY DEF Begin, WorkInv, Types
<1>4. ASSUME NEW o \in ControlOps, Control(o) PROVE WorkInv' /\ EngineInv'
  <2>1. o \in Device!Ops /\ hTodo' = hTodo /\ hTodo \in Seq({"configure", "start", "stop"})
    BY <1>4 DEF Control, ControlOps, Device!Ops, WorkInv, Types
  <2>2. WorkInv'
    BY <1>1, <1>3, <1>4, <2>1 DEF Control
  <2>3. EngineInv'
    BY <1>4 DEF Control, EngineInv, passVars
  <2>4. QED
    BY <2>2, <2>3
<1>5. ASSUME NEW ops \in Patches, PatchState(ops) PROVE WorkInv' /\ EngineInv'
  <2>1. ops \in Seq({"configure", "start", "stop"}) /\ ops # <<>>
    BY PatchFacts
  <2>2. "snapshot" \in Device!Ops
    BY DEF Device!Ops
  <2>3. WorkInv'
    BY <1>1, <1>3, <1>5, <2>1, <2>2 DEF PatchState
  <2>4. EngineInv'
    BY <1>5 DEF PatchState, EngineInv, engineVars, passVars
  <2>5. QED
    BY <2>3, <2>4
<1>6. CASE RecordingStart
  <2>1. "snapshot" \in Device!Ops /\ hTodo \in Seq({"configure", "start", "stop"})
    BY DEF Device!Ops, WorkInv, Types
  <2>2. WorkInv'
    BY <1>1, <1>3, <1>6, <2>1 DEF RecordingStart
  <2>3. EngineInv'
    BY <1>6 DEF RecordingStart, EngineInv, engineVars, passVars
  <2>4. QED
    BY <2>2, <2>3
<1>7. CASE RecordingStop \/ PlaybackLoad \/ PlaybackCommand
  <2>1. WorkInv'
    BY <1>2, <1>3, <1>7 DEF RecordingStop, PlaybackLoad, PlaybackCommand
  <2>2. recording' \in Nat /\ UNCHANGED <<hardware, mockRunning, passVars>>
    BY <1>7 DEF RecordingStop, PlaybackLoad, PlaybackCommand, EngineInv
  <2>3. loads' \in [recordings : Nat, files : Nat]
    <3>1. CASE PlaybackLoad
      BY <3>1 DEF PlaybackLoad, EngineInv
    <3>2. CASE RecordingStop \/ PlaybackCommand
      BY <3>2 DEF RecordingStop, PlaybackCommand, EngineInv
    <3>3. QED
      BY <1>7, <3>1, <3>2
  <2>4. playback' \in [load : Nat, playing : BOOLEAN]
    <3>1. CASE PlaybackLoad
      <4>1. loads.files + 1 \in Nat
        BY DEF EngineInv
      <4>2. QED
        BY <3>1, <4>1 DEF PlaybackLoad
    <3>2. CASE RecordingStop
      BY <3>2 DEF RecordingStop, EngineInv
    <3>3. CASE PlaybackCommand
      <4>1. playback \in [load : Nat, playing : BOOLEAN]
        BY DEF EngineInv
      <4>2. /\ [playback EXCEPT !.playing = TRUE] \in [load : Nat, playing : BOOLEAN]
            /\ [playback EXCEPT !.playing = FALSE] \in [load : Nat, playing : BOOLEAN]
            /\ [load |-> 0, playing |-> FALSE] \in [load : Nat, playing : BOOLEAN]
        BY <4>1
      <4>3. QED
        BY <3>3, <4>2 DEF PlaybackCommand
    <3>4. QED
      BY <1>7, <3>1, <3>2, <3>3
  <2>5. EngineInv'
    BY <2>2, <2>3, <2>4 DEF EngineInv, passVars
  <2>6. QED
    BY <2>1, <2>5
<1>8. QED
  BY <1>4, <1>5, <1>6, <1>7 DEF Request

LEMMA HandlerTypes == WorkInv /\ EngineInv /\ Handler => WorkInv' /\ EngineInv'
<1> SUFFICES ASSUME WorkInv, EngineInv, Handler PROVE WorkInv' /\ EngineInv'
  OBVIOUS
<1>1. /\ hPc # "idle" /\ reply # NoReply /\ reply' = NoReply /\ Owned = {} /\ Types
      /\ UNCHANGED <<late, requests, dev>>
  BY DEF Handler, ControlReply, PatchReply, ApplyReply, RecordingReply, WorkInv
\* The handler ends.
<1>2. ASSUME hPc' = "idle", tasks' = tasks, hTodo' = <<>> \/ hTodo' = hTodo
      PROVE  WorkInv'
  <2>1. hTodo' \in Seq({"configure", "start", "stop"})
    BY <1>1, <1>2, EmptyFacts DEF Types
  <2>2. Types'
    BY <1>1, <1>2, <2>1 DEF Types
  <2>3. Owned' = {}
    BY <1>1, <1>2 DEF Owned
  <2>4. QED
    BY <1>1, <1>2, <2>2, <2>3, NoReplyType DEF WorkInv
\* It sends the next command.
<1>3. ASSUME hTodo # <<>>, Spawn(Head(hTodo)), hTodo' = Tail(hTodo), hPc' = "apply"
      PROVE  WorkInv'
  <2>1. /\ Head(hTodo) \in {"configure", "start", "stop"}
        /\ Tail(hTodo) \in Seq({"configure", "start", "stop"})
    BY <1>1, <1>3, HeadTailProperties DEF Types
  <2>2. tasks' \in Seq(Task) /\ \E k : Owned' = {k}
    BY <1>1, <1>3, <2>1, SpawnOwned DEF Device!Ops
  <2>3. Types'
    BY <1>1, <1>3, <2>1, <2>2 DEF Types
  <2>4. QED
    BY <1>1, <1>3, <2>2, <2>3, NoReplyType DEF WorkInv
<1>4. CASE ControlReply
  <2>1. WorkInv'
    BY <1>2, <1>4 DEF ControlReply
  <2>2. EngineInv'
    BY <1>4 DEF ControlReply, EngineInv, passVars
  <2>3. QED
    BY <2>1, <2>2
<1>5. CASE PatchReply
  <2>1. WorkInv'
    <3>1. CASE reply.driver = "mock"
      <4>1. hPc' = "idle" /\ tasks' = tasks /\ hTodo' = <<>>
        BY <1>5, <3>1 DEF PatchReply
      <4>2. QED
        BY <1>2, <4>1
    <3>2. CASE reply.driver # "mock" /\ ~reply.opened
      <4>1. hPc' = "idle" /\ tasks' = tasks /\ hTodo' = <<>>
        BY <1>5, <3>2 DEF PatchReply
      <4>2. QED
        BY <1>2, <4>1
    <3>3. CASE reply.driver # "mock" /\ reply.opened
      <4>1. hTodo # <<>>
        BY <1>1, <1>5 DEF PatchReply, Types
      <4>2. Spawn(Head(hTodo)) /\ hTodo' = Tail(hTodo) /\ hPc' = "apply"
        BY <1>5, <3>3 DEF PatchReply
      <4>3. QED
        BY <1>3, <4>1, <4>2
    <3>4. QED
      BY <3>1, <3>2, <3>3
  <2>2. mockRunning' \in BOOLEAN
    BY <1>5 DEF PatchReply, EngineInv
  <2>3. EngineInv'
    BY <1>5, <2>2 DEF PatchReply, EngineInv, passVars
  <2>4. QED
    BY <2>1, <2>3
<1>6. CASE ApplyReply
  <2>1. WorkInv'
    BY <1>2, <1>3, <1>6 DEF ApplyReply
  <2>2. EngineInv'
    BY <1>6 DEF ApplyReply, EngineInv, engineVars, passVars
  <2>3. QED
    BY <2>1, <2>2
<1>7. CASE RecordingReply
  <2>1. WorkInv'
    BY <1>2, <1>7 DEF RecordingReply
  <2>2. loads' \in [recordings : Nat, files : Nat] /\ recording' \in Nat
    BY <1>7 DEF RecordingReply, EngineInv
  <2>3. EngineInv'
    BY <1>7, <2>2 DEF RecordingReply, EngineInv, passVars
  <2>4. QED
    BY <2>1, <2>3
<1>8. QED
  BY <1>4, <1>5, <1>6, <1>7 DEF Handler

LEMMA CancelTypes == WorkInv /\ EngineInv /\ Cancel => WorkInv' /\ EngineInv'
<1> SUFFICES ASSUME WorkInv, EngineInv, Cancel PROVE WorkInv' /\ EngineInv'
  OBVIOUS
<1>1. /\ tasks \in Seq(Task) /\ DOMAIN tasks = 1..Len(tasks) /\ Len(tasks) \in Nat
      /\ \A i \in DOMAIN tasks : tasks[i] \in Task
  BY DEF WorkInv, Types
<1>2. tasks' = [i \in 1..Len(tasks) |-> [tasks[i] EXCEPT !.owned = FALSE]]
  BY <1>1 DEF Cancel
<1>3. \A i \in 1..Len(tasks) : tasks'[i] \in Task /\ tasks'[i].owned = FALSE
  BY <1>1, <1>2 DEF Task
<1>4. tasks' \in Seq(Task) /\ DOMAIN tasks' = 1..Len(tasks)
  BY <1>1, <1>2, <1>3
<1>5. Owned' = {}
  BY <1>3, <1>4 DEF Owned
<1>6. /\ hPc' = "idle" /\ hTodo' = <<>> /\ reply' = NoReply
      /\ UNCHANGED <<late, dev, requests>>
  BY DEF Cancel
<1>7. Types'
  BY <1>4, <1>6, EmptyFacts DEF WorkInv, Types
<1>8. WorkInv'
  BY <1>5, <1>6, <1>7, NoReplyType DEF WorkInv
<1>9. EngineInv'
  BY DEF Cancel, EngineInv, engineVars, passVars
<1>10. QED
  BY <1>8, <1>9

\* Whichever call the pool delivers, its place is closed up.
LEMMA RemoveOwned ==
    ASSUME tasks \in Seq(Task), NEW i \in DOMAIN tasks,
           tasks' = Served(i)
    PROVE  /\ tasks' \in Seq(Task)
           /\ Owned = {i} \/ Owned = {} => Owned' = {}
           /\ \A k : Owned = {k} /\ k # i => Owned' = {IF k < i THEN k ELSE k - 1}
<1>1. /\ Len(tasks) \in Nat /\ DOMAIN tasks = 1..Len(tasks) /\ i \in 1..Len(tasks)
      /\ DOMAIN tasks' = 1..(Len(tasks) - 1)
      /\ \A j \in 1..(Len(tasks) - 1) :
            /\ j \in 1..Len(tasks) /\ j + 1 \in 1..Len(tasks)
            /\ tasks'[j].owned = IF j < i THEN tasks[j].owned ELSE tasks[j + 1].owned
  BY ServedFacts
<1>2. tasks' \in Seq(Task)
  BY ServedFacts
<1>4. \A j : j \in Owned' <=> /\ j \in 1..(Len(tasks) - 1)
                              /\ IF j < i THEN j \in Owned ELSE j + 1 \in Owned
  BY <1>1 DEF Owned
<1>5. ASSUME Owned = {i} \/ Owned = {} PROVE Owned' = {}
  <2>1. \A j \in 1..(Len(tasks) - 1) : j < i => j # i
    BY <1>1
  <2>2. \A j \in 1..(Len(tasks) - 1) : ~(j < i) => j + 1 # i
    BY <1>1
  <2>3. QED
    BY <1>4, <1>5, <2>1, <2>2
<1>6. ASSUME NEW k, Owned = {k}, k # i PROVE Owned' = {IF k < i THEN k ELSE k - 1}
  <2>1. k \in 1..Len(tasks)
    BY <1>1, <1>6 DEF Owned
  <2> DEFINE m == IF k < i THEN k ELSE k - 1
  <2>2. m \in 1..(Len(tasks) - 1) /\ (IF m < i THEN m = k ELSE m + 1 = k)
    BY <1>1, <1>6, <2>1
  <2>3. \A j \in 1..(Len(tasks) - 1) : (IF j < i THEN j = k ELSE j + 1 = k) => j = m
    BY <1>1, <1>6, <2>1
  <2> HIDE DEF m
  <2>4. m \in Owned'
    BY <1>4, <1>6, <2>2
  <2>5. ASSUME NEW j \in Owned' PROVE j = m
    BY <1>4, <1>6, <2>3, <2>5
  <2>6. Owned' = {m}
    BY <2>4, <2>5
  <2>7. QED
    BY <2>6 DEF m
<1>7. QED
  BY <1>2, <1>5, <1>6

LEMMA PerformTypes == WorkInv /\ EngineInv /\ Perform => WorkInv' /\ EngineInv'
<1> SUFFICES ASSUME WorkInv, EngineInv, Perform PROVE WorkInv' /\ EngineInv'
  OBVIOUS
<1>1. PICK i \in DOMAIN tasks : \E r \in Device!Results(dev, tasks[i].op) :
          /\ Len(r.dev.labels) <= MaxStreams
          /\ dev' = r.dev
          /\ tasks' = Served(i)
          /\ late' = (late \/ (tasks[i].overtaken /\ tasks[i].op = "select_hackrf"))
          /\ reply' = IF tasks[i].owned
                      THEN [ok |-> r.ok, driver |-> r.dev.selected,
                            opened |-> r.dev.config # Device!NoConfig]
                      ELSE reply
          /\ UNCHANGED <<hPc, hTodo, requests, engineVars, passVars>>
  BY DEF Perform
<1>2. PICK r \in Device!Results(dev, tasks[i].op) :
          /\ Len(r.dev.labels) <= MaxStreams
          /\ dev' = r.dev
          /\ reply' = IF tasks[i].owned
                      THEN [ok |-> r.ok, driver |-> r.dev.selected,
                            opened |-> r.dev.config # Device!NoConfig]
                      ELSE reply
  BY <1>1
<1>3. /\ tasks' = Served(i) /\ late' \in BOOLEAN
      /\ UNCHANGED <<hPc, hTodo, requests, engineVars, passVars>>
  BY <1>1
<1>4. tasks \in Seq(Task) /\ tasks[i] \in Task /\ Types
  BY <1>1 DEF WorkInv, Types
<1>5. Shaped(r.dev) /\ r.ok \in BOOLEAN
  BY <1>2, <1>4, OnlySelectionSelects, ResultsAnswer DEF Task, Types
<1>6. Types' /\ Len(dev'.labels) <= MaxStreams
  BY <1>2, <1>3, <1>4, <1>5, RemoveOwned DEF Types
<1>7. CASE tasks[i].owned
  <2>1. hPc # "idle" /\ reply = NoReply /\ Owned = {i}
    BY <1>1, <1>7 DEF WorkInv, Owned
  <2>2. Owned' = {}
    BY <1>3, <1>4, <2>1, RemoveOwned
  <2>3. r.dev.selected \in {"mock", "hackrf"}
    BY <1>5 DEF Shaped, Shape
  <2>4. /\ reply' \in [ok : BOOLEAN, driver : {"none", "mock", "hackrf"}, opened : BOOLEAN]
        /\ reply' # NoReply
    BY <1>2, <1>5, <1>7, <2>3 DEF NoReply
  <2>5. QED
    BY <1>3, <1>6, <2>1, <2>2, <2>4 DEF WorkInv, EngineInv, engineVars, passVars
<1>8. CASE ~tasks[i].owned
  <2>1. i \notin Owned /\ reply' = reply
    BY <1>2, <1>8 DEF Owned
  <2>2. Owned = {} => Owned' = {}
    BY <1>3, <1>4, RemoveOwned
  <2>3. ASSUME NEW k, Owned = {k} PROVE \E m : Owned' = {m}
    BY <1>3, <1>4, <2>1, <2>3, RemoveOwned
  <2>4. WorkInv'
    BY <1>3, <1>6, <2>1, <2>2, <2>3 DEF WorkInv
  <2>5. EngineInv'
    BY <1>3 DEF EngineInv, engineVars, passVars
  <2>6. QED
    BY <2>4, <2>5
<1>9. QED
  BY <1>7, <1>8

LEMMA PassTypes ==
    WorkInv /\ EngineInv /\ (EnginePass \/ UNCHANGED vars) => WorkInv' /\ EngineInv'
<1> SUFFICES ASSUME WorkInv, EngineInv, EnginePass \/ UNCHANGED vars
             PROVE  WorkInv' /\ EngineInv'
  OBVIOUS
<1>1. UNCHANGED handlerVars /\ tasks' = tasks /\ dev' \in {dev, [dev EXCEPT !.mailbox = 0]}
  BY DEF EnginePass, TakeStream, ReadFlag, ReadState, ReadLoaded, ReadPlaying, ReadBlock,
     vars
<1>2. WorkInv'
  <2>1. Shaped(dev') /\ dev'.labels = dev.labels
    BY <1>1, MailboxKeeps DEF WorkInv, Types, Keeps
  <2>2. QED
    BY <1>1, <2>1 DEF WorkInv, Types, Owned, handlerVars
<1>3. CASE TakeStream
  <2>1. dev.mailbox \in Streams \cup {0}
    BY ShapedFacts, BoundAssumption DEF WorkInv, Types, Shaped, Shape, Streams
  <2>2. engineSrc' \in Streams \cup {0} /\ slots' \in [Streams -> Nat]
    BY <1>3, <2>1 DEF TakeStream, EngineInv
  <2>3. QED
    BY <1>2, <1>3, <2>2 DEF TakeStream, EngineInv, engineVars
<1>4. CASE ReadFlag \/ ReadState
  BY <1>2, <1>4 DEF ReadFlag, ReadState, EngineInv, engineVars
<1>5. CASE ReadLoaded \/ ReadPlaying
  BY <1>2, <1>5 DEF ReadLoaded, ReadPlaying, EngineInv, engineVars
<1>6. CASE ReadBlock
  <2>1. source' \in Source /\ slots' \in [Streams -> Nat]
    BY <1>6 DEF ReadBlock, ReadFile, ReadHardware, ReadMock, Stream, Nothing, Source,
       EngineInv
  <2>2. QED
    BY <1>2, <1>6, <2>1 DEF ReadBlock, EngineInv, engineVars
<1>7. CASE UNCHANGED vars
  BY <1>2, <1>7 DEF vars, engineVars, passVars, EngineInv
<1>8. QED
  BY <1>3, <1>4, <1>5, <1>6, <1>7 DEF EnginePass

\* Every variable keeps its type, and a handler under the mutex awaits exactly one device
\* call, which it alone owns, until it has its reply: calls that cancelled requests left
\* behind never answer a later one, in whatever order the pool delivers them
\* (device_call, the handlers of main.rs).
THEOREM TypeCorrect == Spec => []TypeOK
<1>1. WorkInv /\ EngineInv => TypeOK
  <2> SUFFICES ASSUME WorkInv, EngineInv PROVE TypeOK
    OBVIOUS
  <2>1. dev \in Device!Device
    <3>1. dev \in Shape /\ Len(dev.labels) \in Nat /\ Shaped(dev) /\ Len(dev.labels) <= MaxStreams
      BY ShapedFacts DEF WorkInv, Types
    <3>2. /\ dev.ingress \in Streams \cup {0} /\ dev.mailbox \in Streams \cup {0}
          /\ dev.native \in Streams \cup {0} /\ dev.live \in SUBSET Streams
      <4>1. MaxStreams \in Nat
        BY BoundAssumption
      <4>2. /\ dev.ingress \in Nat /\ dev.mailbox \in Nat /\ dev.native \in Nat
            /\ dev.ingress <= Len(dev.labels) /\ dev.mailbox <= Len(dev.labels)
            /\ dev.native <= Len(dev.labels)
        BY <3>1 DEF Shaped, Shape
      <4>3. \A s \in dev.live : s \in Nat /\ 1 <= s /\ s <= Len(dev.labels)
        BY <3>1 DEF Shaped, Shape
      <4>4. \A s \in dev.live : s \in 1..MaxStreams
        BY <3>1, <4>1, <4>3
      <4>5. /\ dev.ingress \in (1..MaxStreams) \cup {0}
            /\ dev.mailbox \in (1..MaxStreams) \cup {0}
            /\ dev.native \in (1..MaxStreams) \cup {0}
        BY <3>1, <4>1, <4>2
      <4>6. QED
        BY <4>4, <4>5 DEF Streams
    <3>3. QED
      BY <3>1, <3>2 DEF Shape, Device!Device, Device!Streams, Streams
  <2>2. Cardinality(Owned) = IF hPc # "idle" /\ reply = NoReply THEN 1 ELSE 0
    BY FS_EmptySet, FS_Singleton DEF WorkInv
  <2>3. hTodo \in Seq(Device!Ops)
    BY DEF WorkInv, Types, Device!Ops
  <2>4. QED
    BY <2>1, <2>2, <2>3 DEF WorkInv, EngineInv, Types, TypeOK, Owned
<1>2. WorkInv /\ EngineInv /\ [Next]_vars => WorkInv' /\ EngineInv'
  BY RequestTypes, HandlerTypes, CancelTypes, PerformTypes, PassTypes DEF Next
<1>3. QED
  BY <1>1, <1>2, InitTypes, PTL DEF Spec
=============================================================================
