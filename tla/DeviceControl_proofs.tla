-------------------------- MODULE DeviceControl_proofs --------------------------
(***************************************************************************)
(* Proofs about DeviceControl, for any clients, settings and queue.        *)
(*                                                                         *)
(* Every command is a set of results.  Sound says of one device that the   *)
(* hardware calls back only into the ingress its receiver holds, under the *)
(* settings that stream is labelled with, and that accepted settings are   *)
(* those of the hardware.  Each operation of Receiver and Worker gets a    *)
(* lemma: from a sound device all its results are sound.  The intermediate *)
(* device of a configuration that failed half way is not, which is why     *)
(* ApplyOrClose must close it.                                             *)
(***************************************************************************)
EXTENDS DeviceControl, SequenceTheorems, TLAPS

USE ConfigAssumption, CapacityAssumption, BoundAssumption, NoConfigAssumption
USE DEF Retaining, Checked, Released

Shape == [
    selected : {"mock", "hackrf"}, library : {"none", "open", "stuck"},
    owned : BOOLEAN, config : Configs \cup {NoConfig}, ingress : Nat,
    live : SUBSET Nat, labels : Seq(Configs), mailbox : Nat, native : Nat,
    hw : Configs \cup {NoConfig}]

Numbered(d) ==
    /\ d.ingress <= Len(d.labels) /\ d.mailbox <= Len(d.labels)
    /\ d.native <= Len(d.labels)
    /\ \A s \in d.live : 1 <= s /\ s <= Len(d.labels)

Honest(d) ==
    /\ d.native # 0 =>
          d.owned = TRUE /\ d.ingress = d.native /\ d.hw = d.labels[d.native]
    /\ d.config # NoConfig => d.owned = TRUE /\ d.hw = d.config
    /\ d.owned = TRUE => d.config \in Configs

Sound(d) == d \in Shape /\ Numbered(d) /\ Honest(d)

----------------------------------------------------------------------------
(* Receiver. *)

LEMMA StopSound ==
    ASSUME NEW d, Sound(d), NEW r \in Stop(d)
    PROVE  /\ Sound(r.dev) /\ r.dev.labels = d.labels /\ r.dev.owned = d.owned
           /\ r.dev.config = d.config /\ r.dev.hw = d.hw
           /\ r.ok => r.dev.native = 0
<1>1. CASE d.ingress = 0
  <2>1. r = Ok(d)
    BY <1>1 DEF Stop
  <2>2. QED
    BY <1>1, <2>1 DEF Ok, Sound, Honest
<1>2. CASE d.ingress # 0
  <2> DEFINE quiet == [d EXCEPT !.live = @ \ {d.ingress}]
  <2>1. /\ Sound(quiet) /\ quiet.labels = d.labels /\ quiet.owned = d.owned
        /\ quiet.config = d.config /\ quiet.hw = d.hw
    BY DEF Sound, Shape, Numbered, Honest
  <2>2. ASSUME NEW e, e \in {[quiet EXCEPT !.native = 0, !.ingress = 0],
                             [quiet EXCEPT !.native = 0]}
        PROVE  /\ Sound(e) /\ e.labels = d.labels /\ e.owned = d.owned
               /\ e.config = d.config /\ e.hw = d.hw /\ e.native = 0
    <3> HIDE DEF quiet
    <3>1. quiet \in Shape /\ Numbered(quiet) /\ Honest(quiet)
      BY <2>1 DEF Sound
    <3>2. Len(quiet.labels) \in Nat
      BY <3>1, LenProperties DEF Shape
    <3>3. /\ e.labels = quiet.labels /\ e.owned = quiet.owned
          /\ e.config = quiet.config /\ e.hw = quiet.hw /\ e.native = 0
          /\ e.live = quiet.live /\ e.mailbox = quiet.mailbox
          /\ e.ingress \in {0, quiet.ingress}
      BY <2>2, <3>1 DEF Shape
    <3>4. e \in Shape
      <4>1. CASE e = [quiet EXCEPT !.native = 0]
        BY <3>1, <4>1 DEF Shape
      <4>2. CASE e = [quiet EXCEPT !.native = 0, !.ingress = 0]
        BY <3>1, <4>2 DEF Shape
      <4>3. QED
        BY <2>2, <4>1, <4>2
    <3>5. Numbered(e)
      BY <3>1, <3>2, <3>3 DEF Numbered
    <3>6. Honest(e)
      BY <3>1, <3>3 DEF Honest
    <3>7. QED
      BY <2>1, <3>3, <3>4, <3>5, <3>6 DEF Sound
  <2>3. \/ r = Ok([quiet EXCEPT !.native = 0, !.ingress = 0])
        \/ r = Err(quiet) \/ r = Err([quiet EXCEPT !.native = 0])
    BY <1>2 DEF Stop
  <2> HIDE DEF quiet
  <2>4. QED
    BY <2>1, <2>2, <2>3 DEF Ok, Err
<1>3. QED
  BY <1>1, <1>2

LEMMA StartRxSound ==
    ASSUME NEW d, Sound(d), d.owned = TRUE, d.native = 0, NEW r \in StartRx(d)
    PROVE  Sound(r.dev) /\ Len(r.dev.labels) = Len(d.labels) + 1
<1> DEFINE s == Len(d.labels) + 1
           new == [d EXCEPT !.labels = Append(@, d.config)]
<1>1. /\ d.labels \in Seq(Configs) /\ d.config \in Configs /\ d.hw = d.config
      /\ Len(d.labels) \in Nat
  BY LenProperties DEF Sound, Shape, Honest
<1>2. /\ Append(d.labels, d.config) \in Seq(Configs)
      /\ Len(Append(d.labels, d.config)) = s
      /\ Append(d.labels, d.config)[s] = d.config
  BY <1>1, AppendProperties, LenProperties
<1>3. /\ new \in Shape /\ new.labels = Append(d.labels, d.config) /\ new.owned = TRUE
      /\ new.config = d.config /\ new.hw = d.config /\ new.native = 0
      /\ new.ingress = d.ingress /\ new.mailbox = d.mailbox /\ new.live = d.live
  BY <1>1, <1>2 DEF Sound, Shape
<1>4. Sound(new)
  <2> HIDE DEF new
  <2>1. Len(new.labels) = Len(d.labels) + 1
    BY <1>2, <1>3
  <2>2. /\ d.ingress \in Nat /\ d.mailbox \in Nat /\ d.live \in SUBSET Nat
        /\ Numbered(d)
    BY DEF Sound, Shape
  <2>3. Numbered(new)
    BY <1>1, <1>3, <2>1, <2>2 DEF Numbered
  <2>4. Honest(new)
    BY <1>1, <1>3 DEF Honest
  <2>5. QED
    BY <1>3, <2>3, <2>4 DEF Sound
<1>5. \/ r = Ok([new EXCEPT !.ingress = s, !.native = s, !.live = @ \cup {s}])
      \/ r = Err([new EXCEPT !.ingress = s])
      \/ r = Err([[new EXCEPT !.ingress = s] EXCEPT !.native = s])
  BY DEF StartRx
<1>6. s \in Nat /\ s # 0 /\ Len(new.labels) = s /\ new.labels[s] = d.config
  BY <1>1, <1>2, <1>3
<1> HIDE DEF s, new
<1>7. ASSUME NEW e, e = [new EXCEPT !.ingress = s]
      PROVE  Sound(e) /\ e.labels = new.labels
  BY <1>3, <1>4, <1>6, <1>7 DEF Sound, Shape, Numbered, Honest
<1>8. ASSUME NEW e, e = [[new EXCEPT !.ingress = s] EXCEPT !.native = s]
      PROVE  Sound(e) /\ e.labels = new.labels
  <2>1. /\ e \in Shape /\ e.labels = new.labels /\ e.owned = TRUE
        /\ e.config = d.config /\ e.hw = d.config /\ e.native = s
        /\ e.ingress = s /\ e.mailbox = new.mailbox /\ e.live = new.live
    BY <1>3, <1>6, <1>8 DEF Shape
  <2>2. Numbered(e)
    BY <1>4, <1>6, <2>1 DEF Sound, Numbered
  <2>3. Honest(e)
    BY <1>1, <1>6, <2>1 DEF Honest
  <2>4. QED
    BY <2>1, <2>2, <2>3 DEF Sound
<1>9. ASSUME NEW e, e = [new EXCEPT !.ingress = s, !.native = s, !.live = @ \cup {s}]
      PROVE  Sound(e) /\ e.labels = new.labels
  <2>1. /\ e \in Shape /\ e.labels = new.labels /\ e.owned = TRUE
        /\ e.config = d.config /\ e.hw = d.config /\ e.native = s
        /\ e.ingress = s /\ e.mailbox = new.mailbox
    BY <1>3, <1>6, <1>9 DEF Shape
  <2>2. e.live = new.live \cup {s}
    BY <1>3, <1>9 DEF Shape
  <2>3. Numbered(e)
    BY <1>4, <1>6, <2>1, <2>2 DEF Sound, Numbered
  <2>4. Honest(e)
    BY <1>1, <1>6, <2>1 DEF Honest
  <2>5. QED
    BY <2>1, <2>3, <2>4 DEF Sound
<1>10. Len(new.labels) = Len(d.labels) + 1
  BY <1>6 DEF s
<1>11. QED
  BY <1>5, <1>7, <1>8, <1>9, <1>10 DEF Ok, Err

LEMMA StartSound ==
    ASSUME NEW d, Sound(d), d.owned = TRUE, NEW r \in Start(d)
    PROVE  Sound(r.dev) /\ Len(r.dev.labels) \in {Len(d.labels), Len(d.labels) + 1}
<1>1. PICK q \in Stop(d) : r \in IF q.ok THEN StartRx(q.dev) ELSE {q}
  BY DEF Start
<1>2. /\ Sound(q.dev) /\ q.dev.labels = d.labels /\ q.dev.owned = TRUE
      /\ q.ok => q.dev.native = 0
  BY StopSound
<1>3. CASE q.ok
  BY <1>1, <1>2, <1>3, StartRxSound
<1>4. CASE ~q.ok
  BY <1>1, <1>2, <1>4
<1>5. QED
  BY <1>3, <1>4

LEMMA ClosedSound ==
    ASSUME NEW d \in Shape, Numbered(d)
    PROVE  Sound(Closed(d)) /\ Closed(d).labels = d.labels
<1>1. Len(d.labels) \in Nat
  BY LenProperties DEF Shape
<1>2. ASSUME NEW e, e = Closed(d) PROVE Sound(e) /\ e.labels = d.labels
  <2>1. /\ e \in Shape /\ e.owned = FALSE /\ e.config = NoConfig
        /\ e.ingress = 0 /\ e.native = 0 /\ e.hw = NoConfig
        /\ e.labels = d.labels /\ e.mailbox = d.mailbox
    BY <1>2 DEF Closed, Shape
  <2>2. e.live = d.live \ {d.ingress}
    BY <1>2 DEF Closed, Shape
  <2>3. Numbered(e)
    BY <1>1, <2>1, <2>2 DEF Numbered
  <2>4. Honest(e)
    BY <2>1 DEF Honest
  <2>5. QED
    BY <2>1, <2>3, <2>4 DEF Sound
<1>3. QED
  BY <1>2

LEMMA ApplySound ==
    ASSUME NEW d, Sound(d), d.owned = TRUE, d.native = 0, NEW c \in Configs,
           NEW r \in ApplyOrClose(d, c)
    PROVE  /\ Sound(r.dev) /\ r.dev.labels = d.labels
           /\ r.ok => r.dev.owned = TRUE
<1>1. PICK q \in Apply(d, c) : r \in IF q.ok THEN {q} ELSE {Err(Closed(q.dev))}
  BY DEF ApplyOrClose
<1>2. \/ q = Ok([d EXCEPT !.config = c, !.hw = c])
      \/ q = Err(d) \/ q = Err([d EXCEPT !.hw = NoConfig])
  BY DEF Apply
<1>3. CASE q = Ok([d EXCEPT !.config = c, !.hw = c])
  <2>1. ASSUME NEW e, e = [d EXCEPT !.config = c, !.hw = c]
        PROVE  Sound(e) /\ e.labels = d.labels /\ e.owned = TRUE
    BY <2>1 DEF Sound, Shape, Numbered, Honest
  <2>2. r = q
    BY <1>1, <1>3 DEF Ok
  <2>3. QED
    BY <1>3, <2>1, <2>2 DEF Ok
<1>4. CASE q = Err(d) \/ q = Err([d EXCEPT !.hw = NoConfig])
  <2>1. ASSUME NEW e, e \in {d, [d EXCEPT !.hw = NoConfig]}
        PROVE  e \in Shape /\ Numbered(e) /\ e.labels = d.labels
    BY <2>1 DEF Sound, Shape, Numbered
  <2>2. r = Err(Closed(q.dev)) /\ q.dev \in {d, [d EXCEPT !.hw = NoConfig]}
    BY <1>1, <1>4 DEF Err
  <2>3. Sound(Closed(q.dev)) /\ Closed(q.dev).labels = d.labels
    BY <2>1, <2>2, ClosedSound
  <2>4. QED
    BY <2>2, <2>3 DEF Err
<1>5. QED
  BY <1>2, <1>3, <1>4

----------------------------------------------------------------------------
(* Worker.  Grown says what every command promises of its result. *)

Grown(d, e) ==
    Sound(e) /\ Len(e.labels) \in {Len(d.labels), Len(d.labels) + 1}

\* Selecting a source and opening the library touch nothing Sound speaks of.
LEMMA AsideSound ==
    ASSUME NEW d, Sound(d), NEW x \in {"mock", "hackrf"},
           NEW y \in {"none", "open", "stuck"},
           NEW e \in {[d EXCEPT !.selected = x], [d EXCEPT !.library = y]}
    PROVE  Sound(e) /\ e.labels = d.labels /\ e.owned = d.owned
<1>1. d \in Shape /\ Numbered(d) /\ Honest(d)
  BY DEF Sound
<1>2. /\ e.labels = d.labels /\ e.owned = d.owned /\ e.config = d.config
      /\ e.ingress = d.ingress /\ e.native = d.native /\ e.hw = d.hw
      /\ e.mailbox = d.mailbox /\ e.live = d.live
  BY <1>1 DEF Shape
<1>3. e \in Shape
  <2>1. CASE e = [d EXCEPT !.selected = x]
    BY <1>1, <2>1 DEF Shape
  <2>2. CASE e = [d EXCEPT !.library = y]
    BY <1>1, <2>2 DEF Shape
  <2>3. QED
    BY <2>1, <2>2
<1>4. Numbered(e) /\ Honest(e)
  BY <1>1, <1>2 DEF Numbered, Honest
<1>5. QED
  BY <1>2, <1>3, <1>4 DEF Sound

LEMMA EnumerateSound ==
    ASSUME NEW d, Sound(d), NEW r \in Enumerate(d)
    PROVE  Sound(r.dev) /\ r.dev.labels = d.labels /\ r.dev.owned = d.owned
<1>1. PICK q \in Library(d) : r \in IF q.ok THEN {q, Err(q.dev)} ELSE {q}
  BY DEF Enumerate
<1>2. q \in {Ok([d EXCEPT !.library = "open"]), Err(d), Ok(d)}
  BY DEF Library
<1>3. q.dev \in {[d EXCEPT !.library = "open"], d}
  BY <1>2 DEF Ok, Err
<1>4. Sound(q.dev) /\ q.dev.labels = d.labels /\ q.dev.owned = d.owned
  BY <1>3, AsideSound
<1>5. r.dev = q.dev
  BY <1>1 DEF Err
<1>6. QED
  BY <1>4, <1>5

LEMMA OpenSound ==
    ASSUME NEW d, Sound(d), NEW r \in Open(d)
    PROVE  Sound(r.dev) /\ r.dev.labels = d.labels
<1>1. CASE r \in {Ok(d), Err(d)}
  BY <1>1 DEF Ok, Err
<1>2. CASE d.owned # TRUE /\ r \notin {Ok(d), Err(d)}
  <2>1. PICK q \in Enumerate(d) :
            r = IF q.ok THEN Ok([q.dev EXCEPT !.owned = TRUE, !.config = Default,
                                              !.hw = Default])
                ELSE q
    BY <1>2 DEF Open
  <2>2. /\ q.dev \in Shape /\ Numbered(q.dev) /\ Honest(q.dev)
        /\ q.dev.labels = d.labels /\ q.dev.owned = d.owned
    BY EnumerateSound DEF Sound
  <2>3. q.dev.native = 0
    BY <1>2, <2>2 DEF Honest
  <2>4. ASSUME NEW e, e = [q.dev EXCEPT !.owned = TRUE, !.config = Default,
                                        !.hw = Default]
        PROVE  Sound(e) /\ e.labels = d.labels
    <3>1. /\ e \in Shape /\ e.labels = d.labels /\ e.owned = TRUE
          /\ e.config = Default /\ e.hw = Default /\ e.ingress = q.dev.ingress
          /\ e.native = 0 /\ e.mailbox = q.dev.mailbox /\ e.live = q.dev.live
      BY <2>2, <2>3, <2>4 DEF Shape
    <3>2. Numbered(e)
      BY <2>2, <2>3, <3>1 DEF Numbered
    <3>3. Honest(e)
      BY <3>1 DEF Honest
    <3>4. QED
      BY <3>1, <3>2, <3>3 DEF Sound
  <2>5. QED
    BY <2>1, <2>2, <2>4 DEF Ok, Sound
<1>3. CASE d.owned = TRUE
  BY <1>1, <1>3 DEF Open
<1>4. QED
  BY <1>1, <1>2, <1>3

LEMMA CloseSound ==
    ASSUME NEW d, Sound(d), NEW r \in Close(d)
    PROVE  Sound(r.dev) /\ r.dev.labels = d.labels
<1>1. r.dev \in {d, Closed(d)}
  BY DEF Close, CloseReceiver, Ok, Err
<1>2. QED
  BY <1>1, ClosedSound DEF Sound

LEMMA PublishSound ==
    ASSUME NEW d, NEW results, \A q \in results : Grown(d, q.dev),
           NEW r \in Publish(results)
    PROVE  Grown(d, r.dev)
<1>1. PICK q \in results :
          r = IF q.ok THEN Ok([q.dev EXCEPT !.mailbox = q.dev.ingress]) ELSE q
  BY DEF Publish
<1>2. Grown(d, q.dev)
  OBVIOUS
<1>3. q.dev \in Shape /\ Numbered(q.dev) /\ Honest(q.dev)
  BY <1>2 DEF Grown, Sound
<1>4. ASSUME NEW e, e = [q.dev EXCEPT !.mailbox = q.dev.ingress]
      PROVE  Grown(d, e)
  <2>1. /\ e.labels = q.dev.labels /\ e.owned = q.dev.owned
        /\ e.config = q.dev.config /\ e.ingress = q.dev.ingress
        /\ e.native = q.dev.native /\ e.hw = q.dev.hw
        /\ e.mailbox = q.dev.ingress /\ e.live = q.dev.live
    BY <1>3, <1>4 DEF Shape
  <2>2. e \in Shape
    BY <1>3, <1>4 DEF Shape
  <2>3. Numbered(e) /\ Honest(e)
    BY <1>3, <2>1 DEF Numbered, Honest
  <2>4. QED
    BY <1>2, <2>1, <2>2, <2>3 DEF Grown, Sound
<1>5. QED
  BY <1>1, <1>2, <1>4 DEF Ok

LEMMA StartStreamSound ==
    ASSUME NEW d, Sound(d), NEW r \in StartStream(d)
    PROVE  Grown(d, r.dev)
<1>1. CASE r.dev = d
  BY <1>1 DEF Grown
<1>2. CASE r.dev # d
  <2>1. d.owned = TRUE /\ r \in Publish(Start(d))
    BY <1>2 DEF StartStream, Ok, Err, Sound, Shape
  <2>2. \A q \in Start(d) : Grown(d, q.dev)
    BY <2>1, StartSound DEF Grown
  <2>3. QED
    BY <2>1, <2>2, PublishSound
<1>3. QED
  BY <1>1, <1>2

LEMMA ConfigureSound ==
    ASSUME NEW d, Sound(d), NEW c \in Configs, NEW r \in Configure(d, c)
    PROVE  Grown(d, r.dev)
<1> DEFINE stopped == Stop(d)
           applied == UNION {IF q.ok THEN ApplyOrClose(q.dev, c) ELSE {q} :
                               q \in stopped}
<1>1. CASE d.owned # TRUE
  <2>1. r = Err(d)
    BY <1>1 DEF Configure, Sound, Shape
  <2>2. QED
    BY <2>1 DEF Err, Grown
<1>2. CASE d.owned = TRUE
  <2>1. ASSUME NEW a \in applied
        PROVE  /\ Sound(a.dev) /\ a.dev.labels = d.labels
               /\ a.ok => a.dev.owned = TRUE
    <3>1. PICK q \in Stop(d) : a \in IF q.ok THEN ApplyOrClose(q.dev, c) ELSE {q}
      OBVIOUS
    <3>2. /\ Sound(q.dev) /\ q.dev.labels = d.labels /\ q.dev.owned = TRUE
          /\ q.ok => q.dev.native = 0
      BY <1>2, StopSound
    <3>3. CASE q.ok
      BY <3>1, <3>2, <3>3, ApplySound
    <3>4. CASE ~q.ok
      BY <3>1, <3>2, <3>4
    <3>5. QED
      BY <3>3, <3>4
  <2>2. \/ r \in applied
        \/ r \in UNION {IF a.ok THEN Publish(Start(a.dev)) ELSE {a} : a \in applied}
    BY <1>2 DEF Configure
  <2> HIDE DEF stopped, applied
  <2>3. ASSUME NEW a \in applied PROVE Grown(d, a.dev)
    BY <2>1 DEF Grown
  <2>4. ASSUME NEW a \in applied, a.ok, r \in Publish(Start(a.dev))
        PROVE  Grown(d, r.dev)
    <3>1. Sound(a.dev) /\ a.dev.labels = d.labels /\ a.dev.owned = TRUE
      BY <2>1, <2>4
    <3>2. \A q \in Start(a.dev) : Grown(d, q.dev)
      BY <3>1, StartSound DEF Grown
    <3>3. QED
      BY <2>4, <3>2, PublishSound
  <2>5. QED
    BY <2>2, <2>3, <2>4
<1>3. QED
  BY <1>1, <1>2

LEMMA ShutdownSound ==
    ASSUME NEW d, Sound(d), NEW r \in Shutdown(d)
    PROVE  Sound(r.dev) /\ r.dev.labels = d.labels
<1>1. PICK q \in Close(d) :
          r \in IF q.dev.library = "open"
                THEN {[q EXCEPT !.dev.library = "none"],
                      Err([q.dev EXCEPT !.library = "stuck"])}
                ELSE {q}
  BY DEF Shutdown
<1>2. Sound(q.dev) /\ q.dev.labels = d.labels
  BY CloseSound
<1>3. q \in {Ok(d), Ok(Closed(d)), Err(Closed(d))}
  BY DEF Close, CloseReceiver
<1>4. r.dev \in {q.dev, [q.dev EXCEPT !.library = "none"],
                 [q.dev EXCEPT !.library = "stuck"]}
  BY <1>1, <1>3 DEF Ok, Err
<1>5. ASSUME NEW y \in {"none", "stuck"}
      PROVE  /\ Sound([q.dev EXCEPT !.library = y])
             /\ [q.dev EXCEPT !.library = y].labels = d.labels
  <2>1. [q.dev EXCEPT !.library = y] \in
            {[q.dev EXCEPT !.selected = "mock"], [q.dev EXCEPT !.library = y]}
    OBVIOUS
  <2>2. QED
    BY <1>2, <2>1, AsideSound
<1>6. QED
  BY <1>2, <1>4, <1>5

\* Whatever a command does and wherever it fails, it leaves a sound device.
LEMMA ResultsSound ==
    ASSUME NEW d, Sound(d), NEW o \in Ops, NEW r \in Results(d, o)
    PROVE  Grown(d, r.dev)
<1> DEFINE plain == Sound(r.dev) /\ r.dev.labels = d.labels
<1>1. CASE o = "select_mock"
  <2>1. r.dev \in {d, [d EXCEPT !.selected = "mock"]}
    BY <1>1 DEF Results, SelectMock, Ok, Err
  <2>2. ASSUME NEW e, e = [d EXCEPT !.selected = "mock"]
        PROVE  Sound(e) /\ e.labels = d.labels
    <3>1. e \in {[d EXCEPT !.selected = "mock"], [d EXCEPT !.library = "open"]}
      BY <2>2
    <3>2. QED
      BY <3>1, AsideSound
  <2>3. plain
    BY <2>1, <2>2
  <2>4. QED
    BY <2>3 DEF Grown
<1>2. CASE o = "select_hackrf"
  <2>1. \/ r.dev = d
        \/ \E q \in Enumerate(d) :
              r.dev \in {q.dev, [q.dev EXCEPT !.selected = "hackrf"]}
    BY <1>2 DEF Results, SelectHackrf, Ok, Err
  <2>2. ASSUME NEW q \in Enumerate(d), NEW e, e = [q.dev EXCEPT !.selected = "hackrf"]
        PROVE  Sound(e) /\ e.labels = d.labels
    <3>1. Sound(q.dev) /\ q.dev.labels = d.labels
      BY EnumerateSound
    <3>2. e \in {[q.dev EXCEPT !.selected = "hackrf"],
                  [q.dev EXCEPT !.library = "open"]}
      BY <2>2
    <3>3. QED
      BY <3>1, <3>2, AsideSound
  <2>3. plain
    BY <2>1, <2>2, EnumerateSound
  <2>4. QED
    BY <2>3 DEF Grown
<1>3. CASE o = "open"
  BY <1>3, OpenSound DEF Results, Grown
<1>4. CASE o = "close"
  BY <1>4, CloseSound DEF Results, Grown
<1>5. CASE o = "start"
  BY <1>5, StartStreamSound DEF Results
<1>6. CASE o = "stop"
  <2>1. r \in Stop(d) \/ r = Ok(d)
    BY <1>6 DEF Results, StopStream
  <2>2. plain
    BY <2>1, StopSound DEF Ok
  <2>3. QED
    BY <2>2 DEF Grown
<1>7. CASE o = "configure"
  <2> HIDE DEF Results
  <2> DEFINE Configured == UNION {Configure(d, c) : c \in Configs}
  <2>0. Results(d, o) = {Err(d)} \cup Configured
    BY <1>7 DEF Results
  <2>1. r = Err(d) \/ \E c \in Configs : r \in Configure(d, c)
    <3>1. CASE r = Err(d)
      BY <3>1
    <3>2. CASE r \in Configured
      <4>1. PICK S \in {Configure(d, c) : c \in Configs} : r \in S
        BY <3>2
      <4>2. QED
        BY <4>1
    <3> HIDE DEF Configured
    <3>3. QED
      BY <2>0, <3>1, <3>2
  <2>2. CASE r = Err(d)
    BY <2>2 DEF Err, Grown
  <2>3. QED
    BY <2>1, <2>2, ConfigureSound
<1>8. CASE o = "snapshot"
  BY <1>8 DEF Results, Ok, Grown
<1>9. CASE o = "inventory"
  <2>1. \E q \in Enumerate(d) : r.dev = q.dev
    BY <1>9 DEF Results, Inventory, Ok
  <2>2. plain
    BY <2>1, EnumerateSound
  <2>3. QED
    BY <2>2 DEF Grown
<1>10. CASE o = "shutdown"
  BY <1>10, ShutdownSound DEF Results, Grown
<1>11. QED
  BY <1>1, <1>2, <1>3, <1>4, <1>5, <1>6, <1>7, <1>8, <1>9, <1>10 DEF Ops

----------------------------------------------------------------------------
(* The controller.  Every stream belongs to an accepted call, which bounds  *)
(* their number; the device keeps being sound.                              *)

Numbers == Len(dev.labels) + Len(queue) <= calls /\ calls <= MaxCalls

IInv ==
    /\ Sound(dev) /\ engineSrc \in Nat /\ engineSrc <= Len(dev.labels)
    /\ queue \in Seq(Clients) /\ Len(queue) <= QueueCapacity
    /\ calls \in Nat /\ Numbers
    /\ op \in [Clients -> Ops]
    /\ answer \in [Clients -> {"none", "ok", "error", "unavailable"}]
    /\ waiting \subseteq Clients
    /\ wPc \in {"health", "recv", "exit", "gone"}

\* One more request is one more accepted call.
LEMMA OneMore ==
    ASSUME NEW a \in Nat, NEW b \in Nat, NEW c \in Nat, a + b <= c
    PROVE  a + (b + 1) <= c + 1
  OBVIOUS

LEMMA InitIInv == Init => IInv
<1> SUFFICES ASSUME Init PROVE IInv
  OBVIOUS
<1>1. dev.labels = <<>> /\ <<>> \in Seq(Configs) /\ Len(<<>>) = 0 /\ <<>> \in Seq(Clients)
  BY EmptySeq DEF Init
<1>2. dev \in Shape
  BY <1>1 DEF Init, Shape
<1>3. Numbered(dev) /\ Honest(dev)
  BY <1>1 DEF Init, Numbered, Honest
<1>4. Len(queue) = 0 /\ queue \in Seq(Clients) /\ calls = 0 /\ engineSrc = 0
  BY <1>1 DEF Init
<1>5. QED
  BY <1>1, <1>2, <1>3, <1>4 DEF Init, IInv, Numbers, Sound, Ops

LEMMA StepIInv == IInv /\ [Next]_vars => IInv'
<1> SUFFICES ASSUME IInv, [Next]_vars PROVE IInv'
  OBVIOUS
<1>0. /\ Sound(dev) /\ dev \in Shape /\ Numbered(dev) /\ Honest(dev)
      /\ Len(dev.labels) \in Nat /\ Len(queue) \in Nat /\ queue \in Seq(Clients)
      /\ engineSrc \in Nat /\ engineSrc <= Len(dev.labels)
      /\ calls \in Nat /\ Numbers
  BY LenProperties DEF IInv, Sound, Shape
<1>1. ASSUME NEW c \in Clients, NEW o \in Ops, Call(c, o) PROVE IInv'
  <2>1. queue' \in Seq(Clients) /\ Len(queue') = Len(queue) + 1
    BY <1>0, <1>1, AppendProperties, LenProperties DEF Call
  <2>2. /\ dev' = dev /\ engineSrc' = engineSrc /\ answer' = answer /\ wPc' = wPc
        /\ calls' = calls + 1 /\ calls < MaxCalls /\ Len(queue) < QueueCapacity
    BY <1>1 DEF Call, workVars
  <2>3. op' \in [Clients -> Ops] /\ waiting' \subseteq Clients
    BY <1>1 DEF Call, IInv
  <2>4. Numbers' /\ Len(queue') <= QueueCapacity
    <3>1. Len(dev'.labels) = Len(dev.labels) /\ Len(queue') = Len(queue) + 1
      BY <2>1, <2>2
    <3>2. Len(dev.labels) + Len(queue) <= calls /\ MaxCalls \in Nat
          /\ QueueCapacity \in Nat
      BY <1>0 DEF Numbers
    <3>3. Len(dev.labels) \in Nat /\ Len(queue) \in Nat /\ calls \in Nat
      BY <1>0
    <3>4. Len(dev'.labels) + Len(queue') <= calls'
      <4>1. calls' = calls + 1 /\ Len(dev'.labels) = Len(dev.labels)
        BY <2>2, <3>1
      <4>2. Len(queue') = Len(queue) + 1
        BY <3>1
      <4>3. Len(dev.labels) + (Len(queue) + 1) <= calls + 1
        BY <3>2, <3>3, OneMore
      <4>4. QED
        BY <4>1, <4>2, <4>3
    <3>5. calls' <= MaxCalls
      BY <2>2, <3>2, <3>3
    <3>6. Len(queue') <= QueueCapacity
      BY <2>2, <3>1, <3>2, <3>3
    <3>7. QED
      BY <3>4, <3>5, <3>6 DEF Numbers
  <2>5. QED
    BY <1>0, <2>1, <2>2, <2>3, <2>4 DEF IInv
<1>2. ASSUME NEW c \in Clients, Refuse(c) PROVE IInv'
  <2>1. /\ dev' = dev /\ engineSrc' = engineSrc /\ queue' = queue /\ op' = op
        /\ waiting' = waiting /\ calls' = calls /\ wPc' = wPc
    BY <1>2 DEF Refuse, workVars
  <2>2. answer' \in [Clients -> {"none", "ok", "error", "unavailable"}]
    BY <1>2 DEF Refuse, IInv
  <2>3. QED
    BY <2>1, <2>2 DEF IInv, Numbers
<1>3. CASE CheckHealth
  <2>1. /\ engineSrc' = engineSrc /\ queue' = queue /\ op' = op /\ answer' = answer
        /\ waiting' = waiting /\ calls' = calls /\ wPc' = "recv"
    BY <1>3 DEF CheckHealth, callVars
  <2>2. dev' \in {dev, [dev EXCEPT !.live = @ \ {dev.ingress}]}
    BY <1>3 DEF CheckHealth
  <2>3. Sound(dev') /\ dev'.labels = dev.labels
    <3>1. /\ dev'.labels = dev.labels /\ dev'.owned = dev.owned
          /\ dev'.config = dev.config /\ dev'.ingress = dev.ingress
          /\ dev'.native = dev.native /\ dev'.hw = dev.hw
          /\ dev'.mailbox = dev.mailbox /\ dev'.live \subseteq dev.live
      BY <1>0, <2>2 DEF Shape
    <3>2. dev' \in Shape
      BY <1>0, <2>2 DEF Shape
    <3>3. Numbered(dev') /\ Honest(dev')
      BY <1>0, <3>1 DEF Numbered, Honest
    <3>4. QED
      BY <3>1, <3>2, <3>3 DEF Sound
  <2>4. QED
    BY <2>1, <2>3 DEF IInv, Numbers
<1>4. CASE Timeout
  BY <1>4 DEF Timeout, workVars, callVars, IInv, Numbers
<1>5. CASE Serve
  <2> DEFINE c == Head(queue)
  <2>1. /\ queue # <<>> /\ queue' = Tail(queue) /\ engineSrc' = engineSrc
        /\ op' = op /\ calls' = calls /\ waiting' = waiting \ {c}
    BY <1>5 DEF Serve
  <2>2. /\ c \in Clients /\ queue' \in Seq(Clients) /\ Len(queue') = Len(queue) - 1
    BY <1>0, <2>1, HeadTailProperties, LenProperties, HeadTailProperties
  <2>3. PICK r \in Results(dev, op[c]) :
            /\ dev' = r.dev
            /\ answer' = [answer EXCEPT ![c] = IF r.ok THEN "ok" ELSE "error"]
    BY <1>5 DEF Serve
  <2>4. op[c] \in Ops
    BY <2>2 DEF IInv
  <2>5. Grown(dev, dev')
    BY <1>0, <2>3, <2>4, ResultsSound
  <2>6. Len(dev'.labels) \in Nat
    BY <2>5, LenProperties DEF Grown, Sound, Shape
  <2>7. answer' \in [Clients -> {"none", "ok", "error", "unavailable"}]
    BY <2>3 DEF IInv
  <2>8. wPc' \in {"exit", "health"}
    BY <1>5 DEF Serve
  <2>9. /\ Numbers' /\ engineSrc' <= Len(dev'.labels) /\ Len(queue') <= QueueCapacity
    BY <1>0, <2>1, <2>2, <2>5, <2>6 DEF Grown, Numbers, IInv
  <2>10. QED
    BY <1>0, <2>1, <2>2, <2>5, <2>7, <2>8, <2>9 DEF IInv, Grown
<1>6. CASE Hangup
  <2>1. /\ dev' = dev /\ engineSrc' = engineSrc /\ op' = op /\ calls' = calls
        /\ queue' = <<>> /\ wPc' = "gone" /\ waiting' = waiting \ waiting
    BY <1>6 DEF Hangup, workVars
  <2>2. answer' \in [Clients -> {"none", "ok", "error", "unavailable"}]
    BY <1>6 DEF Hangup, IInv
  <2>3. queue' \in Seq(Clients) /\ Len(queue') = 0
    BY <2>1, EmptySeq
  <2>4. Numbers' /\ Len(queue') <= QueueCapacity
    BY <1>0, <2>1, <2>3 DEF Numbers
  <2>5. QED
    BY <1>0, <2>1, <2>2, <2>3, <2>4 DEF IInv
<1>7. CASE StreamDies
  <2>1. /\ engineSrc' = engineSrc /\ queue' = queue /\ op' = op /\ answer' = answer
        /\ waiting' = waiting /\ calls' = calls /\ wPc' = wPc
        /\ dev' = [dev EXCEPT !.native = 0]
    BY <1>7 DEF StreamDies, callVars
  <2>2. /\ dev'.labels = dev.labels /\ dev'.owned = dev.owned
        /\ dev'.config = dev.config /\ dev'.ingress = dev.ingress
        /\ dev'.native = 0 /\ dev'.hw = dev.hw
        /\ dev'.mailbox = dev.mailbox /\ dev'.live = dev.live
    BY <1>0, <2>1 DEF Shape
  <2>3. dev' \in Shape
    BY <1>0, <2>1 DEF Shape
  <2>4. Numbered(dev') /\ Honest(dev')
    BY <1>0, <2>2 DEF Numbered, Honest
  <2>5. QED
    BY <2>1, <2>2, <2>3, <2>4 DEF IInv, Numbers, Sound
<1>8. CASE TakeStream
  <2>1. /\ engineSrc' = dev.mailbox /\ queue' = queue /\ op' = op
        /\ answer' = answer /\ waiting' = waiting /\ calls' = calls /\ wPc' = wPc
        /\ dev' = [dev EXCEPT !.mailbox = 0]
    BY <1>8 DEF TakeStream, callVars
  <2>2. /\ dev'.labels = dev.labels /\ dev'.owned = dev.owned
        /\ dev'.config = dev.config /\ dev'.ingress = dev.ingress
        /\ dev'.native = dev.native /\ dev'.hw = dev.hw
        /\ dev'.mailbox = 0 /\ dev'.live = dev.live
    BY <1>0, <2>1 DEF Shape
  <2>3. dev' \in Shape
    BY <1>0, <2>1 DEF Shape
  <2>4. Numbered(dev') /\ Honest(dev')
    BY <1>0, <2>2 DEF Numbered, Honest
  <2>5. engineSrc' \in Nat /\ engineSrc' <= Len(dev'.labels)
    BY <1>0, <2>1, <2>2 DEF Shape, Numbered
  <2>6. QED
    BY <2>1, <2>2, <2>3, <2>4, <2>5 DEF IInv, Numbers, Sound
<1>9. CASE UNCHANGED vars
  BY <1>9 DEF vars, workVars, callVars, IInv, Numbers
<1>10. QED
  BY <1>1, <1>2, <1>3, <1>4, <1>5, <1>6, <1>7, <1>8, <1>9 DEF Next, Worker

LEMMA IInvHolds == Spec => []IInv
<1>1. Init => IInv
  BY InitIInv
<1>2. IInv /\ [Next]_vars => IInv'
  BY StepIInv
<1>3. QED
  BY <1>1, <1>2, PTL DEF Spec

----------------------------------------------------------------------------
\* Type correctness: every variable holds a value of its type, no stream exists
\* that no accepted call asked for, and the channel of DeviceController keeps its
\* capacity.
THEOREM TypeCorrect == Spec => []TypeOK
<1>1. IInv => TypeOK
  <2> SUFFICES ASSUME IInv PROVE TypeOK
    OBVIOUS
  <2>1. /\ dev \in Shape /\ Numbered(dev) /\ Len(dev.labels) \in Nat
        /\ Len(queue) \in Nat /\ calls \in Nat /\ Numbers
    BY LenProperties DEF IInv, Sound, Shape
  <2>2. Len(dev.labels) <= MaxCalls
    BY <2>1 DEF Numbers
  <2>3. /\ dev.ingress \in Streams \cup {0} /\ dev.mailbox \in Streams \cup {0}
        /\ dev.native \in Streams \cup {0} /\ engineSrc \in Streams \cup {0}
    BY <2>1, <2>2 DEF Shape, Numbered, Streams, IInv
  <2>4. dev.live \in SUBSET Streams
    BY <2>1, <2>2 DEF Shape, Numbered, Streams
  <2>5. dev \in Device
    BY <2>1, <2>3, <2>4 DEF Shape, Device
  <2>6. QED
    BY <2>3, <2>5 DEF IInv, TypeOK
<1>2. QED
  BY <1>1, IInvHolds, PTL

\* The native callback never runs without the ingress it writes to: whichever
\* start, stop or close failed, the Receiver of hackrf/mod.rs still holds it.
THEOREM StorageTheorem == Spec => []CallbackStorageRetained
<1>1. IInv => CallbackStorageRetained
  BY DEF IInv, Sound, Honest, CallbackStorageRetained
<1>2. QED
  BY <1>1, IInvHolds, PTL

\* Labels of streams and the settings in a status are those of the hardware after
\* any sequence of commands and failures of the native setters.
THEOREM SettingsTheorem == Spec => []SettingsAreTrue
<1>1. IInv => SettingsAreTrue
  BY DEF IInv, Sound, Honest, SettingsAreTrue, LabelsAreTrue, ReportedIsApplied
<1>2. QED
  BY <1>1, IInvHolds, PTL
================================================================================
