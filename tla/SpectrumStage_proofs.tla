-------------------------- MODULE SpectrumStage_proofs --------------------------
(***************************************************************************)
(* Proofs about SpectrumStage and the FilePlayback it composes, for any    *)
(* files, block and FFT sizes, capacities, numbers of clients, requests    *)
(* and errors.  PlaybackInv says what position, file and receivers have in *)
(* common, whatever failed; PassInv that a label read in this pass belongs *)
(* to a file that was loaded in it; StageInv and RetainedInv up to which   *)
(* frame the latest measurements and the observations have come at each    *)
(* stage of the frame in the making.                                       *)
(***************************************************************************)
EXTENDS SpectrumStage, SequenceTheorems, TLAPS

\* A run of consecutive numbers is a sequence.
Run(first, count) == [i \in 1..count |-> first + i - 1]

LEMMA RunIsSequence ==
    ASSUME NEW first \in Nat, NEW count \in Nat
    PROVE  /\ Run(first, count) \in Seq(Nat) /\ Len(Run(first, count)) = count
           /\ \A i \in 1..count : Run(first, count)[i] = first + i - 1
<1>1. Run(first, count) \in [1..count -> Nat]
  BY DEF Run
<1>2. Run(first, count) \in Seq(Nat)
  BY <1>1
<1>3. QED
  BY <1>1, <1>2 DEF Run

----------------------------------------------------------------------------
(* FilePlayback. *)

\* The file is never read past its end.
PlaybackInv ==
    /\ Playback!TypeOK /\ Playback!DeliveryIsAccounted
    /\ Playback!Loaded => source.offset <= source.total

\* The requests leave the pass alone.
LEMMA RequestTypes ==
    ASSUME PlaybackInv, Playback!Request
    PROVE  /\ requests' \in 0..MaxRequests
           /\ pc' = pc /\ loaded' = loaded /\ running' = running /\ playback' = playback
           /\ receivers' = receivers /\ channels' = channels /\ arrived' = arrived
  BY PlaybackAssumption DEF PlaybackInv, Playback!TypeOK, Playback!Request,
     Playback!passVars, Playback!vfoVars

\* The histories are numbers, and a sequence of them.
LEMMA HistoryTypes ==
    ASSUME PlaybackInv
    PROVE  /\ from \in Nat /\ start \in Nat /\ lost \in Nat /\ errors \in Nat
           /\ delivered \in Seq(Nat) /\ Len(delivered) \in Nat
           /\ DOMAIN delivered = 1..Len(delivered)
<1>1. {from, start, lost} \subseteq Nat /\ delivered \in Seq(Nat) /\ errors \in 0..MaxErrors
  BY DEF PlaybackInv, Playback!TypeOK
<1>2. QED
  BY <1>1

LEMMA SourceTypes ==
    ASSUME PlaybackInv, Playback!Loaded
    PROVE  /\ source \in Playback!Source /\ source.position <= source.total
           /\ source.total \in Nat /\ source.total \in Lengths
           /\ source.position \in Nat /\ source.offset \in Nat
           /\ source.running \in BOOLEAN
<1>1. source \in Playback!Source /\ source.position <= source.total
  BY DEF PlaybackInv, Playback!TypeOK, Playback!Loaded
<1>2. QED
  BY <1>1, PlaybackAssumption DEF Playback!Source

LEMMA NotLoaded == Playback!NoSource \notin Playback!Source
  BY DEF Playback!NoSource, Playback!Source

LEMMA LoadPlaybackInv == ASSUME PlaybackInv, Playback!Load PROVE PlaybackInv'
<1>1. PICK n \in Lengths :
          source' = [total |-> n, position |-> 0, running |-> FALSE, offset |-> 0]
  BY DEF Playback!Load
<1>2. n \in Nat
  BY PlaybackAssumption
<1>3. source' \in Playback!Source /\ source'.position <= source'.total
  BY <1>1, <1>2 DEF Playback!Source
<1>4. /\ from' = 0 /\ start' = 0 /\ lost' = 0 /\ delivered' = <<>> /\ errors' = errors
      /\ source'.offset = 0 /\ source'.position = 0
  BY <1>1 DEF Playback!Load
<1>5. Playback!TypeOK'
  BY <1>3, <1>4, RequestTypes DEF PlaybackInv, Playback!TypeOK, Playback!Load
<1>6. Playback!DeliveryIsAccounted'
  BY <1>4 DEF Playback!DeliveryIsAccounted
<1>7. QED
  BY <1>3, <1>4, <1>5, <1>6, <1>1, <1>2 DEF PlaybackInv

LEMMA ControlPlaybackInv ==
    ASSUME PlaybackInv, Playback!Clear \/ Playback!Play \/ Playback!Pause
    PROVE  PlaybackInv'
<1>1. /\ UNCHANGED <<errors, from, start, lost, delivered>>
      /\ Playback!Request /\ Playback!Loaded
  BY DEF Playback!Clear, Playback!Play, Playback!Pause, Playback!historyVars
<1>2. \/ source' = Playback!NoSource
      \/ \E on \in BOOLEAN : source' = [source EXCEPT !.running = on]
  BY DEF Playback!Clear, Playback!Play, Playback!Pause
<1>3. CASE source' = Playback!NoSource
  <2>1. Playback!TypeOK'
    BY <1>1, <1>3, RequestTypes DEF PlaybackInv, Playback!TypeOK, Playback!NoSource
  <2>2. QED
    BY <1>3, <2>1 DEF PlaybackInv, Playback!DeliveryIsAccounted, Playback!Loaded
<1>4. ASSUME NEW on \in BOOLEAN, source' = [source EXCEPT !.running = on]
      PROVE  PlaybackInv'
  <2>1. /\ source' \in Playback!Source
        /\ source'.position = source.position /\ source'.total = source.total
        /\ source'.offset = source.offset
    BY <1>1, <1>4, SourceTypes DEF Playback!Source
  <2>2. Playback!TypeOK'
    BY <1>1, <2>1, RequestTypes DEF PlaybackInv, Playback!TypeOK
  <2>3. Playback!DeliveryIsAccounted'
    BY <1>1, <2>1 DEF PlaybackInv, Playback!DeliveryIsAccounted
  <2>4. QED
    BY <1>1, <2>1, <2>2, <2>3 DEF PlaybackInv
<1>5. QED
  BY <1>2, <1>3, <1>4

LEMMA SeekPlaybackInv == ASSUME PlaybackInv, Playback!Seek PROVE PlaybackInv'
<1>1. Playback!Request /\ Playback!Loaded
  BY DEF Playback!Seek
<1>2. PICK position \in 0..(source.total + 1) :
          /\ \/ /\ source' = [source EXCEPT !.position = Playback!Target(position),
                                            !.offset = Playback!Target(position)]
                /\ start' = Playback!Target(position)
                /\ UNCHANGED errors
             \/ /\ errors < MaxErrors /\ errors' = errors + 1
                /\ source' = [source EXCEPT !.position = Playback!Target(position)]
                /\ start' = source.offset
          /\ from' = Playback!Target(position) /\ lost' = 0 /\ delivered' = <<>>
  BY DEF Playback!Seek
<1> DEFINE target == Playback!Target(position)
<1>3. target \in Nat /\ target <= source.total
  BY <1>1, SourceTypes DEF Playback!Target, Playback!Smaller
<1> HIDE DEF target
<1>4. /\ source' \in Playback!Source /\ source'.position <= source'.total
      /\ source'.position = target /\ source'.offset <= source'.total
      /\ source'.offset = start' /\ start' \in Nat
  BY <1>1, <1>2, <1>3, SourceTypes DEF Playback!Source, PlaybackInv, target
<1>5. /\ errors' \in 0..MaxErrors /\ from' = target /\ delivered' = <<>> /\ lost' = 0
      /\ errors' = 0 => start' = target
  <2>1. errors \in 0..MaxErrors
    BY DEF PlaybackInv, Playback!TypeOK
  <2>2. errors' \in {errors, errors + 1} /\ (errors' # errors => errors < MaxErrors)
    BY <1>2
  <2>3. errors' \in 0..MaxErrors
    BY <2>1, <2>2, PlaybackAssumption
  <2>4. from' = target /\ delivered' = <<>> /\ lost' = 0
    BY <1>2 DEF target
  <2>5. errors' = 0 => start' = target
    BY <1>2, <2>1 DEF target
  <2>6. QED
    BY <2>3, <2>4, <2>5
<1>6. Playback!TypeOK'
  BY <1>1, <1>3, <1>4, <1>5, RequestTypes DEF PlaybackInv, Playback!TypeOK
<1>7. Playback!DeliveryIsAccounted'
  <2>1. Len(delivered') = 0 /\ DOMAIN delivered' = {}
    BY <1>5
  <2>2. source'.position = from' + Len(delivered')
    BY <1>3, <1>4, <1>5, <2>1
  <2>3. source'.offset = start' + Len(delivered') + lost'
    <3>1. /\ lost' = 0 /\ source'.offset = start' /\ start' \in Nat
          /\ Len(delivered') = 0
      BY <1>4, <1>5, <2>1
    <3>2. \A n \in Nat : n = n + 0 + 0
      OBVIOUS
    <3>3. start' = start' + 0 + 0
      BY <3>1, <3>2
    <3>4. QED
      BY <3>1, <3>3, Zenon
  <2>4. errors' = 0 => start' = from' /\ lost' = 0
    BY <1>5
  <2>5. QED
    BY <2>1, <2>2, <2>3, <2>4 DEF Playback!DeliveryIsAccounted
<1>8. QED
  BY <1>4, <1>6, <1>7 DEF PlaybackInv

\* vfos.process and vfos.pause, or neither.
LEMMA VfoTypes ==
    ASSUME PlaybackInv,
           Playback!Process \/ Playback!PauseVfos \/ UNCHANGED Playback!vfoVars
    PROVE  /\ receivers' \in {"idle", "active"}
           /\ channels' \in BOOLEAN /\ arrived' \in BOOLEAN
  BY DEF PlaybackInv, Playback!TypeOK, Playback!Process, Playback!PauseVfos,
     Playback!vfoVars

\* The parts of the pass that read nothing.
LEMMA LookPlaybackInv ==
    ASSUME PlaybackInv,
           \/ Playback!TakeStream \/ Playback!Summary
           \/ Playback!IsPlaying \/ Playback!State
    PROVE  PlaybackInv'
<1>1. UNCHANGED <<source, errors, from, start, lost, delivered>>
  BY DEF Playback!TakeStream, Playback!Summary, Playback!IsPlaying, Playback!State,
     Playback!historyVars
<1>2. /\ pc' \in {"summary", "playing", "state", "read"}
      /\ loaded' \in BOOLEAN /\ running' \in BOOLEAN /\ playback' \in BOOLEAN
      /\ requests' \in 0..MaxRequests
      /\ receivers' \in {"idle", "active"} /\ channels' \in BOOLEAN /\ arrived' \in BOOLEAN
  <2>1. Playback!Loaded => source.running \in BOOLEAN
    BY SourceTypes
  <2>2. source.running \in BOOLEAN
    <3>1. CASE source = Playback!NoSource
      BY <3>1 DEF Playback!NoSource
    <3>2. CASE source # Playback!NoSource
      BY <2>1, <3>2 DEF Playback!Loaded
    <3>3. QED
      BY <3>1, <3>2
  <2>3. CASE Playback!Summary
    BY <2>3 DEF PlaybackInv, Playback!TypeOK, Playback!Summary, Playback!Loaded,
       Playback!vfoVars
  <2>4. CASE Playback!IsPlaying
    BY <2>2, <2>4 DEF PlaybackInv, Playback!TypeOK, Playback!IsPlaying, Playback!vfoVars
  <2>5. CASE Playback!State
    <3>1. /\ receivers' \in {"idle", "active"} /\ channels' \in BOOLEAN
          /\ arrived' \in BOOLEAN
      BY <2>5, VfoTypes DEF Playback!State
    <3>2. QED
      BY <2>2, <2>5, <3>1 DEF PlaybackInv, Playback!TypeOK, Playback!State
  <2>6. CASE Playback!TakeStream
    <3>1. requests' \in 0..MaxRequests
      BY <2>6, PlaybackAssumption DEF PlaybackInv, Playback!TypeOK, Playback!TakeStream
    <3>2. channels' = FALSE /\ arrived' = TRUE /\ receivers' = receivers
          /\ UNCHANGED <<pc, loaded, running, playback>>
      BY <2>6 DEF Playback!TakeStream, Playback!passVars
    <3>3. QED
      BY <3>1, <3>2 DEF PlaybackInv, Playback!TypeOK
  <2>7. QED
    BY <2>3, <2>4, <2>5, <2>6
<1>3. Playback!DeliveryIsAccounted'
  BY <1>1 DEF PlaybackInv, Playback!DeliveryIsAccounted, Playback!Loaded
<1>4. QED
  BY <1>1, <1>2, <1>3 DEF PlaybackInv, Playback!TypeOK, Playback!Loaded

\* What a block that is read hands to the receivers.
LEMMA ReadSamplesFacts ==
    ASSUME PlaybackInv, Playback!ReadSamples
    PROVE  \E count \in 1..Block :
              /\ Playback!Loaded /\ source.position + count <= source.total
              /\ source.offset + count <= source.total
              /\ source' = [source EXCEPT !.position = @ + count, !.offset = @ + count]
              /\ delivered' = delivered \o Run(source.offset, count)
<1> DEFINE count == Playback!Smaller(Block, source.total - source.position)
<1>1. Playback!Loaded /\ source.position < source.total
  BY DEF Playback!ReadSamples
<1>2. count \in 1..Block /\ source.position + count <= source.total
  BY <1>1, SourceTypes, PlaybackAssumption DEF Playback!Smaller
<1>3. /\ source' = [source EXCEPT !.position = @ + count, !.offset = @ + count]
      /\ delivered' = delivered \o Run(source.offset, count)
      /\ source.offset + count <= source.total
  BY DEF Playback!ReadSamples, Run
<1>4. QED
  BY <1>1, <1>2, <1>3

\* A block continues what was delivered, at the offset of the file.
LEMMA ReadSamplesInv == ASSUME PlaybackInv, Playback!ReadSamples
                        PROVE  /\ Playback!DeliveryIsAccounted' /\ delivered' \in Seq(Nat)
                               /\ source' \in Playback!Source
                               /\ source'.position <= source'.total
                               /\ source'.offset <= source'.total
<1>1. PICK count \in 1..Block :
            /\ Playback!Loaded /\ source.position + count <= source.total
            /\ source.offset + count <= source.total
            /\ source' = [source EXCEPT !.position = @ + count, !.offset = @ + count]
            /\ delivered' = delivered \o Run(source.offset, count)
  BY ReadSamplesFacts
<1>2. UNCHANGED <<errors, from, start, lost>>
  BY DEF Playback!ReadSamples
<1> DEFINE had == Len(delivered)
           block == Run(source.offset, count)
<1>3. /\ from \in Nat /\ start \in Nat /\ lost \in Nat /\ delivered \in Seq(Nat)
      /\ had \in Nat /\ DOMAIN delivered = 1..had /\ count \in Nat \ {0}
  BY HistoryTypes, PlaybackAssumption
<1>4. /\ source' \in Playback!Source /\ source'.total = source.total
      /\ source'.position = source.position + count
      /\ source'.offset = source.offset + count
  <2>1. /\ source \in Playback!Source
        /\ source' = [source EXCEPT !.position = source.position + count,
                                    !.offset = source.offset + count]
    BY <1>1, SourceTypes
  <2>2. source.position + count \in Nat /\ source.offset + count \in Nat
    BY <1>1, <1>3, SourceTypes
  <2>3. QED
    BY <2>1, <2>2 DEF Playback!Source
<1>5. /\ block \in Seq(Nat) /\ Len(block) = count
      /\ \A i \in 1..count : block[i] = source.offset + i - 1
  BY <1>1, <1>3, SourceTypes, RunIsSequence
<1> HIDE DEF block
<1>6. /\ delivered' \in Seq(Nat) /\ Len(delivered') = had + count
      /\ \A i \in 1..(had + count) :
             delivered'[i] = IF i <= had THEN delivered[i] ELSE block[i - had]
  BY <1>1, <1>3, <1>5, ConcatProperties DEF block
<1>7. /\ source.position = from + had /\ source.offset = start + had + lost
      /\ \A i \in 1..had : /\ delivered[i] \in start..(source.offset - 1)
                           /\ \A j \in 1..(i - 1) : delivered[j] < delivered[i]
      /\ errors = 0 => start = from /\ lost = 0
  BY <1>1, <1>3 DEF PlaybackInv, Playback!DeliveryIsAccounted
<1> HIDE DEF had
<1>8. source.offset \in Nat /\ source.position \in Nat /\ source.total \in Nat
  BY <1>1, SourceTypes
<1>9. /\ \A i \in 1..had : delivered'[i] = delivered[i]
      /\ \A i \in (had + 1)..(had + count) :
             delivered'[i] = source.offset + (i - had) - 1
  <2>1. ASSUME NEW i \in 1..had PROVE delivered'[i] = delivered[i]
    BY <1>3, <1>6
  <2>2. ASSUME NEW i \in (had + 1)..(had + count)
        PROVE  delivered'[i] = source.offset + (i - had) - 1
    <3>1. i - had \in 1..count /\ i \in 1..(had + count) /\ ~(i <= had)
      BY <1>3
    <3>2. delivered'[i] = block[i - had]
      BY <1>6, <3>1
    <3>3. QED
      BY <1>5, <3>1, <3>2
  <2>3. QED
    BY <2>1, <2>2
<1>10. ASSUME NEW i \in 1..(had + count)
       PROVE  /\ delivered'[i] \in start..(source.offset + count - 1)
              /\ \A j \in 1..(i - 1) : delivered'[j] < delivered'[i]
  <2>1. CASE i <= had
    <3>1. i \in 1..had /\ \A j \in 1..(i - 1) : j \in 1..had
      BY <1>3, <2>1
    <3>2. /\ delivered[i] \in start..(source.offset - 1)
          /\ \A j \in 1..(i - 1) : delivered[j] < delivered[i]
      BY <1>7, <3>1
    <3>3. delivered'[i] = delivered[i] /\ \A j \in 1..(i - 1) : delivered'[j] = delivered[j]
      BY <1>9, <3>1
    <3>4. delivered[i] \in start..(source.offset + count - 1)
      BY <1>3, <1>8, <3>2
    <3>5. QED
      BY <3>2, <3>3, <3>4
  <2>2. CASE i > had
    <3>1. i \in (had + 1)..(had + count)
      BY <1>3, <2>2
    <3>2. delivered'[i] = source.offset + (i - had) - 1
      BY <1>9, <3>1
    <3>3. delivered'[i] \in start..(source.offset + count - 1)
      BY <1>3, <1>7, <1>8, <3>1, <3>2
    <3>4. ASSUME NEW j \in 1..(i - 1) PROVE delivered'[j] < delivered'[i]
      <4>1. CASE j <= had
        <5>1. j \in 1..had
          BY <4>1
        <5>2. delivered'[j] = delivered[j] /\ delivered[j] \in start..(source.offset - 1)
          BY <1>7, <1>9, <5>1
        <5>3. QED
          BY <1>3, <1>8, <3>1, <3>2, <5>2
      <4>2. CASE j > had
        <5>1. j \in (had + 1)..(had + count)
          BY <1>3, <3>1, <4>2
        <5>2. delivered'[j] = source.offset + (j - had) - 1
          BY <1>9, <5>1
        <5>3. QED
          BY <1>3, <1>8, <3>1, <3>2, <5>1, <5>2
      <4>3. QED
        BY <1>3, <4>1, <4>2
    <3>5. QED
      BY <3>3, <3>4
  <2>3. QED
    BY <1>3, <2>1, <2>2
<1>11. DOMAIN delivered' = 1..(had + count)
  BY <1>6
<1>12. /\ source.position + count = from + (had + count)
       /\ source.offset + count = start + (had + count) + lost
  BY <1>3, <1>7
<1>13. Playback!DeliveryIsAccounted'
  <2>1. source'.position = from' + Len(delivered')
    BY <1>2, <1>4, <1>6, <1>12
  <2>2. source'.offset = start' + Len(delivered') + lost'
    BY <1>2, <1>4, <1>6, <1>12
  <2>3. ASSUME NEW i \in DOMAIN delivered'
        PROVE  /\ delivered'[i] \in start'..(source'.offset - 1)
               /\ \A j \in 1..(i - 1) : delivered'[j] < delivered'[i]
    <3>1. i \in 1..(had + count)
      BY <1>11
    <3>2. /\ delivered'[i] \in start..(source.offset + count - 1)
          /\ \A j \in 1..(i - 1) : delivered'[j] < delivered'[i]
      BY <1>10, <3>1
    <3>3. start' = start /\ source'.offset - 1 = source.offset + count - 1
      BY <1>2, <1>3, <1>4, <1>8
    <3>4. QED
      BY <3>2, <3>3, Zenon
  <2>4. errors' = 0 => start' = from' /\ lost' = 0
    BY <1>2, <1>7
  <2>5. QED
    BY <2>1, <2>2, <2>3, <2>4 DEF Playback!DeliveryIsAccounted
<1>14. QED
  BY <1>1, <1>4, <1>6, <1>13

\* A failing read moves the file past samples that nobody gets.
LEMMA ReadErrorInv ==
    ASSUME PlaybackInv, Playback!ReadError
    PROVE  /\ Playback!DeliveryIsAccounted' /\ lost' \in Nat /\ errors' \in 0..MaxErrors
           /\ source' \in Playback!Source /\ source'.position <= source'.total
           /\ source'.offset <= source'.total
<1>1. /\ Playback!Loaded /\ source.position < source.total
      /\ UNCHANGED <<from, start, delivered>>
  BY DEF Playback!ReadError
<1> DEFINE count == Playback!Smaller(Block, source.total - source.position)
<1>2. count <= source.total - source.position /\ count \in Nat
  BY <1>1, SourceTypes, PlaybackAssumption DEF Playback!Smaller
<1>3. /\ from \in Nat /\ start \in Nat /\ lost \in Nat
      /\ Len(delivered) \in Nat /\ DOMAIN delivered = 1..Len(delivered)
      /\ errors \in 0..MaxErrors /\ MaxErrors \in Nat
  BY HistoryTypes, PlaybackAssumption DEF PlaybackInv, Playback!TypeOK
<1>4. /\ source \in Playback!Source /\ source.total \in Nat /\ source.position \in Nat
      /\ source.offset \in Nat /\ source.offset <= source.total
  BY <1>1, SourceTypes DEF PlaybackInv
<1>5. /\ source.position = from + Len(delivered)
      /\ source.offset = start + Len(delivered) + lost
      /\ \A i \in DOMAIN delivered :
             /\ delivered[i] \in start..(source.offset - 1)
             /\ \A j \in 1..(i - 1) : delivered[j] < delivered[i]
      /\ errors = 0 => start = from /\ lost = 0
  BY <1>1 DEF PlaybackInv, Playback!DeliveryIsAccounted
<1>6. PICK read \in Nat :
          /\ source' = [source EXCEPT !.offset = source.offset + read]
          /\ lost' = lost + read /\ source.offset + read <= source.total
          /\ errors' \in {errors, errors + 1} /\ (errors' = errors + 1 => errors < MaxErrors)
          /\ errors' # 0
  <2>1. CASE /\ source.offset + count > source.total
             /\ source' = [source EXCEPT !.offset = source.total]
             /\ lost' = lost + (source.total - source.offset)
             /\ UNCHANGED errors
    <3>1. source.total - source.offset \in Nat
          /\ source.offset + (source.total - source.offset) = source.total
      BY <1>4
    <3>2. errors # 0
      BY <1>2, <1>3, <1>4, <1>5, <2>1
    <3>3. errors + 1 # errors
      BY <1>3
    <3>4. PICK read \in Nat : read = source.total - source.offset
      BY <3>1
    <3>5. source.offset + read = source.total
      BY <3>1, <3>4
    <3>6. /\ source' = [source EXCEPT !.offset = source.offset + read]
          /\ lost' = lost + read /\ source.offset + read <= source.total
      BY <1>4, <2>1, <3>4, <3>5
    <3>7. QED
      BY <2>1, <3>2, <3>3, <3>6
  <2>2. CASE /\ errors < MaxErrors /\ errors' = errors + 1
             /\ \E read \in 0..(count - 1) :
                   /\ source.offset + read <= source.total
                   /\ source' = [source EXCEPT !.offset = @ + read]
                   /\ lost' = lost + read
    BY <1>2, <1>3, <2>2
  <2>3. QED
    BY <2>1, <2>2 DEF Playback!ReadError
<1>7. /\ source' \in Playback!Source /\ source'.total = source.total
      /\ source'.position = source.position /\ source'.offset = source.offset + read
  BY <1>4, <1>6 DEF Playback!Source
<1>8. errors' \in 0..MaxErrors /\ lost' \in Nat
  BY <1>3, <1>6
<1>9. source.offset + read = start + Len(delivered) + (lost + read)
  BY <1>3, <1>5
<1>10. \A i \in DOMAIN delivered : delivered[i] \in start..(source.offset + read - 1)
  BY <1>3, <1>4, <1>5
<1>11. Playback!DeliveryIsAccounted'
  <2>1. source'.position = from' + Len(delivered')
    BY <1>1, <1>5, <1>7
  <2>2. source'.offset = start' + Len(delivered') + lost'
    BY <1>1, <1>6, <1>7, <1>9
  <2>3. ASSUME NEW i \in DOMAIN delivered'
        PROVE  /\ delivered'[i] \in start'..(source'.offset - 1)
               /\ \A j \in 1..(i - 1) : delivered'[j] < delivered'[i]
    <3>1. delivered' = delivered /\ start' = start
      BY <1>1
    <3>2. i \in DOMAIN delivered
      BY <3>1
    <3>3. /\ delivered[i] \in start..(source.offset + read - 1)
          /\ \A j \in 1..(i - 1) : delivered[j] < delivered[i]
      BY <1>5, <1>10, <3>2
    <3>4. source'.offset - 1 = source.offset + read - 1
      BY <1>4, <1>7
    <3>5. QED
      BY <3>1, <3>3, <3>4, Zenon
  <2>4. QED
    BY <1>6, <2>1, <2>2, <2>3 DEF Playback!DeliveryIsAccounted
<1>12. QED
  BY <1>1, <1>4, <1>6, <1>7, <1>8, <1>11

LEMMA ReadPlaybackInv == ASSUME PlaybackInv, Playback!Read PROVE PlaybackInv'
<1>1. pc' = "summary" /\ UNCHANGED <<requests, loaded, running, playback>>
  BY DEF Playback!Read
<1>2. CASE Playback!ReadNothing
  <2>1. UNCHANGED <<source, errors, from, start, lost, delivered>>
    BY <1>2 DEF Playback!ReadNothing, Playback!historyVars
  <2>2. /\ receivers' \in {"idle", "active"}
        /\ channels' \in BOOLEAN /\ arrived' \in BOOLEAN
    BY <1>2, VfoTypes DEF Playback!ReadNothing, Playback!Silence
  <2>3. Playback!TypeOK'
    BY <1>1, <2>1, <2>2 DEF PlaybackInv, Playback!TypeOK
  <2>4. QED
    BY <2>1, <2>3 DEF PlaybackInv, Playback!DeliveryIsAccounted, Playback!Loaded
<1>3. CASE Playback!ReadEnd
  <2>1. Playback!Loaded /\ source' = [source EXCEPT !.running = FALSE]
        /\ UNCHANGED <<errors, from, start, lost, delivered>>
    BY <1>3 DEF Playback!ReadEnd, Playback!historyVars
  <2>2. /\ source' \in Playback!Source
        /\ source'.position = source.position /\ source'.total = source.total
        /\ source'.offset = source.offset
    BY <2>1, SourceTypes DEF Playback!Source
  <2>3. /\ receivers' \in {"idle", "active"}
        /\ channels' \in BOOLEAN /\ arrived' \in BOOLEAN
    BY <1>3, VfoTypes DEF Playback!ReadEnd, Playback!Silence
  <2>4. Playback!TypeOK'
    BY <1>1, <2>1, <2>2, <2>3 DEF PlaybackInv, Playback!TypeOK
  <2>5. Playback!DeliveryIsAccounted'
    BY <2>1, <2>2 DEF PlaybackInv, Playback!DeliveryIsAccounted
  <2>6. QED
    BY <2>1, <2>2, <2>4, <2>5 DEF PlaybackInv
<1>4. CASE Playback!ReadSamples
  <2>1. /\ UNCHANGED <<errors, from, start, lost>>
        /\ receivers' \in {"idle", "active"}
        /\ channels' \in BOOLEAN /\ arrived' \in BOOLEAN
    BY <1>4, VfoTypes DEF Playback!ReadSamples
  <2>2. Playback!TypeOK'
    BY <1>1, <1>4, <2>1, ReadSamplesInv DEF PlaybackInv, Playback!TypeOK
  <2>3. QED
    BY <1>4, <2>2, ReadSamplesInv DEF PlaybackInv
<1>5. CASE Playback!ReadError
  <2>1. UNCHANGED <<receivers, channels, arrived, from, start, delivered>>
    BY <1>5 DEF Playback!ReadError, Playback!vfoVars
  <2>2. Playback!TypeOK'
    BY <1>1, <1>5, <2>1, ReadErrorInv DEF PlaybackInv, Playback!TypeOK
  <2>3. QED
    BY <1>5, <2>2, ReadErrorInv DEF PlaybackInv
<1>6. QED
  BY <1>2, <1>3, <1>4, <1>5 DEF Playback!Read

LEMMA InitPlaybackInv == Playback!Init => PlaybackInv
<1> SUFFICES ASSUME Playback!Init PROVE PlaybackInv
  OBVIOUS
<1>1. source = Playback!NoSource /\ source.position = 0 /\ source.total = 0
  BY DEF Playback!Init, Playback!NoSource
<1>2. requests \in 0..MaxRequests /\ errors \in 0..MaxErrors
      /\ from = 0 /\ start = 0 /\ lost = 0 /\ delivered = <<>>
  BY PlaybackAssumption DEF Playback!Init
<1>3. Playback!TypeOK
  <2>1. /\ pc = "summary" /\ loaded = FALSE /\ running = FALSE /\ playback = FALSE
        /\ receivers = "idle" /\ channels = FALSE /\ arrived = FALSE
    BY DEF Playback!Init
  <2>2. {from, start, lost} \subseteq Nat /\ delivered \in Seq(Nat) /\ source.position <= source.total
    BY <1>1, <1>2
  <2>3. QED
    BY <1>1, <1>2, <2>1, <2>2 DEF Playback!TypeOK
<1>4. QED
  BY <1>1, <1>3 DEF PlaybackInv, Playback!DeliveryIsAccounted, Playback!Loaded

LEMMA NextPlaybackInv == PlaybackInv /\ [Next]_vars => PlaybackInv'
<1> SUFFICES ASSUME PlaybackInv, [Next]_vars PROVE PlaybackInv'
  OBVIOUS
<1>1. CASE UNCHANGED playbackVars
  BY <1>1 DEF playbackVars, PlaybackInv, Playback!TypeOK, Playback!DeliveryIsAccounted,
     Playback!Loaded
<1>2. CASE PlaybackRequest
  BY <1>2, LoadPlaybackInv, ControlPlaybackInv, SeekPlaybackInv DEF PlaybackRequest
<1>3. CASE SetFftSize
  <2>1. /\ requests < MaxRequests /\ requests' = requests + 1
        /\ UNCHANGED <<source, errors, pc, loaded, running, playback, receivers, channels,
                       arrived, from, start, lost, delivered>>
    BY <1>3 DEF SetFftSize
  <2>2. requests' \in 0..MaxRequests
    BY <2>1, PlaybackAssumption DEF PlaybackInv, Playback!TypeOK
  <2>3. QED
    BY <2>1, <2>2 DEF PlaybackInv, Playback!TypeOK, Playback!DeliveryIsAccounted,
       Playback!Loaded
<1>4. CASE TakeStream \/ Summary \/ IsPlaying \/ State
  BY <1>4, LookPlaybackInv DEF TakeStream, Summary, IsPlaying, State
<1>5. CASE Read
  BY <1>5, ReadPlaybackInv DEF Read
<1>6. CASE Measure \/ Retain \/ Send
  BY <1>1, <1>6 DEF Measure, Retain, Send
<1>7. ASSUME NEW c \in Clients, Connect(c) \/ Receive(c) \/ Leave(c)
      PROVE  PlaybackInv'
  BY <1>1, <1>7 DEF Connect, Receive, Leave
<1>8. CASE UNCHANGED vars
  BY <1>1, <1>8 DEF vars
<1>9. QED
  BY <1>2, <1>3, <1>4, <1>5, <1>6, <1>7, <1>8 DEF Next, Pass

\* Whatever requests come between the reads of a pass and whatever seeks and reads fail:
\* the reported position advances by as much as the receivers got, the file by that and
\* by what failing reads passed over, and every sample is delivered at most once and in
\* order; without failures none is missing (SigmfSource::read_block and seek_samples).
THEOREM DeliveredTheorem == Spec => []DeliveryIsAccounted
<1>1. Init => PlaybackInv
  BY InitPlaybackInv DEF Init
<1>2. PlaybackInv => DeliveryIsAccounted
  BY DEF PlaybackInv, DeliveryIsAccounted
<1>3. QED
  BY <1>1, <1>2, NextPlaybackInv, PTL DEF Spec

----------------------------------------------------------------------------
(* The pass: the buffer and the frame cut from it. *)

PassInv ==
    /\ fftSize \in Sizes /\ size \in Sizes /\ label \in Lengths \cup {0}
    /\ held \subseteq Lengths \cup {0} /\ iq \in [1..Block -> Nat]
    /\ source.total \in held /\ (pc = "read" => label \in held)

LEMMA SizeFacts == Block \in Nat \ {0} /\ \A n \in Sizes : n \in 1..Block
  BY PlaybackAssumption, StageAssumption

\* The last of the last samples are the last samples.
LEMMA LastOfLast ==
    ASSUME NEW s \in Seq(Nat), NEW c \in 1..Len(s), NEW n \in 1..c
    PROVE  SubSeq(Last(s, c), c - n + 1, c) = Last(s, n)
<1> DEFINE i == Len(s) - c + 1
           j == Len(s)
           m == c - n + 1
<1>1. Len(s) \in Nat
  OBVIOUS
<1>2. /\ i \in 1..Len(s) /\ j \in 1..Len(s) /\ m \in 1..(j - i + 1) /\ c \in 1..(j - i + 1)
      /\ i + m - 1 = Len(s) - n + 1 /\ i + c - 1 = Len(s)
  BY <1>1
<1>3. SubSeq(s, i, j) = Last(s, c)
  BY DEF Last
<1> HIDE DEF i, j, m
<1>4. SubSeq(SubSeq(s, i, j), m, c) = SubSeq(s, i + m - 1, i + c - 1)
  BY <1>2, SubSeqOfSubSeq
<1>5. QED
  BY <1>2, <1>3, <1>4 DEF Last, m

\* The samples of a block, as the loop learns of them.
LEMMA BlockFacts ==
    ASSUME PlaybackInv, Playback!Read, NEW count, count = Len(delivered') - Len(delivered)
    PROVE  /\ count \in 0..Block /\ count <= Len(delivered')
           /\ delivered' \in Seq(Nat) /\ Len(delivered') \in Nat
           /\ count # 0 => Playback!Loaded /\ source.total > 0
<1>1. delivered \in Seq(Nat) /\ Len(delivered) \in Nat
  BY DEF PlaybackInv, Playback!TypeOK
<1>2. delivered' \in Seq(Nat) /\ Len(delivered') \in Nat
  BY ReadPlaybackInv DEF PlaybackInv, Playback!TypeOK
<1>3. CASE Playback!ReadSamples
  <2>1. PICK n \in 1..Block :
              /\ Playback!Loaded /\ source.position + n <= source.total
              /\ delivered' = delivered \o Run(source.offset, n)
    BY <1>3, ReadSamplesFacts
  <2>2. n \in Nat \ {0}
    BY <2>1, SizeFacts
  <2>3. Run(source.offset, n) \in Seq(Nat) /\ Len(Run(source.offset, n)) = n
    BY <2>1, <2>2, SourceTypes, RunIsSequence
  <2>4. Len(delivered') = Len(delivered) + n
    BY <1>1, <2>1, <2>3, ConcatProperties
  <2>5. count = n
    BY <1>1, <2>2, <2>4
  <2>6. source.total > 0
    BY <2>1, <2>2, SourceTypes
  <2>7. QED
    BY <1>1, <1>2, <2>1, <2>2, <2>4, <2>5, <2>6, SizeFacts
<1>4. CASE ~Playback!ReadSamples
  <2>1. delivered' = delivered
    BY <1>4 DEF Playback!Read, Playback!ReadNothing, Playback!ReadEnd, Playback!ReadError,
       Playback!historyVars
  <2>2. count = 0
    BY <1>1, <2>1
  <2>3. QED
    BY <1>2, <2>2, SizeFacts
<1>5. QED
  BY <1>3, <1>4

\* What the buffer holds after a block: the block, then what was there.
LEMMA BufferFacts ==
    ASSUME PlaybackInv, PassInv, Read, NEW count, count = Len(delivered') - Len(delivered)
    PROVE  /\ iq' \in [1..Block -> Nat]
           /\ count >= size => Window(iq', count) = Last(delivered', size)
<1> DEFINE block == Last(delivered', count)
           rest == SubSeq(iq, count + 1, Block)
           L == Len(delivered')
<1>1. Playback!Read /\ iq' = block \o rest
  BY DEF Read
<1>2. /\ count \in 0..Block /\ count <= L /\ delivered' \in Seq(Nat) /\ L \in Nat
      /\ Block \in Nat \ {0} /\ size \in 1..Block
  BY <1>1, BlockFacts, SizeFacts DEF PassInv
<1>3. block \in Seq(Nat) /\ Len(block) = count
  <2>1. block = SubSeq(delivered', L - count + 1, L)
    BY DEF Last
  <2>2. L - count + 1 \in Int /\ L \in Int /\ \A i \in (L - count + 1)..L : i \in 1..L
    BY <1>2
  <2>3. \A i \in (L - count + 1)..L : delivered'[i] \in Nat
    BY <1>2, <2>2, ElementOfSeq
  <2>4. /\ SubSeq(delivered', L - count + 1, L) \in Seq(Nat)
        /\ Len(SubSeq(delivered', L - count + 1, L))
              = IF L - count + 1 <= L THEN L - (L - count + 1) + 1 ELSE 0
    BY <2>2, <2>3, SubSeqProperties
  <2>5. QED
    <3>1. Len(block) = IF L - count + 1 <= L THEN L - (L - count + 1) + 1 ELSE 0
      BY <2>1, <2>4
    <3>2. Len(block) = count
      BY <1>2, <3>1
    <3>3. QED
      BY <2>1, <2>4, <3>2
<1>4. rest \in Seq(Nat) /\ Len(rest) = Block - count
  <2>1. count + 1 \in Int /\ Block \in Int /\ \A i \in (count + 1)..Block : i \in 1..Block
    BY <1>2
  <2>2. \A i \in (count + 1)..Block : iq[i] \in Nat
    BY <2>1 DEF PassInv
  <2>3. /\ rest \in Seq(Nat)
        /\ Len(rest) = IF count + 1 <= Block THEN Block - (count + 1) + 1 ELSE 0
    BY <2>1, <2>2, SubSeqProperties
  <2>4. QED
    BY <1>2, <2>3
<1> HIDE DEF block, rest
<1>5. iq' \in [1..Block -> Nat]
  <2>1. iq' \in Seq(Nat) /\ Len(iq') = count + (Block - count)
    BY <1>1, <1>3, <1>4, ConcatProperties
  <2>2. Len(iq') = Block
    BY <1>2, <2>1
  <2>3. QED
    BY <2>1, <2>2, LenProperties
<1>6. ASSUME count >= size PROVE Window(iq', count) = Last(delivered', size)
  <2>1. count - size + 1 \in 1..count /\ count \in 1..count
    BY <1>2, <1>6
  <2>2. Window(iq', count) = SubSeq(block, count - size + 1, count)
    <3>1. count - size + 1 \in 1..Len(block) /\ count \in 1..Len(block)
      BY <1>3, <2>1
    <3>2. SubSeq(block \o rest, count - size + 1, count)
              = SubSeq(block, count - size + 1, count)
      BY <1>3, <1>4, <3>1, SubSeqOfConcat1
    <3>3. QED
      BY <1>1, <3>2 DEF Window
  <2>3. count \in 1..Len(delivered') /\ size \in 1..count
    BY <1>2, <1>6
  <2>4. SubSeq(Last(delivered', count), count - size + 1, count) = Last(delivered', size)
    BY <1>2, <2>3, LastOfLast
  <2>5. QED
    BY <2>2, <2>4 DEF block
<1>7. QED
  BY <1>5, <1>6

LEMMA InitPassInv == Init => PassInv
<1> SUFFICES ASSUME Init PROVE PassInv
  OBVIOUS
<1>1. iq \in [1..Block -> Nat]
  BY DEF Init
<1>2. pc # "read"
  BY DEF Init, Playback!Init
<1>3. fftSize \in Sizes /\ size \in Sizes /\ label = 0 /\ held = {0}
  BY DEF Init
<1>4. source.total = 0
  BY DEF Init, Playback!Init, Playback!NoSource
<1>5. QED
  BY <1>1, <1>2, <1>3, <1>4 DEF PassInv

LEMMA NextPassInv == PlaybackInv /\ PassInv /\ [Next]_vars => PassInv'
<1> SUFFICES ASSUME PlaybackInv, PassInv, [Next]_vars PROVE PassInv'
  OBVIOUS
<1>1. CASE UNCHANGED <<playbackVars, fftSize, passVars>>
  BY <1>1 DEF playbackVars, passVars, PassInv, Playback!Loaded
<1>a. source'.total \in Lengths \cup {0}
  <2>1. PlaybackInv'
    BY NextPlaybackInv
  <2>2. source' \in Playback!Source \cup {Playback!NoSource}
    BY <2>1 DEF PlaybackInv, Playback!TypeOK
  <2>3. QED
    BY <2>2 DEF Playback!Source, Playback!NoSource
<1>2. CASE PlaybackRequest
  <2>1. UNCHANGED <<fftSize, size, label, iq, pc>> /\ held' = held \cup {source'.total}
    BY <1>2 DEF PlaybackRequest, Playback!Load, Playback!Clear, Playback!Play,
       Playback!Pause, Playback!Seek, Playback!Request, Playback!passVars
  <2>2. QED
    BY <1>a, <2>1 DEF PassInv
<1>4. CASE SetFftSize
  BY <1>4 DEF SetFftSize, passVars, PassInv, Playback!Loaded
<1>5. CASE Summary
  BY <1>5, <1>a DEF Summary, Playback!Summary, Playback!historyVars, PassInv
<1>13. CASE TakeStream
  BY <1>13 DEF TakeStream, Playback!TakeStream, Playback!passVars, passVars, PassInv
<1>6. CASE IsPlaying
  BY <1>6 DEF IsPlaying, Playback!IsPlaying, Playback!historyVars, passVars, PassInv,
     Playback!Loaded
<1>7. CASE State
  <2>1. /\ UNCHANGED <<source, fftSize, size, held, iq>>
        /\ label' = IF loaded /\ Playback!Loaded THEN source.total ELSE 0
    BY <1>7 DEF State, Playback!State
  <2>2. pc' = "read" => loaded
    BY <1>7 DEF State, Playback!State
  <2>3. label' \in Lengths \cup {0}
    BY <2>1, SourceTypes
  <2>4. ~Playback!Loaded => source.total = 0
    BY DEF Playback!Loaded, Playback!NoSource
  <2>5. QED
    BY <2>1, <2>2, <2>3, <2>4 DEF PassInv
<1>8. CASE Read
  <2>1. UNCHANGED <<fftSize, size, label, held>> /\ pc' = "summary" /\ Playback!Read
    BY <1>8 DEF Read, Playback!Read
  <2>2. iq' \in [1..Block -> Nat]
    BY <1>8, BufferFacts
  <2>3. source'.total = source.total
    <3>1. CASE Playback!ReadNothing
      BY <3>1 DEF Playback!ReadNothing
    <3>2. CASE Playback!Loaded /\ ~Playback!ReadNothing
      <4>1. source \in Playback!Source
        BY <3>2, SourceTypes
      <4>2. QED
        BY <2>1, <3>2, <4>1 DEF Playback!Read, Playback!ReadEnd, Playback!ReadSamples,
           Playback!ReadError, Playback!Source
    <3>3. QED
      BY <2>1, <3>1, <3>2 DEF Playback!Read, Playback!ReadEnd, Playback!ReadSamples,
         Playback!ReadError
  <2>4. QED
    BY <2>1, <2>2, <2>3 DEF PassInv
<1>9. CASE Measure \/ Retain \/ Send
  BY <1>1, <1>9 DEF Measure, Retain, Send
<1>10. ASSUME NEW c \in Clients, Connect(c) \/ Receive(c) \/ Leave(c)
       PROVE  PassInv'
  BY <1>1, <1>10 DEF Connect, Receive, Leave
<1>11. CASE UNCHANGED vars
  BY <1>1, <1>11 DEF vars
<1>12. QED
  BY <1>2, <1>4, <1>5, <1>6, <1>7, <1>8, <1>9, <1>10, <1>11, <1>13
     DEF Next, Pass

\* A frame that is on its way comes from a block.
LEMMA DisplayFacts ==
    ASSUME PlaybackInv, PassInv, Read, ~UNCHANGED <<stage, frame>>
    PROVE  /\ stage' = "measure" /\ sequence < MaxFrames
           /\ frame'.window = Last(delivered', size)
           /\ {frame'.label, frame'.file} \subseteq held
           /\ frame' # NoFrame
<1> DEFINE count == Len(delivered') - Len(delivered)
<1>1. /\ count >= size /\ sequence < MaxFrames /\ stage' = "measure"
      /\ frame' = [window |-> Window(iq', count), label |-> label,
                   file |-> source.total]
  BY DEF Read
<1>2. Window(iq', count) = Last(delivered', size)
  BY <1>1, BufferFacts
<1>3. Playback!Loaded /\ source.total > 0
  <2>1. count # 0
    BY <1>1, SizeFacts DEF PassInv
  <2>2. QED
    BY <2>1, BlockFacts DEF Read
<1>4. {label, source.total} \subseteq held
  BY DEF PassInv, Read, Playback!Read
<1>5. frame'.file # NoFrame.file
  <2>1. frame'.file = source.total /\ NoFrame.file = 0
    BY <1>1 DEF NoFrame
  <2>2. QED
    BY <1>3, <2>1
<1> HIDE DEF count
<1>6. QED
  BY <1>1, <1>2, <1>4, <1>5

\* docs/dsp.md: "selects the tail FFT window of eligible blocks for display".  A frame
\* shows the last samples that the receivers got; the file they are from and the file
\* whose settings the frame carries were both loaded at some time of the pass, so that
\* they differ only when a request changed the file within it (Engine::run).
THEOREM FrameTheorem == Spec => FrameIsTrue
<1> DEFINE P == stage = "none" /\ stage' # "none" =>
                   /\ frame'.window = Last(delivered', size)
                   /\ {frame'.label, frame'.file} \subseteq held
<1>1. PlaybackInv /\ PassInv /\ [Next]_vars => [P]_vars
  <2> SUFFICES ASSUME PlaybackInv, PassInv, Next, stage = "none", stage' # "none" PROVE P
    OBVIOUS
  <2>1. Read
    BY DEF Next, Pass, PlaybackRequest, SetFftSize, TakeStream, Summary, IsPlaying, State, Measure,
       Retain, Send, Connect, Receive, Leave
  <2>2. QED
    BY <2>1, DisplayFacts
<1>2. Init => PlaybackInv /\ PassInv
  BY InitPlaybackInv, InitPassInv DEF Init
<1>3. QED
  BY <1>1, <1>2, NextPlaybackInv, NextPassInv, PTL DEF Spec, FrameIsTrue

----------------------------------------------------------------------------
(* The stores and their readers. *)

StageInv ==
    /\ stage \in {"none", "measure", "retain", "send"}
    /\ (stage = "none") = (frame = NoFrame)
    /\ sequence \in 0..MaxFrames /\ (stage # "none" => sequence < MaxFrames)
    /\ latest = IF stage \in {"retain", "send"} THEN sequence + 1 ELSE sequence
    /\ dropped \in 0..sequence
    /\ next \in [Clients -> 0..(sequence + 1)] /\ shown \in [Clients -> 0..sequence]

\* The last frame retained.
Kept == IF stage = "send" THEN sequence + 1 ELSE sequence

\* What is retained are the numbers up to that frame, as many as there is room for.
RetainedInv ==
    /\ observations \in Seq(1..MaxFrames)
    /\ Len(observations) = IF Kept < Retained THEN Kept ELSE Retained
    /\ \A i \in 1..Len(observations) : observations[i] = Kept - Len(observations) + i

LEMMA RingFacts == MaxFrames \in Nat /\ Ring \in Nat \ {0} /\ Retained \in Nat \ {0}
  BY StageAssumption

LEMMA InitStageInv == Init => StageInv /\ RetainedInv
<1> SUFFICES ASSUME Init PROVE StageInv /\ RetainedInv
  OBVIOUS
<1>1. /\ stage = "none" /\ frame = NoFrame /\ sequence = 0 /\ latest = 0 /\ dropped = 0
      /\ observations = <<>>
      /\ next = [c \in Clients |-> 0] /\ shown = [c \in Clients |-> 0]
  BY DEF Init
<1>2. StageInv
  BY <1>1, RingFacts DEF StageInv
<1>3. RetainedInv
  <2>1. Kept = 0 /\ Len(observations) = 0 /\ observations \in Seq(1..MaxFrames)
    BY <1>1 DEF Kept
  <2>2. QED
    BY <2>1, RingFacts DEF RetainedInv
<1>4. QED
  BY <1>2, <1>3

LEMMA ReadStageInv ==
    ASSUME PlaybackInv, PassInv, StageInv, RetainedInv, Read
    PROVE  StageInv' /\ RetainedInv'
<1>1. UNCHANGED <<latest, observations, sequence, dropped, next, shown>> /\ stage = "none"
  BY DEF Read, storeVars, clientVars
<1>2. CASE UNCHANGED <<stage, frame>>
  BY <1>1, <1>2 DEF StageInv, RetainedInv, Kept
<1>3. CASE ~UNCHANGED <<stage, frame>>
  <2>1. stage' = "measure" /\ sequence < MaxFrames /\ frame' # NoFrame
    BY <1>3, DisplayFacts
  <2>2. StageInv'
    BY <1>1, <2>1 DEF StageInv
  <2>3. RetainedInv'
    BY <1>1, <2>1 DEF RetainedInv, Kept
  <2>4. QED
    BY <2>2, <2>3
<1>4. QED
  BY <1>2, <1>3

LEMMA MeasureStageInv ==
    ASSUME StageInv, RetainedInv, Measure PROVE StageInv' /\ RetainedInv'
<1>1. /\ stage = "measure" /\ stage' = "retain" /\ latest' = sequence + 1
      /\ UNCHANGED <<frame, observations, sequence, dropped, next, shown>>
  BY DEF Measure, clientVars
<1>2. StageInv'
  BY <1>1 DEF StageInv
<1>3. RetainedInv'
  BY <1>1 DEF RetainedInv, Kept
<1>4. QED
  BY <1>2, <1>3

\* Eviction makes room for one and keeps the rest.
LEMMA EvictedFacts ==
    ASSUME StageInv, RetainedInv, stage = "retain"
    PROVE  /\ Evicted \in Seq(1..MaxFrames)
           /\ Len(Evicted) = IF sequence < Retained THEN sequence ELSE Retained - 1
           /\ \A i \in 1..Len(Evicted) : Evicted[i] = sequence - Len(Evicted) + i
<1>1. /\ observations \in Seq(1..MaxFrames) /\ Kept = sequence /\ sequence \in Nat
      /\ Len(observations) = IF sequence < Retained THEN sequence ELSE Retained
      /\ \A i \in 1..Len(observations) : observations[i] = sequence - Len(observations) + i
  BY DEF RetainedInv, Kept, StageInv
<1>2. CASE Len(observations) >= Retained
  <2>1. Evicted = Tail(observations) /\ Len(observations) = Retained /\ sequence >= Retained
        /\ observations # <<>>
    BY <1>1, <1>2, RingFacts DEF Evicted
  <2>2. /\ Evicted \in Seq(1..MaxFrames) /\ Len(Evicted) = Retained - 1
        /\ \A i \in 1..Len(Evicted) : Evicted[i] = observations[i + 1]
    BY <1>1, <2>1, HeadTailProperties
  <2>3. ASSUME NEW i \in 1..Len(Evicted)
        PROVE  Evicted[i] = sequence - Len(Evicted) + i
    <3>1. i + 1 \in 1..Len(observations)
      BY <2>1, <2>2, RingFacts
    <3>2. observations[i + 1] = sequence - Retained + (i + 1)
      BY <1>1, <2>1, <3>1
    <3>3. QED
      BY <1>1, <2>2, <3>2, RingFacts
  <2>4. QED
    BY <1>1, <2>1, <2>2, <2>3
<1>3. CASE ~(Len(observations) >= Retained)
  <2>1. Evicted = observations
    BY <1>3 DEF Evicted
  <2>2. Len(observations) = sequence /\ sequence < Retained
    BY <1>1, <1>3, RingFacts
  <2>3. QED
    BY <1>1, <2>1, <2>2
<1>4. QED
  BY <1>2, <1>3

LEMMA RetainStageInv ==
    ASSUME StageInv, RetainedInv, Retain PROVE StageInv' /\ RetainedInv'
<1>1. /\ stage = "retain" /\ stage' = "send"
      /\ observations' = Append(Evicted, sequence + 1)
      /\ UNCHANGED <<frame, latest, sequence, dropped, next, shown>>
  BY DEF Retain, clientVars
<1>2. StageInv'
  BY <1>1 DEF StageInv
<1>3. /\ Evicted \in Seq(1..MaxFrames)
      /\ Len(Evicted) = IF sequence < Retained THEN sequence ELSE Retained - 1
      /\ \A i \in 1..Len(Evicted) : Evicted[i] = sequence - Len(Evicted) + i
  BY <1>1, EvictedFacts
<1>4. sequence \in Nat /\ sequence + 1 \in 1..MaxFrames
  BY <1>1, RingFacts DEF StageInv
<1>5. /\ observations' \in Seq(1..MaxFrames) /\ Len(observations') = Len(Evicted) + 1
      /\ \A i \in 1..Len(Evicted) : observations'[i] = Evicted[i]
      /\ observations'[Len(Evicted) + 1] = sequence + 1
  BY <1>1, <1>3, <1>4, AppendProperties
<1>6. Kept' = sequence + 1
  BY <1>1 DEF Kept
<1>7. Len(observations') = IF sequence + 1 < Retained THEN sequence + 1 ELSE Retained
  BY <1>3, <1>4, <1>5, RingFacts
<1>8. ASSUME NEW i \in 1..Len(observations')
      PROVE  observations'[i] = sequence + 1 - Len(observations') + i
  <2>1. Len(Evicted) \in Nat
    BY <1>3
  <2>2. CASE i \in 1..Len(Evicted)
    BY <1>3, <1>4, <1>5, <2>1, <2>2
  <2>3. CASE i = Len(Evicted) + 1
    BY <1>4, <1>5, <2>1, <2>3
  <2>4. QED
    BY <1>5, <2>1, <2>2, <2>3
<1>9. RetainedInv'
  <2>1. Len(observations)' = IF Kept' < Retained THEN Kept' ELSE Retained
    BY <1>6, <1>7
  <2>2. ASSUME NEW i \in 1..Len(observations')
        PROVE  observations'[i] = Kept' - Len(observations') + i
    <3>1. observations'[i] = sequence + 1 - Len(observations') + i
      BY <1>8
    <3>2. sequence \in Nat /\ Len(observations') \in Nat
      BY <1>4, <1>5
    <3>3. QED
      BY <1>6, <3>1, <3>2
  <2>3. QED
    BY <1>5, <2>1, <2>2 DEF RetainedInv
<1>10. QED
  BY <1>2, <1>9

LEMMA SendStageInv ==
    ASSUME StageInv, RetainedInv, Send PROVE StageInv' /\ RetainedInv'
<1>1. /\ stage = "send" /\ stage' = "none" /\ frame' = NoFrame
      /\ sequence' = sequence + 1 /\ dropped' \in {dropped, dropped + 1}
      /\ UNCHANGED <<latest, observations, next, shown>>
  BY DEF Send, clientVars
<1>2. sequence' \in 0..MaxFrames /\ latest = sequence' /\ dropped' \in 0..sequence'
  BY <1>1, RingFacts DEF StageInv
<1>3. next \in [Clients -> 0..(sequence' + 1)] /\ shown \in [Clients -> 0..sequence']
  BY <1>1 DEF StageInv
<1>4. StageInv'
  BY <1>1, <1>2, <1>3 DEF StageInv
<1>5. RetainedInv'
  BY <1>1 DEF RetainedInv, Kept
<1>6. QED
  BY <1>4, <1>5

LEMMA ClientStageInv ==
    ASSUME StageInv, RetainedInv, NEW c \in Clients, Connect(c) \/ Receive(c) \/ Leave(c)
    PROVE  StageInv' /\ RetainedInv'
<1>1. UNCHANGED <<stage, frame, latest, observations, sequence, dropped>>
  BY DEF Connect, Receive, Leave, storeVars
<1>2. sequence \in Nat
  BY DEF StageInv
<1>3. /\ next' \in [Clients -> 0..(sequence + 1)]
      /\ shown' \in [Clients -> 0..sequence]
  <2>1. next \in [Clients -> 0..(sequence + 1)] /\ shown \in [Clients -> 0..sequence]
    BY DEF StageInv
  <2>2. Oldest \in 1..(sequence + 1)
    BY <1>2, RingFacts DEF Oldest
  <2>3. CASE Connect(c)
    BY <1>2, <2>1, <2>3 DEF Connect
  <2>4. CASE Receive(c)
    BY <1>2, <2>1, <2>2, <2>4 DEF Receive, Lag
  <2>5. CASE Leave(c)
    BY <1>2, <2>1, <2>5 DEF Leave
  <2>6. QED
    BY <2>3, <2>4, <2>5
<1>4. QED
  BY <1>1, <1>3 DEF StageInv, RetainedInv, Kept

LEMMA NextStageInv ==
    PlaybackInv /\ PassInv /\ StageInv /\ RetainedInv /\ [Next]_vars
        => StageInv' /\ RetainedInv'
<1> SUFFICES ASSUME PlaybackInv, PassInv, StageInv, RetainedInv, [Next]_vars
             PROVE  StageInv' /\ RetainedInv'
  OBVIOUS
<1>1. CASE UNCHANGED <<stage, frame, storeVars, clientVars>>
  BY <1>1 DEF storeVars, clientVars, StageInv, RetainedInv, Kept
<1>2. CASE PlaybackRequest \/ SetFftSize \/ TakeStream \/ Summary \/ IsPlaying \/ State
  BY <1>1, <1>2 DEF PlaybackRequest, SetFftSize, TakeStream, Summary, IsPlaying, State
<1>3. CASE UNCHANGED vars
  BY <1>1, <1>3 DEF vars
<1>4. QED
  BY <1>2, <1>3, ReadStageInv, MeasureStageInv, RetainStageInv, SendStageInv,
     ClientStageInv DEF Next, Pass

IInv == PlaybackInv /\ PassInv /\ StageInv /\ RetainedInv

LEMMA Invariance == Spec => []IInv
<1>1. Init => IInv
  BY InitPlaybackInv, InitPassInv, InitStageInv DEF Init, IInv
<1>2. IInv /\ [Next]_vars => IInv'
  BY NextPlaybackInv, NextPassInv, NextStageInv DEF IInv
<1>3. QED
  BY <1>1, <1>2, PTL DEF Spec

\* Every variable holds a value of its type; what is retained is bounded and the numbers
\* of frames, of the analysis and of the clients stay in step.
THEOREM TypeCorrect == Spec => []TypeOK
<1>1. IInv => TypeOK
  <2> SUFFICES ASSUME IInv PROVE TypeOK
    OBVIOUS
  <2>1. latest \in sequence..(sequence + 1)
    BY DEF IInv, StageInv
  <2>2. Len(observations) <= Retained
    BY RingFacts DEF IInv, StageInv, RetainedInv, Kept
  <2>3. QED
    BY <2>1, <2>2 DEF IInv, PlaybackInv, PassInv, StageInv, RetainedInv, TypeOK
<1>2. QED
  BY <1>1, Invariance, PTL

\* docs/analysis.md: "updated alongside spectrum frames".  A client that has a frame and
\* then asks for the analysis gets that of this frame or a later one, and its observation
\* unless as many as are retained came after it (Engine::run).
THEOREM AnalysisTheorem == Spec => []AnalysisNotBehind
<1>1. IInv => AnalysisNotBehind
  <2> SUFFICES ASSUME IInv, NEW c \in Clients
               PROVE  /\ shown[c] <= latest
                      /\ shown[c] > 0 /\ shown[c] + Retained > latest =>
                             \E i \in DOMAIN observations : observations[i] = shown[c]
    BY DEF AnalysisNotBehind
  <2>1. /\ shown[c] \in 0..sequence /\ sequence \in Nat
        /\ Kept \in {sequence, sequence + 1} /\ latest \in {sequence, sequence + 1}
        /\ Kept <= latest
    BY DEF IInv, StageInv, Kept
  <2>2. /\ observations \in Seq(1..MaxFrames)
        /\ Len(observations) = IF Kept < Retained THEN Kept ELSE Retained
        /\ \A i \in 1..Len(observations) : observations[i] = Kept - Len(observations) + i
    BY DEF IInv, RetainedInv
  <2>3. ASSUME shown[c] > 0, shown[c] + Retained > latest
        PROVE  \E i \in DOMAIN observations : observations[i] = shown[c]
    <3> DEFINE n == Len(observations)
               i == shown[c] - Kept + n
    <3>1. n = IF Kept < Retained THEN Kept ELSE Retained
      BY <2>2
    <3>2. n \in Nat /\ Kept \in Nat /\ shown[c] \in Nat /\ latest \in Nat
      BY <2>1, <2>2
    <3>3. \A j \in 1..n : observations[j] = Kept - n + j
      BY <2>2
    <3>4. DOMAIN observations = 1..n
      BY <2>2
    <3> HIDE DEF n
    <3>5. shown[c] <= Kept /\ shown[c] >= 1 /\ Kept < shown[c] + Retained
      BY <2>1, <2>3, <3>2, RingFacts
    <3>6. i \in 1..n
      BY <3>1, <3>2, <3>5, RingFacts
    <3>7. observations[i] = shown[c]
      BY <3>2, <3>3, <3>6
    <3>8. QED
      BY <3>4, <3>6, <3>7
  <2>4. QED
    BY <2>1, <2>3
<1>2. QED
  BY <1>1, Invariance, PTL
=============================================================================
