----------------------------- MODULE Storage_proofs -----------------------------
(***************************************************************************)
(* Proofs about what reaches the SQLite database and stays there.          *)
(*                                                                         *)
(* EventPipeline, for any capacities and any history: losses are counted   *)
(* by the number of events, stored ones by the size of a set.  The two     *)
(* agree because no event is written twice: InOrder says that events end   *)
(* later the less far they have come on their way from the tracker through *)
(* the queue to the disk.  Phases is the order in which the threads end:   *)
(* no event is made once the store is gone.  TrackerFindsEvents compares   *)
(* the tracker with pauses and starts of the whole history; Tracking says  *)
(* which of them the tracker's few variables stand for between frames.     *)
(* DetectionsComplete needs the place of every event that a request asked  *)
(* for (InTurn) and what the request read of them before (Reading).        *)
(*                                                                         *)
(* MetadataStore, for any sets of recordings, any number of tables and of  *)
(* crashes: a migration cut short leaves its row without the version, so   *)
(* the argument for ServingMeansMigrated counts what the rows already      *)
(* cover: every version up to user_version is recorded, and while the      *)
(* migrations run user_version is the larger of the version read at the    *)
(* start and the migration before the current one.  StartedIsIndexed rests *)
(* on the order of the two statements: the session is there before the     *)
(* index entry.                                                            *)
(***************************************************************************)
EXTENDS EventPipeline, MetadataStore, SequenceTheorems, FiniteSetTheorems,
        WellFoundedInduction, TLAPS

----------------------------------------------------------------------------
(* EventPipeline. *)

USE QuietAssumption, CapacityAssumption, BoundAssumption
USE DEF AfterTimeout, DspJoined

----------------------------------------------------------------------------
LEMMA InitType == Init => TypeOK
<1> SUFFICES ASSUME Init PROVE TypeOK
  OBVIOUS
<1>1. <<>> \in Seq(BOOLEAN) /\ <<>> \in Seq(Event)
  BY EmptySeq
<1>2. None \in Event
  BY DEF None, Event
<1>3. Len(completed) <= RingEvents /\ Len(queue) <= QueueCapacity
  BY EmptySeq DEF Init
<1>4. asked \in -1..Len(closed)
  BY EmptySeq DEF Init
<1>5. QED
  BY <1>1, <1>2, <1>3, <1>4 DEF Init, TypeOK

(* The event that Close hands on. *)
Ended == [start |-> active.start, end |-> Frame]

LEMMA CloseSteps ==
    ASSUME TypeOK, Close
    PROVE  /\ Ended \in Event /\ Ended.end = Len(frames) + 1
           /\ frames' = Append(frames, FALSE) /\ active' = None /\ quiet' = 0
           /\ closed' = Append(closed, Ended)
           /\ \/ Len(completed) >= RingEvents
                    /\ completed' = Append(Tail(completed), Ended)
              \/ Len(completed) < RingEvents /\ completed' = Append(completed, Ended)
           /\ \/ storeOpen /\ Len(queue) < QueueCapacity
                    /\ queue' = Append(queue, Ended) /\ dropped' = dropped
              \/ storeOpen /\ queue' = queue /\ dropped' = dropped + 1
              \/ ~storeOpen /\ queue' = queue /\ dropped' = dropped
           /\ ~dspDone
           /\ UNCHANGED <<dspDone, storeVars, mainVars, requestVars>>
<1>1. Len(frames) \in Nat /\ Len(completed) \in Nat
  BY LenProperties DEF TypeOK
<1>2. Ended \in Event /\ Ended.end = Len(frames) + 1
  BY <1>1 DEF TypeOK, Ended, Event, Frame
<1>3. ~dspDone
  BY DEF Close, Running
<1>4. /\ frames' = Append(frames, FALSE) /\ active' = None /\ quiet' = 0
      /\ closed' = Append(closed, Ended)
      /\ completed' = Append(IF Len(completed) >= RingEvents THEN Tail(completed)
                             ELSE completed, Ended)
      /\ Enqueue(Ended)
      /\ UNCHANGED <<dspDone, storeVars, mainVars, requestVars>>
  BY DEF Close, Ended
<1>5. \/ Len(completed) >= RingEvents /\ completed' = Append(Tail(completed), Ended)
      \/ Len(completed) < RingEvents /\ completed' = Append(completed, Ended)
  BY <1>1, <1>4
<1>6. \/ storeOpen /\ Len(queue) < QueueCapacity
            /\ queue' = Append(queue, Ended) /\ dropped' = dropped
      \/ storeOpen /\ queue' = queue /\ dropped' = dropped + 1
      \/ ~storeOpen /\ queue' = queue /\ dropped' = dropped
  BY <1>4 DEF Enqueue
<1>7. QED
  BY <1>2, <1>3, <1>4, <1>5, <1>6

LEMMA NextType == TypeOK /\ [Next]_vars => TypeOK'
<1> SUFFICES ASSUME TypeOK, [Next]_vars PROVE TypeOK'
  OBVIOUS
<1>0. /\ frames \in Seq(BOOLEAN) /\ closed \in Seq(Event) /\ queue \in Seq(Event)
      /\ completed \in Seq(Event) /\ Len(completed) <= RingEvents
      /\ Len(frames) \in Nat /\ Len(closed) \in Nat /\ Len(completed) \in Nat
      /\ Len(queue) \in Nat /\ Len(queue) <= QueueCapacity /\ None \in Event
      /\ dropped \in Nat /\ asked \in -1..Len(closed)
  BY LenProperties DEF TypeOK, None, Event
<1> USE DEF TypeOK, vars, dspVars, storeVars, mainVars, requestVars
<1>1. CASE Loud
  <2>1. frames' \in Seq(BOOLEAN)
    BY <1>0, <1>1, AppendProperties, LenProperties DEF Loud
  <2>2. active' \in Event
    <3>1. Frame \in Nat
      BY <1>0 DEF Frame
    <3>2. [start |-> Frame, end |-> 0] \in Event
      BY <3>1 DEF Event
    <3>3. QED
      BY <1>1, <3>2 DEF Loud
  <2>3. /\ quiet' = 0
        /\ UNCHANGED <<completed, closed, dspDone, storeVars, mainVars, queue, dropped,
                       requestVars>>
    BY <1>1 DEF Loud
  <2>4. QED
    BY <2>1, <2>2, <2>3
<1>2. CASE Quiet
  <2>1. frames' \in Seq(BOOLEAN)
    BY <1>0, <1>2, AppendProperties, LenProperties DEF Quiet
  <2>2. quiet' \in Nat
    BY <1>2 DEF Quiet
  <2>3. UNCHANGED <<active, completed, closed, dspDone, storeVars, mainVars, queue,
                    dropped, requestVars>>
    BY <1>2 DEF Quiet
  <2>4. QED
    BY <2>1, <2>2, <2>3
<1>3. CASE Close
  <2>0. /\ Ended \in Event /\ frames' = Append(frames, FALSE)
        /\ closed' = Append(closed, Ended)
        /\ active' = None /\ quiet' = 0 /\ dropped' \in {dropped, dropped + 1}
        /\ UNCHANGED asked
    BY <1>3, CloseSteps
  <2>1. frames' \in Seq(BOOLEAN)
    BY <1>0, <2>0, AppendProperties, LenProperties
  <2>2. closed' \in Seq(Event) /\ Len(closed') = Len(closed) + 1
    BY <1>0, <2>0, AppendProperties, LenProperties
  <2>3. completed' \in Seq(Event) /\ Len(completed') <= RingEvents
    <3>1. CASE Len(completed) >= RingEvents /\ completed' = Append(Tail(completed), Ended)
      <4>1. completed # <<>>
        BY <1>0, <3>1, EmptySeq
      <4>2. Tail(completed) \in Seq(Event) /\ Len(Tail(completed)) = Len(completed) - 1
        BY <1>0, <4>1, HeadTailProperties, LenProperties
      <4>3. /\ Append(Tail(completed), Ended) \in Seq(Event)
            /\ Len(Append(Tail(completed), Ended)) = Len(Tail(completed)) + 1
        BY <2>0, <4>2, AppendProperties, LenProperties
      <4>4. QED
        BY <1>0, <3>1, <4>2, <4>3
    <3>2. CASE Len(completed) < RingEvents /\ completed' = Append(completed, Ended)
      <4>1. /\ Append(completed, Ended) \in Seq(Event)
            /\ Len(Append(completed, Ended)) = Len(completed) + 1
        BY <1>0, <2>0, AppendProperties, LenProperties
      <4>2. QED
        BY <1>0, <3>2, <4>1
    <3>3. QED
      BY <1>3, <3>1, <3>2, CloseSteps
  <2>4. queue' \in Seq(Event) /\ Len(queue') <= QueueCapacity
    <3>1. CASE Len(queue) < QueueCapacity /\ queue' = Append(queue, Ended)
      <4>1. /\ Append(queue, Ended) \in Seq(Event)
            /\ Len(Append(queue, Ended)) = Len(queue) + 1
        BY <1>0, <2>0, AppendProperties, LenProperties
      <4>2. QED
        BY <1>0, <3>1, <4>1
    <3>2. CASE queue' = queue
      BY <3>2
    <3>3. QED
      BY <1>3, <3>1, <3>2, CloseSteps
  <2>5. dropped' \in Nat /\ active' \in Event /\ quiet' \in Nat
    BY <1>0, <2>0
  <2>6. asked' \in -1..Len(closed')
    BY <1>0, <2>0, <2>2
  <2>7. UNCHANGED <<dspDone, storeVars, mainVars, requestVars>>
    BY <1>3, CloseSteps
  <2>8. QED
    BY <2>1, <2>2, <2>3, <2>4, <2>5, <2>6, <2>7
<1>4. CASE DspExit
  BY <1>4 DEF DspExit
<1>5. CASE Take
  <2>1. /\ Head(queue) \in Event /\ Tail(queue) \in Seq(Event)
        /\ Len(Tail(queue)) = Len(queue) - 1
    BY <1>0, <1>5, HeadTailProperties, LenProperties DEF Take
  <2>2. queue' \in Seq(Event) /\ Len(queue') <= QueueCapacity /\ writing' \in Event
    <3>1. writing' = Head(queue) /\ queue' = Tail(queue)
      BY <1>5 DEF Take
    <3>2. QueueCapacity \in Nat /\ Len(queue) \in Nat /\ Len(queue) <= QueueCapacity
      BY <1>0
    <3>a. Len(queue') = Len(queue) - 1
      BY <2>1, <3>1
    <3>3. Len(queue') <= QueueCapacity
      BY <3>2, <3>a
    <3>4. QED
      BY <2>1, <3>1, <3>3
  <2>3. UNCHANGED <<storePc, stored, failed, dspVars, mainVars, dropped, requestVars>>
    BY <1>5 DEF Take
  <2>4. QED
    BY <2>2, <2>3
<1>6. CASE Persist
  <2>1. stored' \subseteq Event /\ failed' \subseteq Event /\ writing' \in Event
    BY <1>0, <1>6 DEF Persist
  <2>2. UNCHANGED <<storePc, dspVars, mainVars, queue, dropped, requestVars>>
    BY <1>6 DEF Persist
  <2>3. QED
    BY <2>1, <2>2
<1>7. CASE Expire
  BY <1>7 DEF Expire
<1>8. CASE Drained
  BY <1>8 DEF Drained
<1>9. CASE RequestShutdown
  BY <1>9 DEF RequestShutdown
<1>10. CASE JoinDsp
  BY <1>10 DEF JoinDsp
<1>11. CASE JoinStore
  BY <1>11 DEF JoinStore
<1>12. CASE Ask
  <2>1. asked' \in -1..Len(closed)
    BY <1>0, <1>12 DEF Ask
  <2>2. rows' \subseteq Event
    BY <1>12 DEF Ask, Newest
  <2>3. UNCHANGED <<dspVars, storeVars, mainVars, queue, dropped>>
    BY <1>12 DEF Ask
  <2>4. QED
    BY <2>1, <2>2, <2>3
<1>13. CASE Answer
  <2>1. asked' \in -1..Len(closed)
    BY <1>0, <1>13 DEF Answer
  <2>2. QED
    BY <1>13, <2>1 DEF Answer
<1>14. CASE UNCHANGED vars
  BY <1>14
<1>15. QED
  BY <1>1, <1>2, <1>3, <1>4, <1>5, <1>6, <1>7, <1>8,
     <1>9, <1>10, <1>11, <1>12, <1>13, <1>14
  DEF Next, Dsp, Store, Main, Stopped

\* Every variable keeps its type; ring and queue keep their capacities.
THEOREM TypeCorrect == Spec => []TypeOK
  BY InitType, NextType, PTL DEF Spec

----------------------------------------------------------------------------
(* The order in which the threads end. *)

Phases ==
    /\ stopping <=> mainPc \in {"stopping", "done"}
    /\ stopping => dspDone
    /\ stopping <=> ~storeOpen
    /\ storePc \in {"drain", "done"} => stopping
    /\ storePc = "done" => queue = <<>> /\ writing = None
    /\ mainPc = "done" => storePc = "done"

LEMMA InitPhases == Init => Phases
  BY DEF Init, Phases

LEMMA NextPhases == TypeOK /\ Phases /\ [Next]_vars => Phases'
<1> SUFFICES ASSUME TypeOK, Phases, [Next]_vars PROVE Phases'
  OBVIOUS
<1> USE DEF Phases, vars, dspVars, storeVars, mainVars, requestVars
<1>1. CASE Loud
  BY <1>1 DEF Loud, Running
<1>2. CASE Quiet
  BY <1>2 DEF Quiet, Running
<1>3. CASE Close
  <2>1. ~dspDone /\ UNCHANGED <<dspDone, storeVars, mainVars, requestVars>>
    BY <1>3, CloseSteps
  <2>2. QED
    BY <2>1
<1>4. CASE DspExit
  BY <1>4 DEF DspExit
<1>5. CASE Take
  BY <1>5 DEF Take
<1>6. CASE Persist
  BY <1>6 DEF Persist
<1>7. CASE Expire
  BY <1>7 DEF Expire
<1>8. CASE Drained
  BY <1>8 DEF Drained
<1>9. CASE RequestShutdown
  BY <1>9 DEF RequestShutdown
<1>10. CASE JoinDsp
  BY <1>10 DEF JoinDsp
<1>11. CASE JoinStore
  BY <1>11 DEF JoinStore
<1>12. CASE Ask
  BY <1>12 DEF Ask
<1>13. CASE Answer
  BY <1>13 DEF Answer
<1>14. CASE UNCHANGED vars
  BY <1>14
<1>15. QED
  BY <1>1, <1>2, <1>3, <1>4, <1>5, <1>6, <1>7, <1>8,
     <1>9, <1>10, <1>11, <1>12, <1>13, <1>14
  DEF Next, Dsp, Store, Main, Stopped

----------------------------------------------------------------------------
(* The tracker's ring. *)

LEMMA InitRing == Init => RingIsLatest
  BY EmptySeq DEF Init, RingIsLatest

LEMMA NextRing == TypeOK /\ RingIsLatest /\ [Next]_vars => RingIsLatest'
<1> SUFFICES ASSUME TypeOK, RingIsLatest, [Next]_vars PROVE RingIsLatest'
  OBVIOUS
<1>0. /\ closed \in Seq(Event) /\ completed \in Seq(Event)
      /\ Len(closed) \in Nat /\ Len(completed) \in Nat
      /\ DOMAIN completed = 1..Len(completed)
  BY LenProperties DEF TypeOK
<1>1. CASE Close
  <2>0. RingEvents \in Nat \ {0} /\ Ended \in Event
    BY <1>1, CloseSteps
  <2>1. /\ Len(closed') = Len(closed) + 1 /\ closed'[Len(closed) + 1] = Ended
        /\ \A i \in 1..Len(closed) : closed'[i] = closed[i]
    <3>1. closed' = Append(closed, Ended)
      BY <1>1, CloseSteps
    <3>2. QED
      BY <1>0, <2>0, <3>1, AppendProperties, LenProperties
  <2>2. CASE Len(completed) < RingEvents /\ completed' = Append(completed, Ended)
    <3>1. /\ Len(completed') = Len(completed) + 1
          /\ completed'[Len(completed) + 1] = Ended
          /\ DOMAIN completed' = 1..(Len(completed) + 1)
          /\ \A i \in 1..Len(completed) : completed'[i] = completed[i]
      BY <1>0, <2>0, <2>2, AppendProperties, LenProperties
    <3>2. Len(completed) = Len(closed)
      BY <1>0, <2>0, <2>2 DEF RingIsLatest
    <3>3. Len(completed') = IF Len(closed') < RingEvents THEN Len(closed') ELSE RingEvents
      BY <1>0, <2>0, <2>1, <2>2, <3>1, <3>2
    <3>4. ASSUME NEW i \in DOMAIN completed' PROVE completed'[i] = closed'[i]
      <4>1. CASE i \in 1..Len(completed)
        <5>1. completed[i] = closed[Len(closed) - Len(completed) + i]
          BY <1>0, <4>1 DEF RingIsLatest
        <5>2. Len(closed) - Len(completed) + i = i
          BY <1>0, <3>2, <4>1
        <5>3. QED
          BY <2>1, <3>1, <3>2, <4>1, <5>1, <5>2
      <4>2. CASE i = Len(completed) + 1
        BY <2>1, <3>1, <3>2, <4>2
      <4>3. i \in 1..Len(completed) \/ i = Len(completed) + 1
        BY <1>0, <3>1
      <4>4. QED
        BY <4>1, <4>2, <4>3
    <3>5. \A i \in DOMAIN completed' : Len(closed') - Len(completed') + i = i
      BY <1>0, <2>1, <3>1, <3>2
    <3>6. QED
      BY <3>3, <3>4, <3>5 DEF RingIsLatest
  <2>3. CASE Len(completed) >= RingEvents
               /\ completed' = Append(Tail(completed), Ended)
    <3>0. completed # <<>>
      BY <1>0, <2>0, <2>3, EmptySeq
    <3>1. /\ Tail(completed) \in Seq(Event) /\ Len(Tail(completed)) = Len(completed) - 1
          /\ \A i \in 1..(Len(completed) - 1) : Tail(completed)[i] = completed[i + 1]
      BY <1>0, <3>0, HeadTailProperties, LenProperties
    <3>2. /\ Len(completed') = Len(completed)
          /\ completed'[Len(completed)] = Ended
          /\ DOMAIN completed' = 1..Len(completed)
          /\ \A i \in 1..(Len(completed) - 1) : completed'[i] = Tail(completed)[i]
      <4>1. /\ Len(completed') = Len(Tail(completed)) + 1
            /\ completed'[Len(Tail(completed)) + 1] = Ended
            /\ DOMAIN completed' = 1..(Len(Tail(completed)) + 1)
            /\ \A i \in 1..Len(Tail(completed)) : completed'[i] = Tail(completed)[i]
        BY <2>0, <2>3, <3>1, AppendProperties, LenProperties
      <4>2. QED
        BY <1>0, <3>1, <4>1
    <3>3. Len(completed) = RingEvents /\ Len(closed) >= RingEvents
      BY <1>0, <2>0, <2>3 DEF RingIsLatest
    <3>a. Len(completed) \in Nat /\ Len(closed) \in Nat
      BY <1>0
    <3>4. ASSUME NEW i \in 1..Len(completed)
          PROVE  completed'[i] = closed'[Len(closed') - Len(completed') + i]
      <4>1. CASE i \in 1..(Len(completed) - 1)
        <5>1. i + 1 \in 1..Len(completed)
          BY <1>0, <4>1
        <5>2. completed[i + 1] = closed[Len(closed) - Len(completed) + (i + 1)]
          BY <1>0, <5>1 DEF RingIsLatest
        <5>3. /\ Len(closed) - Len(completed) + (i + 1)
                    = Len(closed') - Len(completed') + i
              /\ Len(closed) - Len(completed) + (i + 1) \in 1..Len(closed)
          <6>1. Len(closed') = Len(closed) + 1 /\ Len(completed') = Len(completed)
            BY <2>1, <3>2
          <6>2. i \in Int /\ 1 <= i /\ i <= Len(completed) - 1
            BY <3>a, <4>1
          <6>3. Len(completed) <= Len(closed)
            BY <2>0, <3>a, <3>3
          <6>4. QED
            BY <3>a, <6>1, <6>2, <6>3
        <5>4. completed'[i] = completed[i + 1]
          BY <3>1, <3>2, <4>1
        <5>5. QED
          BY <2>1, <5>2, <5>3, <5>4
      <4>2. CASE i = Len(completed)
        BY <1>0, <2>1, <3>2, <4>2
      <4>3. i \in 1..(Len(completed) - 1) \/ i = Len(completed)
        BY <3>a
      <4>4. QED
        BY <4>1, <4>2, <4>3
    <3>5. Len(completed') = IF Len(closed') < RingEvents THEN Len(closed') ELSE RingEvents
      BY <1>0, <2>0, <2>1, <3>2, <3>3
    <3>6. QED
      BY <3>2, <3>4, <3>5 DEF RingIsLatest
  <2>4. QED
    BY <1>1, <2>2, <2>3, CloseSteps
<1>2. CASE UNCHANGED <<completed, closed>>
  BY <1>2 DEF RingIsLatest
<1>3. QED
  BY <1>1, <1>2 DEF Next, Dsp, Store, Main, Stopped, Loud, Quiet, DspExit, Take, Persist,
     Expire, Drained, RequestShutdown, JoinDsp, JoinStore, Ask, Answer, vars, dspVars, storeVars,
     mainVars, requestVars

\* The ring always holds the latest completed events, in order, as many as it has room
\* for (EventTracker::observe).
THEOREM RingTheorem == Spec => []RingIsLatest
  BY InitType, NextType, InitRing, NextRing, PTL DEF Spec

----------------------------------------------------------------------------
(* The tracker and the history.  Between frames it remembers one of two things: that    *)
(* nothing was loud since a pause, or the one start that no pause has followed yet.      *)

\* j is the first pause after i.
EndsAt(i, j) == j \in Pauses /\ j > i /\ Pauses \cap i..(j - 1) = {}

Tracking ==
    \/ /\ active = None
       /\ \E k \in Pauses \cup {0} : \A m \in (k + 1)..Len(frames) : ~frames[m]
    \/ /\ active # None /\ active.start \in Starts
       /\ \A j \in Pauses : j < active.start
       /\ quiet < QuietFrames /\ active.start <= Len(frames) - quiet
       /\ frames[Len(frames) - quiet]
       /\ \A m \in (Len(frames) - quiet + 1)..Len(frames) : ~frames[m]

\* A set of numbers has a least element.
LEMMA LeastElement ==
    ASSUME NEW S \in SUBSET Nat, S # {}
    PROVE  \E x \in S : \A y \in S : x <= y
<1>1. PICK x \in S : \A y \in S : ~(<<y, x>> \in OpToRel(<, Nat))
  BY WFMin, NatLessThanWellFounded
<1>2. ASSUME NEW y \in S PROVE x <= y
  <2>1. <<y, x>> \in Nat \X Nat /\ <<y, x>>[1] = y /\ <<y, x>>[2] = x
    OBVIOUS
  <2>2. ~(y < x)
    BY <1>1, <2>1 DEF OpToRel
  <2>3. QED
    BY <2>2
<1>3. QED
  BY <1>2

LEMMA HistoryFacts ==
    ASSUME frames \in Seq(BOOLEAN)
    PROVE  /\ Len(frames) \in Nat
           /\ Pauses \subseteq QuietFrames..Len(frames) /\ Pauses \subseteq Nat \ {0}
           /\ Pauses \subseteq 1..Len(frames)
           /\ Starts \subseteq 1..Len(frames) /\ Starts \subseteq Nat
           /\ \A j \in Pauses : ~frames[j]
           /\ \A i \in Starts : frames[i]
<1>1. Len(frames) \in Nat /\ DOMAIN frames = 1..Len(frames)
  BY LenProperties
<1>2. \A j \in Pauses : j \in (j - QuietFrames + 1)..j
  BY DEF Pauses
<1>3. Pauses \subseteq QuietFrames..Len(frames) /\ Pauses \subseteq 1..Len(frames)
  BY <1>1 DEF Pauses
<1>4. QED
  BY <1>1, <1>2, <1>3 DEF Pauses, Starts

\* The events are the starts with the first pause after them.
LEMMA EventsOfFacts ==
    ASSUME frames \in Seq(BOOLEAN), NEW e
    PROVE  e \in EventsOf <=>
               \E i \in Starts, j \in Pauses : EndsAt(i, j) /\ e = [start |-> i, end |-> j]
<1>1. ASSUME NEW i \in Starts, NEW later \in Pauses, later > i
      PROVE  \E j \in Pauses : EndsAt(i, j)
  <2> DEFINE S == {j \in Pauses : j > i}
  <2>1. S \in SUBSET Nat /\ S # {}
    BY <1>1, HistoryFacts
  <2>2. PICK x \in S : \A y \in S : x <= y
    BY <2>1, LeastElement
  <2>3. ASSUME NEW y \in Pauses, y \in i..(x - 1) PROVE FALSE
    <3>1. i \in Nat /\ x \in Nat /\ y \in Nat /\ frames[i] /\ ~frames[y]
      BY <2>1, HistoryFacts
    <3>2. y # i
      BY <3>1
    <3>3. y \in S
      BY <2>3, <3>1, <3>2
    <3>4. QED
      BY <2>2, <2>3, <3>1, <3>3
  <2>4. EndsAt(i, x)
    BY <2>2, <2>3 DEF EndsAt
  <2>5. QED
    BY <2>2, <2>4
<1>2. ASSUME NEW i \in Starts, NEW j, NEW k, EndsAt(i, j), EndsAt(i, k) PROVE j = k
  <2>1. /\ i \in Nat /\ j \in Nat /\ k \in Nat /\ j > i /\ k > i /\ j \in Pauses /\ k \in Pauses
        /\ j \notin i..(k - 1) /\ k \notin i..(j - 1)
    BY <1>2, HistoryFacts DEF EndsAt
  <2>2. QED
    BY <2>1
<1>3. ASSUME NEW i \in Starts, NEW j \in Pauses, EndsAt(i, j)
      PROVE  j = CHOOSE x \in Pauses : x > i /\ Pauses \cap i..(x - 1) = {}
  <2> DEFINE c == CHOOSE x \in Pauses : x > i /\ Pauses \cap i..(x - 1) = {}
  <2>1. c \in Pauses /\ c > i /\ Pauses \cap i..(c - 1) = {}
    BY <1>3 DEF EndsAt
  <2>2. EndsAt(i, c)
    BY <2>1 DEF EndsAt
  <2>3. QED
    BY <1>2, <1>3, <2>2
<1>4. ASSUME e \in EventsOf
      PROVE  \E i \in Starts, j \in Pauses : EndsAt(i, j) /\ e = [start |-> i, end |-> j]
  <2>1. PICK i \in Starts :
            /\ \E j \in Pauses : j > i
            /\ e = [start |-> i,
                    end |-> CHOOSE j \in Pauses : j > i /\ Pauses \cap i..(j - 1) = {}]
    BY <1>4 DEF EventsOf
  <2>2. PICK j \in Pauses : EndsAt(i, j)
    BY <1>1, <2>1
  <2>3. QED
    BY <1>3, <2>1, <2>2
<1>5. ASSUME NEW i \in Starts, NEW j \in Pauses, EndsAt(i, j), e = [start |-> i, end |-> j]
      PROVE  e \in EventsOf
  <2>1. \E x \in Pauses : x > i
    BY <1>5 DEF EndsAt
  <2>2. QED
    BY <1>3, <1>5, <2>1 DEF EventsOf
<1>6. QED
  BY <1>4, <1>5

\* What one more frame makes of the history.
LEMMA FrameFacts ==
    ASSUME frames \in Seq(BOOLEAN), NEW loud \in BOOLEAN, frames' = Append(frames, loud)
    PROVE  LET n == Len(frames) + 1
           IN  /\ Len(frames') = n /\ frames'[n] = loud /\ frames' \in Seq(BOOLEAN)
               /\ \A i \in 1..Len(frames) : frames'[i] = frames[i]
               /\ Pauses \subseteq Pauses' /\ Pauses' \subseteq Pauses \cup {n}
               /\ loud => n \notin Pauses'
               /\ Starts \subseteq Starts' /\ Starts' \subseteq Starts \cup {n}
               /\ ~loud => n \notin Starts'
<1> DEFINE n == Len(frames) + 1
<1>1. /\ Len(frames) \in Nat /\ Len(frames') = n /\ frames'[n] = loud
      /\ frames' \in Seq(BOOLEAN)
      /\ \A i \in 1..Len(frames) : frames'[i] = frames[i]
      /\ DOMAIN frames = 1..Len(frames) /\ DOMAIN frames' = 1..n
  BY AppendProperties, LenProperties
<1>2. ASSUME NEW j \in 1..Len(frames) PROVE j \in Pauses <=> j \in Pauses'
  <2>1. ASSUME j \in QuietFrames..Len(frames), NEW k \in (j - QuietFrames + 1)..j
        PROVE  k \in 1..Len(frames)
    BY <1>1, <2>1
  <2>2. \A k \in (j - QuietFrames + 1)..j :
            j \in QuietFrames..Len(frames) => frames'[k] = frames[k]
    BY <1>1, <2>1
  <2>3. j \in QuietFrames..Len(frames) <=> j \in QuietFrames..Len(frames')
    BY <1>1
  <2>4. QED
    BY <2>2, <2>3 DEF Pauses
<1>3. Pauses \subseteq 1..Len(frames)
  BY HistoryFacts
<1>4. Pauses' \subseteq 1..n
  BY <1>1 DEF Pauses
<1>5. Pauses \subseteq Pauses' /\ Pauses' \subseteq Pauses \cup {n}
  <2>1. \A j \in 1..n : j \in 1..Len(frames) \/ j = n
    BY <1>1
  <2>2. QED
    BY <1>2, <1>3, <1>4, <2>1
<1>6. loud => n \notin Pauses'
  <2>1. n \in Pauses' => ~frames'[n]
    <3>1. n \in (n - QuietFrames + 1)..n
      BY <1>1
    <3>2. QED
      BY <3>1 DEF Pauses
  <2>2. QED
    BY <1>1, <2>1
<1>7. ASSUME NEW i \in 1..Len(frames) PROVE i \in Starts <=> i \in Starts'
  <2>1. ASSUME NEW k \in Pauses \cup {0}, k < i, NEW m \in (k + 1)..(i - 1)
        PROVE  frames'[m] = frames[m]
    <3>1. m \in 1..Len(frames)
      BY <1>1, <1>3, <2>1
    <3>2. QED
      BY <1>1, <3>1
  <2>2. ASSUME NEW k \in Pauses' \cup {0}, k < i PROVE k \in Pauses \cup {0}
    <3>1. k # n
      BY <1>1, <2>2
    <3>2. QED
      BY <1>5, <3>1
  <2>3. frames'[i] = frames[i] /\ i \in DOMAIN frames /\ i \in DOMAIN frames'
    BY <1>1
  <2>4. ASSUME i \in Starts PROVE i \in Starts'
    <3>1. PICK k \in Pauses \cup {0} : k < i /\ \A m \in (k + 1)..(i - 1) : ~frames[m]
      BY <2>4 DEF Starts
    <3>2. frames[i]
      BY <2>4 DEF Starts
    <3>3. k \in Pauses' \cup {0} /\ \A m \in (k + 1)..(i - 1) : ~frames'[m]
      BY <1>5, <2>1, <3>1
    <3>4. QED
      BY <2>3, <3>1, <3>2, <3>3 DEF Starts
  <2>5. ASSUME i \in Starts' PROVE i \in Starts
    <3>1. PICK k \in Pauses' \cup {0} : k < i /\ \A m \in (k + 1)..(i - 1) : ~frames'[m]
      BY <2>5 DEF Starts
    <3>2. frames'[i]
      BY <2>5 DEF Starts
    <3>3. k \in Pauses \cup {0} /\ \A m \in (k + 1)..(i - 1) : ~frames[m]
      BY <2>1, <2>2, <3>1
    <3>4. QED
      BY <2>3, <3>1, <3>2, <3>3 DEF Starts
  <2>6. QED
    BY <2>4, <2>5
<1>8. Starts \subseteq Starts' /\ Starts' \subseteq Starts \cup {n}
  <2>1. Starts \subseteq 1..Len(frames) /\ Starts' \subseteq 1..n
    BY <1>1, HistoryFacts DEF Starts
  <2>2. \A i \in 1..n : i \in 1..Len(frames) \/ i = n
    BY <1>1
  <2>3. QED
    BY <1>7, <2>1, <2>2
<1>9. ~loud => n \notin Starts'
  BY <1>1 DEF Starts
<1>10. QED
  BY <1>1, <1>5, <1>6, <1>8, <1>9

\* Only the start the tracker follows can be without a pause.
LEMMA OneStart ==
    ASSUME frames \in Seq(BOOLEAN), NEW i \in Starts, NEW h \in Starts, i # h,
           \A j \in Pauses : j < h
    PROVE  \E j \in Pauses : j > i
<1>1. i \in Nat /\ h \in Nat /\ frames[i] /\ frames[h]
  BY HistoryFacts
<1>2. CASE i < h
  <2>1. PICK k \in Pauses \cup {0} : k < h /\ \A m \in (k + 1)..(h - 1) : ~frames[m]
    BY DEF Starts
  <2>2. k \in Nat /\ i \notin (k + 1)..(h - 1) /\ k # i
    BY <1>1, <2>1, HistoryFacts
  <2>3. k > i
    BY <1>1, <1>2, <2>2
  <2>4. k \in Pauses
    BY <1>1, <2>1, <2>3
  <2>5. QED
    BY <2>3, <2>4
<1>3. CASE i > h
  <2>1. PICK k \in Pauses \cup {0} : k < i /\ \A m \in (k + 1)..(i - 1) : ~frames[m]
    BY DEF Starts
  <2>2. k \in Nat /\ h \notin (k + 1)..(i - 1)
    BY <1>1, <2>1, HistoryFacts
  <2>3. k >= h
    BY <1>1, <1>3, <2>2
  <2>4. h > 0
    BY <1>1, HistoryFacts
  <2>5. k \in Pauses
    BY <1>1, <2>1, <2>2, <2>3, <2>4
  <2>6. k < h
    BY <2>5
  <2>7. QED
    BY <1>1, <2>2, <2>3, <2>6
<1>4. QED
  BY <1>1, <1>2, <1>3

LEMMA EventsOfNext ==
    (frames \in Seq(BOOLEAN) =>
        \A e : e \in EventsOf <=>
            \E i \in Starts, j \in Pauses : EndsAt(i, j) /\ e = [start |-> i, end |-> j])'
<1>1. frames \in Seq(BOOLEAN) =>
          \A e : e \in EventsOf <=>
              \E i \in Starts, j \in Pauses : EndsAt(i, j) /\ e = [start |-> i, end |-> j]
  BY EventsOfFacts
<1>2. QED
  BY <1>1, PTL

\* A frame that neither begins a pause's event nor ends one leaves the events alone.
LEMMA SameEvents ==
    ASSUME frames \in Seq(BOOLEAN), NEW loud \in BOOLEAN, frames' = Append(frames, loud),
           \A i \in Starts : Len(frames) + 1 \in Pauses' => \E j \in Pauses : j > i
    PROVE  EventsOf' = EventsOf
<1> DEFINE n == Len(frames) + 1
<1>1. /\ Len(frames) \in Nat /\ frames' \in Seq(BOOLEAN)
      /\ Pauses \subseteq Pauses' /\ Pauses' \subseteq Pauses \cup {n}
      /\ Starts \subseteq Starts' /\ Starts' \subseteq Starts \cup {n}
      /\ Pauses \subseteq 1..Len(frames) /\ Starts \subseteq 1..Len(frames)
      /\ Pauses' \subseteq 1..n
  BY HistoryFacts, FrameFacts
<1>2. ASSUME NEW i \in Starts, NEW j \in Pauses PROVE EndsAt(i, j) <=> EndsAt(i, j)'
  <2>1. n \notin i..(j - 1)
    BY <1>1
  <2>2. Pauses \cap i..(j - 1) = Pauses' \cap i..(j - 1)
    BY <1>1, <2>1
  <2>3. QED
    BY <1>1, <2>2 DEF EndsAt
<1>3. ASSUME NEW i \in Starts', NEW j \in Pauses', EndsAt(i, j)'
      PROVE  i \in Starts /\ j \in Pauses
  <2>1. i # n
    BY <1>1, <1>3 DEF EndsAt
  <2>2. i \in Starts /\ i \in Nat
    BY <1>1, <2>1
  <2>3. ASSUME j = n PROVE FALSE
    <3>1. PICK k \in Pauses : k > i
      BY <1>1, <2>2, <2>3
    <3>2. k \in i..(n - 1) /\ k \in Pauses'
      BY <1>1, <2>2, <3>1
    <3>3. QED
      BY <1>3, <2>3, <3>2 DEF EndsAt
  <2>4. QED
    BY <1>1, <2>2, <2>3
<1>4. ASSUME NEW e PROVE e \in EventsOf <=> e \in EventsOf'
  <2>1. e \in EventsOf <=>
            \E i \in Starts, j \in Pauses : EndsAt(i, j) /\ e = [start |-> i, end |-> j]
    BY EventsOfFacts
  <2>2. e \in EventsOf' <=>
            \E i \in Starts', j \in Pauses' : EndsAt(i, j)' /\ e = [start |-> i, end |-> j]
    BY <1>1, EventsOfNext
  <2>3. QED
    BY <1>1, <1>2, <1>3, <2>1, <2>2
<1>5. QED
  BY <1>4

LEMMA InitTracking == Init => Tracking /\ Elements(closed) = EventsOf
<1> SUFFICES ASSUME Init PROVE Tracking /\ Elements(closed) = EventsOf
  OBVIOUS
<1>1. /\ frames = <<>> /\ closed = <<>> /\ active = None /\ Len(frames) = 0
      /\ frames \in Seq(BOOLEAN)
  BY EmptySeq DEF Init
<1>2. Starts = {}
  BY <1>1, HistoryFacts
<1>3. EventsOf = {} /\ Elements(closed) = {}
  BY <1>1, <1>2 DEF EventsOf, Elements
<1>4. Tracking
  BY <1>1 DEF Tracking
<1>5. QED
  BY <1>3, <1>4

\* A loud frame starts an event, or goes on with one.
LEMMA LoudTracking ==
    ASSUME TypeOK, Tracking, Loud
    PROVE  Tracking' /\ EventsOf' = EventsOf
<1> DEFINE n == Len(frames) + 1
<1>1. /\ frames \in Seq(BOOLEAN) /\ frames' = Append(frames, TRUE)
      /\ active' = IF active = None THEN [start |-> n, end |-> 0] ELSE active
      /\ quiet' = 0
  BY DEF TypeOK, Loud, Frame
<1>a. Len(frames) \in Nat /\ Pauses \subseteq 1..Len(frames)
  BY <1>1, HistoryFacts
<1>b. /\ Len(frames') = n /\ frames'[n] /\ frames' \in Seq(BOOLEAN)
      /\ \A i \in 1..Len(frames) : frames'[i] = frames[i]
      /\ Pauses \subseteq Pauses' /\ Pauses' \subseteq Pauses \cup {n} /\ n \notin Pauses'
      /\ Starts \subseteq Starts'
  BY <1>1, FrameFacts
<1>2. /\ Len(frames) \in Nat /\ Len(frames') = n /\ frames'[n]
      /\ \A i \in 1..Len(frames) : frames'[i] = frames[i]
      /\ Pauses' = Pauses /\ n \notin Pauses'
      /\ Starts \subseteq Starts' /\ DOMAIN frames' = 1..n
      /\ Pauses \subseteq 1..Len(frames)
  BY <1>a, <1>b, LenProperties
<1>3. EventsOf' = EventsOf
  BY <1>1, <1>2, SameEvents
<1>4. active' # None /\ active'.start \in Starts' /\ \A j \in Pauses' : j < active'.start
  <2>1. CASE active = None
    <3>1. PICK k \in Pauses \cup {0} : \A m \in (k + 1)..Len(frames) : ~frames[m]
      BY <2>1 DEF Tracking
    <3>2. k \in Nat /\ k < n
      BY <1>2, <3>1
    <3>3. \A m \in (k + 1)..(n - 1) : ~frames'[m]
      <4>1. \A m \in (k + 1)..(n - 1) : m \in 1..Len(frames) /\ m \in (k + 1)..Len(frames)
        BY <1>2, <3>2
      <4>2. QED
        BY <1>2, <3>1, <4>1
    <3>4. n \in Starts'
      BY <1>2, <3>1, <3>2, <3>3 DEF Starts
    <3>5. active'.start = n /\ active' # None
      BY <1>1, <1>2, <2>1 DEF None
    <3>6. \A j \in Pauses' : j < n
      BY <1>2
    <3>7. QED
      BY <3>4, <3>5, <3>6
  <2>2. CASE active # None
    BY <1>1, <1>2, <2>2 DEF Tracking
  <2>3. QED
    BY <2>1, <2>2
<1>5. active'.start <= n
  <2>1. \A i \in Starts' : i \in 1..n
    BY <1>2 DEF Starts
  <2>2. active'.start \in 1..n
    BY <1>4, <2>1
  <2>3. QED
    BY <1>2, <2>2
<1>6. n - 0 = n /\ \A m \in (n - 0 + 1)..n : FALSE
  BY <1>2
<1>7. Tracking'
  <2>1. quiet' < QuietFrames /\ Len(frames') - quiet' = n
    BY <1>1, <1>2, <1>6
  <2>2. \A m \in (Len(frames') - quiet' + 1)..Len(frames') : ~frames'[m]
    BY <1>2, <1>6, <2>1
  <2>3. QED
    BY <1>2, <1>4, <1>5, <2>1, <2>2 DEF Tracking
<1>8. QED
  BY <1>3, <1>7

\* A quiet frame that does not close an event leaves everything as it is.
LEMMA QuietTracking ==
    ASSUME TypeOK, Tracking, Quiet
    PROVE  Tracking' /\ EventsOf' = EventsOf
<1> DEFINE n == Len(frames) + 1
<1>1. /\ frames \in Seq(BOOLEAN) /\ frames' = Append(frames, FALSE) /\ active' = active
      /\ quiet \in Nat /\ quiet' = IF active = None THEN quiet ELSE quiet + 1
      /\ ~Closing
  BY DEF TypeOK, Quiet
<1>2. /\ Len(frames) \in Nat /\ Len(frames') = n /\ ~frames'[n]
      /\ \A i \in 1..Len(frames) : frames'[i] = frames[i]
      /\ Pauses \subseteq Pauses' /\ Pauses' \subseteq Pauses \cup {n}
      /\ Starts' = Starts /\ Starts \subseteq 1..Len(frames)
      /\ Pauses \subseteq 1..Len(frames)
      /\ \A i \in Starts : frames[i]
      /\ \A j \in Pauses : ~frames[j]
  BY <1>1, HistoryFacts, FrameFacts
<1>3. CASE active = None
  <2>1. PICK k \in Pauses \cup {0} : \A m \in (k + 1)..Len(frames) : ~frames[m]
    BY <1>3 DEF Tracking
  <2>2. k \in Nat
    BY <1>2, <2>1
  <2>3. \A m \in (k + 1)..n : ~frames'[m]
    <3>1. \A m \in (k + 1)..n : m = n \/ (m \in 1..Len(frames) /\ m \in (k + 1)..Len(frames))
      BY <1>2, <2>2
    <3>2. QED
      BY <1>2, <2>1, <3>1
  <2>4. Tracking'
    BY <1>1, <1>2, <1>3, <2>1, <2>3 DEF Tracking
  <2>5. ASSUME NEW i \in Starts PROVE \E j \in Pauses : j > i
    <3>1. i \notin (k + 1)..Len(frames) /\ i # k /\ i \in 1..Len(frames)
      BY <1>2, <2>1, <2>2
    <3>2. k > i
      BY <1>2, <2>2, <3>1
    <3>3. QED
      BY <2>1, <3>1, <3>2
  <2>6. QED
    BY <1>1, <2>4, <2>5, SameEvents
<1>4. CASE active # None
  <2>1. /\ active.start \in Starts /\ \A j \in Pauses : j < active.start
        /\ quiet < QuietFrames /\ active.start <= Len(frames) - quiet
        /\ frames[Len(frames) - quiet]
        /\ \A m \in (Len(frames) - quiet + 1)..Len(frames) : ~frames[m]
    BY <1>4 DEF Tracking
  <2>2. quiet + 1 < QuietFrames /\ quiet' = quiet + 1
    <3>1. ~(quiet + 1 >= QuietFrames)
      BY <1>1, <1>4 DEF Closing
    <3>2. QED
      BY <1>1, <1>4, <3>1
  <2>a. active.start \in 1..Len(frames)
    BY <1>2, <2>1
  <2>3. /\ Len(frames') - quiet' = Len(frames) - quiet
        /\ Len(frames) - quiet \in 1..Len(frames)
    BY <1>1, <1>2, <2>1, <2>2, <2>a
  <2>4. n \notin Pauses'
    <3>1. Len(frames) - quiet \in (n - QuietFrames + 1)..n
      BY <1>1, <1>2, <2>2, <2>3
    <3>2. frames'[Len(frames) - quiet]
      BY <1>2, <2>1, <2>3
    <3>3. QED
      BY <3>1, <3>2 DEF Pauses
  <2>5. \A m \in (Len(frames') - quiet' + 1)..Len(frames') : ~frames'[m]
    <3>1. \A m \in (Len(frames) - quiet + 1)..n :
              \/ m = n
              \/ m \in 1..Len(frames) /\ m \in (Len(frames) - quiet + 1)..Len(frames)
      BY <1>1, <1>2, <2>3
    <3>2. QED
      BY <1>2, <2>1, <2>3, <3>1
  <2>6. Pauses' = Pauses
    BY <1>2, <2>4
  <2>7. frames'[Len(frames') - quiet']
    BY <1>2, <2>1, <2>3
  <2>8. Tracking'
    BY <1>1, <1>2, <1>4, <2>1, <2>2, <2>3, <2>5, <2>6, <2>7 DEF Tracking
  <2>9. QED
    BY <1>1, <2>4, <2>8, SameEvents
<1>5. QED
  BY <1>3, <1>4

\* The quiet frame that closes an event completes the first pause after its start.
LEMMA CloseTracking ==
    ASSUME TypeOK, Tracking, Close
    PROVE  Tracking' /\ EventsOf' = EventsOf \cup {Ended}
<1>n. PICK n \in Nat : n = Len(frames) + 1
  BY LenProperties DEF TypeOK
<1>h. PICK h \in Nat : h = active.start
  BY DEF TypeOK, Event
<1>1. /\ frames \in Seq(BOOLEAN) /\ frames' = Append(frames, FALSE) /\ active' = None
      /\ quiet \in Nat /\ active # None /\ quiet + 1 >= QuietFrames
      /\ Ended = [start |-> h, end |-> n]
  BY <1>n, <1>h, CloseSteps DEF TypeOK, Close, Closing, Ended, Frame
<1>a. /\ Len(frames) \in Nat /\ Starts \subseteq 1..Len(frames)
      /\ Pauses \subseteq 1..Len(frames)
  BY <1>1, HistoryFacts
<1>b. /\ Len(frames') = n /\ ~frames'[n] /\ frames' \in Seq(BOOLEAN)
      /\ \A i \in 1..Len(frames) : frames'[i] = frames[i]
      /\ Pauses \subseteq Pauses' /\ Pauses' \subseteq Pauses \cup {n}
      /\ Starts' = Starts
  BY <1>n, <1>1, FrameFacts
<1>2. /\ Len(frames) \in Nat /\ Len(frames') = n /\ ~frames'[n]
      /\ frames' \in Seq(BOOLEAN)
      /\ \A i \in 1..Len(frames) : frames'[i] = frames[i]
      /\ Pauses \subseteq Pauses' /\ Pauses' \subseteq Pauses \cup {n}
      /\ Starts' = Starts /\ Starts \subseteq 1..Len(frames)
      /\ Pauses \subseteq 1..Len(frames)
      /\ n = Len(frames) + 1
  BY <1>n, <1>a, <1>b
<1>3. /\ h \in Starts /\ \A j \in Pauses : j < h
      /\ quiet < QuietFrames /\ h <= Len(frames) - quiet
      /\ \A m \in (Len(frames) - quiet + 1)..Len(frames) : ~frames[m]
  BY <1>1, <1>h DEF Tracking
<1>4. n \in Pauses'
  <2>a. h \in 1..Len(frames)
    BY <1>2, <1>3
  <2>1. n \in QuietFrames..n /\ h \in Nat /\ h >= 1
    BY <1>1, <1>2, <1>3, <2>a
  <2>b. QuietFrames = quiet + 1 /\ QuietFrames \in Nat
    BY <1>1, <1>3, QuietAssumption
  <2>2. \A k \in (n - QuietFrames + 1)..n :
            \/ k = n
            \/ k \in 1..Len(frames) /\ k \in (Len(frames) - quiet + 1)..Len(frames)
    <3>1. PICK l \in Nat : l = Len(frames)
      BY <1>2
    <3>2. PICK q \in Nat : q = quiet
      BY <1>1
    <3>3. n = l + 1 /\ QuietFrames = q + 1
      BY <1>2, <2>b, <3>1, <3>2
    <3>4. \A k \in (n - QuietFrames + 1)..n :
              k = n \/ (k \in 1..l /\ k \in (l - q + 1)..l)
      <4>1. QuietFrames <= n /\ QuietFrames \in Nat
        BY <2>1, <2>b
      <4>2. l - q + 1 = n - QuietFrames + 1 /\ n - QuietFrames + 1 \in Nat \ {0}
        BY <3>3, <4>1
      <4>3. ASSUME NEW k \in (n - QuietFrames + 1)..n, k # n
            PROVE  k \in 1..l /\ k \in (l - q + 1)..l
        <5>1. PICK m \in Nat \ {0} : m = n - QuietFrames + 1
          BY <4>2
        <5>2. k \in Int /\ m <= k /\ k <= l
          BY <3>3, <4>3, <5>1
        <5>3. QED
          BY <4>2, <5>1, <5>2
      <4>4. QED
        BY <4>3
    <3>5. QED
      BY <3>1, <3>2, <3>4
  <2>3. \A k \in (n - QuietFrames + 1)..n : ~frames'[k]
    BY <1>2, <1>3, <2>2
  <2>4. QED
    BY <1>2, <2>1, <2>3 DEF Pauses
<1>5. Tracking'
  <2>1. \A m \in (n + 1)..Len(frames') : FALSE
    BY <1>2
  <2>2. QED
    BY <1>1, <1>4, <2>1 DEF Tracking
<1>6. ASSUME NEW i \in Starts, NEW j \in Pauses PROVE EndsAt(i, j) <=> EndsAt(i, j)'
  <2>1. n \notin i..(j - 1)
    BY <1>2
  <2>2. Pauses \cap i..(j - 1) = Pauses' \cap i..(j - 1)
    BY <1>2, <2>1
  <2>3. QED
    BY <1>2, <2>2 DEF EndsAt
<1>7. ASSUME NEW i \in Starts PROVE EndsAt(i, n)' <=> i = h
  <2>1. CASE i = h
    <3>a. h \in 1..Len(frames)
      BY <1>2, <1>3
    <3>1. \A j \in Pauses' : j \notin h..(n - 1)
      BY <1>2, <1>3, <3>a
    <3>2. n > h
      BY <1>2, <3>a
    <3>3. QED
      BY <1>4, <2>1, <3>1, <3>2 DEF EndsAt
  <2>2. CASE i # h
    <3>1. PICK j \in Pauses : j > i
      BY <1>1, <1>3, <2>2, OneStart
    <3>2. j \in i..(n - 1) /\ j \in Pauses'
      BY <1>2, <3>1
    <3>3. ~EndsAt(i, n)'
      BY <3>2 DEF EndsAt
    <3>4. QED
      BY <2>2, <3>3
  <2>3. QED
    BY <2>1, <2>2
<1>8. ASSUME NEW e PROVE e \in EventsOf' <=> e \in EventsOf \cup {Ended}
  <2>1. e \in EventsOf <=>
            \E i \in Starts, j \in Pauses : EndsAt(i, j) /\ e = [start |-> i, end |-> j]
    BY <1>1, EventsOfFacts
  <2>2. e \in EventsOf' <=>
            \E i \in Starts', j \in Pauses' : EndsAt(i, j)' /\ e = [start |-> i, end |-> j]
    BY <1>2, EventsOfNext
  <2>3. (\E i \in Starts', j \in Pauses' : EndsAt(i, j)' /\ e = [start |-> i, end |-> j])
           <=> \/ \E i \in Starts, j \in Pauses :
                      EndsAt(i, j)' /\ e = [start |-> i, end |-> j]
               \/ \E i \in Starts : EndsAt(i, n)' /\ e = [start |-> i, end |-> n]
    <3>1. Pauses' = Pauses \cup {n}
      BY <1>2, <1>4
    <3>2. QED
      BY <1>2, <3>1
  <2>4. QED
    BY <1>1, <1>3, <1>6, <1>7, <2>1, <2>2, <2>3
<1>9. QED
  BY <1>5, <1>8

LEMMA NextTracking ==
    ASSUME TypeOK, Tracking, Elements(closed) = EventsOf, [Next]_vars
    PROVE  Tracking' /\ Elements(closed)' = EventsOf'
<1>1. CASE Loud
  BY <1>1, LoudTracking DEF Loud, Elements
<1>2. CASE Quiet
  BY <1>2, QuietTracking DEF Quiet, Elements
<1>3. CASE Close
  <2>1. closed \in Seq(Event) /\ closed' = Append(closed, Ended) /\ Ended \in Event
    BY <1>3, CloseSteps DEF TypeOK
  <2>2. Elements(closed') = Elements(closed) \cup {Ended}
    <3>1. /\ DOMAIN closed = 1..Len(closed) /\ DOMAIN closed' = 1..(Len(closed) + 1)
          /\ \A i \in 1..Len(closed) : closed'[i] = closed[i]
          /\ closed'[Len(closed) + 1] = Ended /\ Len(closed) \in Nat
      BY <2>1, AppendProperties, LenProperties
    <3>2. \A i \in 1..(Len(closed) + 1) : i \in 1..Len(closed) \/ i = Len(closed) + 1
      BY <3>1
    <3>3. \A i \in 1..Len(closed) : i \in 1..(Len(closed) + 1)
      BY <3>1
    <3>4. Len(closed) + 1 \in 1..(Len(closed) + 1)
      BY <3>1
    <3>5. QED
      BY <3>1, <3>2, <3>3, <3>4 DEF Elements
  <2>3. QED
    BY <1>3, <2>2, CloseTracking
<1>4. CASE UNCHANGED <<frames, active, quiet, closed>>
  <2>1. Pauses' = Pauses
    BY <1>4 DEF Pauses
  <2>2. Starts' = Starts
    BY <1>4, <2>1 DEF Starts
  <2>3. EventsOf' = EventsOf
    BY <2>1, <2>2 DEF EventsOf
  <2>4. QED
    BY <1>4, <2>1, <2>2, <2>3 DEF Tracking, Elements
<1>5. QED
  BY <1>1, <1>2, <1>3, <1>4 DEF Next, Dsp, Store, Main, Stopped, DspExit, Take, Persist,
     Expire, Drained, RequestShutdown, JoinDsp, JoinStore, Ask, Answer, vars, dspVars, storeVars,
     mainVars, requestVars

\* Whatever the sequence of levels, the events that observe completes one frame at a time
\* are the ones its history has: no transmission is merged with the next, split, lost or
\* found twice, and the ring shows the latest (EventTracker::observe).
THEOREM TrackerTheorem == Spec => []TrackerFindsEvents
<1>1. TypeOK /\ RingIsLatest /\ Tracking /\ Elements(closed) = EventsOf
          => TrackerFindsEvents
  BY DEF TrackerFindsEvents
<1>2. TypeOK /\ Tracking /\ Elements(closed) = EventsOf /\ [Next]_vars
          => Tracking' /\ (Elements(closed) = EventsOf)'
  BY NextTracking
<1>3. QED
  BY <1>1, <1>2, InitType, NextType, InitRing, NextRing, InitTracking, PTL DEF Spec

----------------------------------------------------------------------------
(* No event is written twice. *)

Written == stored \cup failed

InOrder ==
    /\ \A e \in Written : e.end <= Len(frames)
    /\ writing # None =>
          /\ writing.end \in 1..Len(frames)
          /\ \A e \in Written : e.end < writing.end
          /\ \A j \in 1..Len(queue) : writing.end < queue[j].end
    /\ \A j \in 1..Len(queue) :
          /\ queue[j].end \in 1..Len(frames)
          /\ \A i \in 1..Len(queue) : i < j => queue[i].end < queue[j].end
          /\ \A e \in Written : e.end < queue[j].end

Counted ==
    /\ IsFiniteSet(Written)
    /\ Len(closed) = Cardinality(Written) + dropped + Len(queue)
                     + IF writing = None THEN 0 ELSE 1

LEMMA InitCounted == Init => InOrder /\ Counted
<1> SUFFICES ASSUME Init PROVE InOrder /\ Counted
  OBVIOUS
<1>1. Written = {} /\ Len(queue) = 0 /\ Len(closed) = 0 /\ writing = None /\ dropped = 0
  BY EmptySeq DEF Init, Written
<1>2. QED
  BY <1>1, FS_EmptySet DEF InOrder, Counted

LEMMA NextInOrder == TypeOK /\ Phases /\ InOrder /\ [Next]_vars => InOrder'
<1> SUFFICES ASSUME TypeOK, Phases, InOrder, [Next]_vars PROVE InOrder'
  OBVIOUS
<1>0. /\ frames \in Seq(BOOLEAN) /\ queue \in Seq(Event) /\ Len(frames) \in Nat
      /\ Len(queue) \in Nat /\ writing \in Event /\ Written \subseteq Event
      /\ \A j \in 1..Len(queue) : queue[j] \in Event
  BY LenProperties, ElementOfSeq DEF TypeOK, Written
<1>a. \A e \in Event : e.end \in Nat
  BY DEF Event
<1>1. CASE Loud \/ Quiet
  <2>1. /\ frames' \in {Append(frames, TRUE), Append(frames, FALSE)}
        /\ UNCHANGED <<queue, writing, stored, failed>>
    BY <1>1 DEF Loud, Quiet, storeVars
  <2>2. Len(frames') = Len(frames) + 1
    <3>1. Len(Append(frames, TRUE)) = Len(frames) + 1
      BY <1>0, AppendProperties, LenProperties
    <3>2. Len(Append(frames, FALSE)) = Len(frames) + 1
      BY <1>0, AppendProperties, LenProperties
    <3>3. QED
      BY <2>1, <3>1, <3>2
  <2>3. Written' = Written
    BY <2>1 DEF Written
  <2>4. \A n \in 1..Len(frames) : n \in 1..Len(frames')
    BY <1>0, <2>2
  <2>5. \A e \in Written : e.end <= Len(frames')
    BY <1>0, <1>a, <2>2 DEF InOrder
  <2>6. QED
    BY <2>1, <2>3, <2>4, <2>5 DEF InOrder
<1>2. CASE Close
  <2>1. /\ Len(frames') = Len(frames) + 1 /\ Ended \in Event
        /\ Ended.end = Len(frames) + 1
    BY <1>0, <1>2, CloseSteps, AppendProperties, LenProperties
  <2>2. UNCHANGED <<writing, stored, failed>>
    BY <1>2, CloseSteps DEF storeVars
  <2>3. CASE queue' = Append(queue, Ended)
    <3>1. /\ Len(queue') = Len(queue) + 1 /\ queue'[Len(queue) + 1] = Ended
          /\ \A j \in 1..Len(queue) : queue'[j] = queue[j]
      BY <1>0, <2>1, <2>3, AppendProperties, LenProperties
    <3>2. ASSUME NEW j \in 1..Len(queue')
          PROVE  /\ queue'[j].end \in 1..Len(frames')
                 /\ \A i \in 1..Len(queue') : i < j => queue'[i].end < queue'[j].end
                 /\ \A e \in Written : e.end < queue'[j].end
                 /\ writing # None => writing.end < queue'[j].end
      <4>1. CASE j \in 1..Len(queue)
        <5>1. queue'[j] = queue[j]
          BY <3>1, <4>1
        <5>2. \A i \in 1..Len(queue') : i < j => i \in 1..Len(queue)
          BY <1>0, <4>1
        <5>3. \A i \in 1..Len(queue') : i < j => queue'[i].end < queue'[j].end
          BY <3>1, <4>1, <5>1, <5>2 DEF InOrder
        <5>4. QED
          BY <1>0, <2>1, <4>1, <5>1, <5>3 DEF InOrder
      <4>2. CASE j = Len(queue) + 1
        <5>1. queue'[j].end = Len(frames) + 1
          BY <2>1, <3>1, <4>2
        <5>2. ASSUME NEW i \in 1..Len(queue'), i < j PROVE queue'[i].end < queue'[j].end
          <6>1. i \in 1..Len(queue)
            BY <1>0, <4>2, <5>2
          <6>2. queue'[i].end = queue[i].end /\ queue[i].end \in 1..Len(frames)
            BY <3>1, <6>1 DEF InOrder
          <6>3. QED
            BY <1>0, <5>1, <6>2
        <5>3. \A e \in Written : e.end < queue'[j].end
          BY <1>0, <1>a, <5>1 DEF InOrder
        <5>4. writing # None => writing.end < queue'[j].end
          BY <1>0, <5>1 DEF InOrder
        <5>5. QED
          BY <1>0, <2>1, <5>1, <5>2, <5>3, <5>4
      <4>3. j \in 1..Len(queue) \/ j = Len(queue) + 1
        BY <1>0, <3>1
      <4>4. QED
        BY <4>1, <4>2, <4>3
    <3>3. Written' = Written
      BY <2>2 DEF Written
    <3>4. /\ \A e \in Written : e.end <= Len(frames')
          /\ writing # None => /\ writing.end \in 1..Len(frames')
                               /\ \A e \in Written : e.end < writing.end
      BY <1>0, <1>a, <2>1 DEF InOrder
    <3>5. QED
      BY <2>2, <3>2, <3>3, <3>4 DEF InOrder
  <2>4. CASE queue' = queue
    BY <1>0, <1>a, <2>1, <2>2, <2>4 DEF InOrder, Written
  <2>5. QED
    BY <1>2, <2>3, <2>4, CloseSteps
<1>3. CASE Take
  <2>1. /\ writing' = Head(queue) /\ queue' = Tail(queue) /\ queue # <<>>
        /\ UNCHANGED <<stored, failed, frames>>
    BY <1>3 DEF Take, dspVars
  <2>2. /\ writing' = queue[1] /\ Len(queue') = Len(queue) - 1 /\ Len(queue) >= 1
        /\ \A j \in 1..(Len(queue) - 1) : queue'[j] = queue[j + 1]
    BY <1>0, <2>1, HeadTailProperties, LenProperties
  <2>3. \A j \in 1..Len(queue') :
           j + 1 \in 1..Len(queue) /\ 1 < j + 1 /\ queue'[j] = queue[j + 1]
    BY <1>0, <2>2
  <2>4. 1 \in 1..Len(queue)
    BY <1>0, <2>2
  <2>5. /\ writing'.end \in 1..Len(frames)
        /\ \A e \in Written : e.end < writing'.end
    BY <2>2, <2>4 DEF InOrder
  <2>6. ASSUME NEW j \in 1..Len(queue')
        PROVE  /\ writing'.end < queue'[j].end
               /\ queue'[j].end \in 1..Len(frames)
               /\ \A i \in 1..Len(queue') : i < j => queue'[i].end < queue'[j].end
               /\ \A e \in Written : e.end < queue'[j].end
    <3>1. j + 1 \in 1..Len(queue) /\ 1 < j + 1 /\ queue'[j] = queue[j + 1]
      BY <2>3
    <3>2. queue[1].end < queue[j + 1].end
      BY <2>4, <3>1 DEF InOrder
    <3>3. ASSUME NEW i \in 1..Len(queue'), i < j PROVE queue'[i].end < queue'[j].end
      <4>1. i + 1 \in 1..Len(queue) /\ i + 1 < j + 1 /\ queue'[i] = queue[i + 1]
        BY <2>3, <3>3
      <4>2. QED
        BY <3>1, <4>1 DEF InOrder
    <3>4. QED
      BY <2>2, <3>1, <3>2, <3>3 DEF InOrder
  <2>7. Written' = Written /\ \A e \in Written : e.end <= Len(frames)
    BY <2>1 DEF InOrder, Written
  <2>8. QED
    BY <2>1, <2>5, <2>6, <2>7 DEF InOrder
<1>4. CASE Persist
  <2>1. /\ writing # None /\ writing' = None /\ Written' = Written \cup {writing}
        /\ UNCHANGED <<queue, frames>>
    BY <1>4 DEF Persist, Written, dspVars
  <2>2. /\ \A e \in Written' : e.end <= Len(frames)
        /\ \A j \in 1..Len(queue), e \in Written' : e.end < queue[j].end
    BY <1>0, <2>1 DEF InOrder
  <2>3. QED
    BY <2>1, <2>2 DEF InOrder
<1>5. CASE UNCHANGED <<frames, queue, writing, stored, failed>>
  BY <1>5 DEF InOrder, Written
<1>6. QED
  BY <1>1, <1>2, <1>3, <1>4, <1>5 DEF Next, Dsp, Store, Main, Stopped, DspExit,
     Expire, Drained, RequestShutdown, JoinDsp, JoinStore, Ask, Answer, vars, dspVars, storeVars,
     mainVars, requestVars

LEMMA NextCounted == TypeOK /\ Phases /\ InOrder /\ Counted /\ [Next]_vars => Counted'
<1> SUFFICES ASSUME TypeOK, Phases, InOrder, Counted, [Next]_vars PROVE Counted'
  OBVIOUS
<1>0. /\ queue \in Seq(Event) /\ closed \in Seq(Event) /\ Len(closed) \in Nat
      /\ Len(queue) \in Nat /\ writing \in Event /\ dropped \in Nat
      /\ Written \subseteq Event /\ IsFiniteSet(Written) /\ Cardinality(Written) \in Nat
  BY LenProperties, FS_CardinalityType DEF TypeOK, Written, Counted
<1>1. CASE Close
  <2>1. UNCHANGED <<writing, stored, failed>> /\ storeOpen
    BY <1>1, CloseSteps DEF storeVars, Phases
  <2>2. Len(closed') = Len(closed) + 1
    BY <1>0, <1>1, CloseSteps, AppendProperties, LenProperties
  <2>3. \/ Len(queue') = Len(queue) + 1 /\ dropped' = dropped
        \/ Len(queue') = Len(queue) /\ dropped' = dropped + 1
    BY <1>0, <1>1, <2>1, CloseSteps, AppendProperties, LenProperties
  <2>4. Written' = Written
    BY <2>1 DEF Written
  <2>5. CASE Len(queue') = Len(queue) + 1 /\ dropped' = dropped
    BY <1>0, <2>1, <2>2, <2>4, <2>5 DEF Counted
  <2>6. CASE Len(queue') = Len(queue) /\ dropped' = dropped + 1
    BY <1>0, <2>1, <2>2, <2>4, <2>6 DEF Counted
  <2>7. QED
    BY <2>3, <2>5, <2>6
<1>2. CASE Take
  <2>1. /\ writing = None /\ writing' = Head(queue) /\ queue' = Tail(queue)
        /\ queue # <<>> /\ UNCHANGED <<stored, failed, closed, dropped>>
    BY <1>2 DEF Take, dspVars
  <2>2. writing' = queue[1] /\ Len(queue') = Len(queue) - 1 /\ 1 \in 1..Len(queue)
    BY <1>0, <2>1, HeadTailProperties, LenProperties
  <2>3. writing'.end # 0
    <3>1. queue[1].end \in 1..Len(frames)
      BY <2>2 DEF InOrder
    <3>2. QED
      BY <2>2, <3>1
  <2>4. writing' # None
    BY <2>3 DEF None
  <2>5. Written' = Written
    BY <2>1 DEF Written
  <2>6. QED
    BY <1>0, <2>1, <2>2, <2>4, <2>5 DEF Counted
<1>3. CASE Persist
  <2>1. /\ writing # None /\ writing' = None /\ Written' = Written \cup {writing}
        /\ UNCHANGED <<queue, closed, dropped>>
    BY <1>3 DEF Persist, Written, dspVars
  <2>2. writing \notin Written
    <3>1. writing.end \in Nat
      BY <1>0 DEF Event
    <3>2. \A e \in Written : e.end < writing.end
      BY <2>1 DEF InOrder
    <3>3. QED
      BY <3>1, <3>2
  <2>3. IsFiniteSet(Written') /\ Cardinality(Written') = Cardinality(Written) + 1
    BY <1>0, <2>1, <2>2, FS_AddElement
  <2>4. QED
    BY <1>0, <2>1, <2>3 DEF Counted
<1>4. CASE UNCHANGED <<closed, queue, dropped, writing, stored, failed>>
  BY <1>4 DEF Counted, Written
<1>5. QED
  BY <1>1, <1>2, <1>3, <1>4 DEF Next, Dsp, Store, Main, Stopped, Loud, Quiet, DspExit,
     Expire, Drained, RequestShutdown, JoinDsp, JoinStore, Ask, Answer, vars, dspVars, storeVars,
     mainVars, requestVars

\* Whatever the queue and the database do, every completed event is stored, failed,
\* dropped and counted, or on its way, and a finished shutdown leaves none on its way
\* (EventStore::enqueue, persist_loop, main).
THEOREM NoEventLostTheorem == Spec => []NoEventLost
<1>1. Phases /\ Counted => NoEventLost
  BY DEF Phases, Counted, NoEventLost, Written
<1>2. QED
  BY <1>1, InitType, NextType, InitPhases, NextPhases, InitCounted, NextInOrder,
     NextCounted, PTL DEF Spec

----------------------------------------------------------------------------
(* What a request for the detections finds. *)

\* Events neither touch nor overlap, so the start of an event tells it from all others.
Apart ==
    /\ \A i \in 1..Len(closed) :
          closed[i].start < closed[i].end /\ closed[i].end <= Len(frames)
    /\ \A i, j \in 1..Len(closed) : i < j => closed[i].end < closed[j].start
    /\ active # None =>
          /\ active.start <= Len(frames)
          /\ \A i \in 1..Len(closed) : closed[i].end < active.start

\* The place in the queue of the i-th event; 0 is the event that is being written.
Place(i) == i - (Len(closed) - Len(queue))

\* As long as none is dropped, events reach the database in the order of the tracker.
InTurn == dropped = 0 =>
    \A i \in 1..Len(closed) :
        /\ Place(i) >= 1 => closed[i] = queue[Place(i)]
        /\ Place(i) = 0 => closed[i] \in Written \/ (writing # None /\ closed[i] = writing)
        /\ Place(i) < 0 => closed[i] \in Written

\* A request has read every event but those that were in the queue when it came.
Reading == asked # -1 /\ dropped = 0 /\ Cardinality(stored) < Limit =>
    \A i \in 1..asked : closed[i] \in rows \cup failed \/ asked - i <= QueueCapacity

LEMMA InitReading == Init => Apart /\ InTurn /\ Reading
<1> SUFFICES ASSUME Init PROVE Apart /\ InTurn /\ Reading
  OBVIOUS
<1>1. Len(closed) = 0 /\ active = None /\ asked = -1
  BY EmptySeq DEF Init
<1>2. QED
  BY <1>1 DEF Apart, InTurn, Reading

LEMMA ClosedFacts ==
    ASSUME TypeOK
    PROVE  /\ Len(closed) \in Nat /\ Len(frames) \in Nat /\ Len(queue) \in Nat
           /\ Len(completed) \in Nat
           /\ \A i \in 1..Len(closed) : /\ closed[i] \in Event
                                        /\ closed[i].start \in Nat /\ closed[i].end \in Nat
           /\ active.start \in Nat /\ active \in Event
<1>1. \A e \in Event : e.start \in Nat /\ e.end \in Nat
  BY DEF Event
<1>2. \A i \in 1..Len(closed) : closed[i] \in Event
  BY ElementOfSeq DEF TypeOK
<1>3. QED
  BY <1>1, <1>2, LenProperties DEF TypeOK

\* What the end of an event adds to the list of events.
LEMMA ClosedNext ==
    ASSUME TypeOK, Close
    PROVE  /\ Len(closed') = Len(closed) + 1 /\ closed'[Len(closed) + 1] = Ended
           /\ \A i \in 1..Len(closed) : closed'[i] = closed[i]
           /\ Len(frames') = Len(frames) + 1
           /\ Ended.start = active.start /\ Ended.end = Len(frames) + 1
           /\ active # None /\ active' = None
<1>1. closed' = Append(closed, Ended) /\ frames' = Append(frames, FALSE) /\ Ended \in Event
  BY CloseSteps
<1>2. closed \in Seq(Event) /\ frames \in Seq(BOOLEAN)
  BY DEF TypeOK
<1>3. active # None /\ active' = None
  BY DEF Close, Closing
<1>4. Ended.start = active.start /\ Ended.end = Len(frames) + 1
  BY CloseSteps DEF Ended
<1>5. Len(frames') = Len(frames) + 1
  BY <1>1, <1>2, AppendProperties, LenProperties
<1>6. /\ Len(closed') = Len(closed) + 1 /\ closed'[Len(closed) + 1] = Ended
      /\ \A i \in 1..Len(closed) : closed'[i] = closed[i]
  BY <1>1, <1>2, AppendProperties, LenProperties
<1>7. QED
  BY <1>3, <1>4, <1>5, <1>6

LEMMA NextApart == TypeOK /\ Apart /\ [Next]_vars => Apart'
<1> SUFFICES ASSUME TypeOK, Apart, [Next]_vars PROVE Apart'
  OBVIOUS
<1>0. /\ Len(closed) \in Nat /\ Len(frames) \in Nat /\ active.start \in Nat
      /\ \A i \in 1..Len(closed) : closed[i].start \in Nat /\ closed[i].end \in Nat
  BY ClosedFacts
<1>1. CASE Loud \/ Quiet
  <2>1. /\ frames' \in {Append(frames, TRUE), Append(frames, FALSE)}
        /\ closed' = closed
    BY <1>1 DEF Loud, Quiet
  <2>2. Len(frames') = Len(frames) + 1
    <3>1. frames \in Seq(BOOLEAN)
      BY DEF TypeOK
    <3>2. /\ Len(Append(frames, TRUE)) = Len(frames) + 1
          /\ Len(Append(frames, FALSE)) = Len(frames) + 1
      BY <3>1, AppendProperties, LenProperties
    <3>3. QED
      BY <2>1, <3>2
  <2>3. \/ active' = active
        \/ active'.start = Len(frames) + 1
    <3>1. CASE Loud
      <4>1. active' = IF active = None THEN [start |-> Frame, end |-> 0] ELSE active
        BY <3>1 DEF Loud
      <4>2. [start |-> Frame, end |-> 0].start = Frame
        OBVIOUS
      <4>3. QED
        BY <4>1, <4>2 DEF Frame
    <3>2. CASE Quiet
      BY <3>2 DEF Quiet
    <3>3. QED
      BY <1>1, <3>1, <3>2
  <2>4. \A i \in 1..Len(closed) :
            closed[i].start < closed[i].end /\ closed[i].end <= Len(frames')
    BY <1>0, <2>2 DEF Apart
  <2>5. active' # None =>
            /\ active'.start <= Len(frames')
            /\ \A i \in 1..Len(closed) : closed[i].end < active'.start
    <3>1. CASE active' = active
      BY <1>0, <2>2, <3>1 DEF Apart
    <3>2. CASE active'.start = Len(frames) + 1
      BY <1>0, <2>2, <3>2 DEF Apart
    <3>3. QED
      BY <2>3, <3>1, <3>2
  <2>6. QED
    BY <2>1, <2>4, <2>5 DEF Apart
<1>2. CASE Close
  <2>1. /\ Len(closed') = Len(closed) + 1 /\ closed'[Len(closed) + 1] = Ended
        /\ \A i \in 1..Len(closed) : closed'[i] = closed[i]
        /\ Len(frames') = Len(frames) + 1
        /\ Ended.start = active.start /\ Ended.end = Len(frames) + 1
        /\ active # None /\ active' = None
    BY <1>2, ClosedNext
  <2>2. \A i \in 1..Len(closed') : i \in 1..Len(closed) \/ i = Len(closed) + 1
    BY <1>0, <2>1
  <2>3. /\ Ended.start < Ended.end /\ Ended.end <= Len(frames')
        /\ \A i \in 1..Len(closed) : closed[i].end < Ended.start
    BY <1>0, <2>1 DEF Apart
  <2>4. ASSUME NEW i \in 1..Len(closed')
        PROVE  closed'[i].start < closed'[i].end /\ closed'[i].end <= Len(frames')
    <3>1. CASE i \in 1..Len(closed)
      BY <1>0, <2>1, <3>1 DEF Apart
    <3>2. CASE i = Len(closed) + 1
      BY <2>1, <2>3, <3>2
    <3>3. QED
      BY <2>2, <3>1, <3>2
  <2>5. ASSUME NEW i \in 1..Len(closed'), NEW j \in 1..Len(closed'), i < j
        PROVE  closed'[i].end < closed'[j].start
    <3>1. i \in 1..Len(closed)
      BY <1>0, <2>1, <2>5
    <3>2. CASE j \in 1..Len(closed)
      BY <2>1, <2>5, <3>1, <3>2 DEF Apart
    <3>3. CASE j = Len(closed) + 1
      BY <2>1, <2>3, <3>1, <3>3
    <3>4. QED
      BY <2>2, <3>2, <3>3
  <2>6. QED
    BY <2>1, <2>4, <2>5 DEF Apart
<1>3. CASE UNCHANGED <<frames, closed, active>>
  BY <1>3 DEF Apart
<1>4. QED
  BY <1>1, <1>2, <1>3 DEF Next, Dsp, Store, Main, Stopped, DspExit, Take, Persist, Expire,
     Drained, RequestShutdown, JoinDsp, JoinStore, Ask, Answer, vars, dspVars, storeVars,
     mainVars, requestVars

LEMMA NextInTurn == TypeOK /\ Phases /\ Apart /\ InTurn /\ [Next]_vars => InTurn'
<1> SUFFICES ASSUME TypeOK, Phases, Apart, InTurn, [Next]_vars, dropped' = 0 PROVE InTurn'
  BY DEF InTurn
<1>0. /\ Len(closed) \in Nat /\ Len(queue) \in Nat /\ dropped \in Nat
      /\ queue \in Seq(Event)
  BY ClosedFacts DEF TypeOK
<1>1. CASE Close
  <2>1. /\ Len(closed') = Len(closed) + 1 /\ closed'[Len(closed) + 1] = Ended
        /\ \A i \in 1..Len(closed) : closed'[i] = closed[i]
    BY <1>1, ClosedNext
  <2>2. /\ queue' = Append(queue, Ended) /\ dropped = 0 /\ Ended \in Event
        /\ UNCHANGED <<writing, stored, failed>>
    <3>1. storeOpen
      BY <1>1, CloseSteps DEF Phases
    <3>2. ~(dropped' = dropped + 1)
      BY <1>0
    <3>3. QED
      BY <1>1, <3>1, <3>2, CloseSteps DEF storeVars
  <2>3. /\ Len(queue') = Len(queue) + 1 /\ queue'[Len(queue) + 1] = Ended
        /\ \A j \in 1..Len(queue) : queue'[j] = queue[j]
    BY <1>0, <2>2, AppendProperties, LenProperties
  <2>4. ASSUME NEW i \in 1..Len(closed')
        PROVE  /\ Place(i)' >= 1 => closed'[i] = queue'[Place(i)']
               /\ Place(i)' = 0 => closed'[i] \in Written
                                      \/ (writing # None /\ closed'[i] = writing)
               /\ Place(i)' < 0 => closed'[i] \in Written
    <3>1. Place(i)' = Place(i) /\ Place(i) \in Int /\ Place(i) <= Len(queue) + 1
      BY <1>0, <2>1, <2>3 DEF Place
    <3>2. CASE i \in 1..Len(closed)
      <4>1. closed'[i] = closed[i] /\ Place(i) <= Len(queue)
        BY <1>0, <2>1, <3>2 DEF Place
      <4>2. Place(i) >= 1 => queue'[Place(i)] = queue[Place(i)]
        BY <1>0, <2>3, <3>1, <4>1
      <4>3. QED
        BY <2>2, <3>1, <3>2, <4>1, <4>2 DEF InTurn
    <3>3. CASE i = Len(closed) + 1
      <4>1. Place(i) = Len(queue) + 1
        BY <1>0, <3>3 DEF Place
      <4>2. QED
        BY <1>0, <2>1, <2>3, <3>1, <3>3, <4>1
    <3>4. QED
      BY <1>0, <2>1, <3>2, <3>3
  <2>5. Written' = Written
    BY <2>2 DEF Written
  <2>6. QED
    BY <2>2, <2>4, <2>5 DEF InTurn
<1>2. CASE Take
  <2>1. /\ writing = None /\ writing' = Head(queue) /\ queue' = Tail(queue)
        /\ queue # <<>> /\ UNCHANGED <<stored, failed, closed, dropped>>
    BY <1>2 DEF Take, dspVars
  <2>2. /\ writing' = queue[1] /\ Len(queue') = Len(queue) - 1
        /\ \A j \in 1..(Len(queue) - 1) : queue'[j] = queue[j + 1]
    BY <1>0, <2>1, HeadTailProperties, LenProperties
  <2>3. Written' = Written
    BY <2>1 DEF Written
  <2>4. ASSUME NEW i \in 1..Len(closed)
        PROVE  /\ Place(i)' >= 1 => closed[i] = queue'[Place(i)']
               /\ Place(i)' = 0 => writing' # None /\ closed[i] = writing'
               /\ Place(i)' < 0 => closed[i] \in Written
    <3>1. Place(i)' = Place(i) - 1 /\ Place(i) \in Int /\ Place(i) <= Len(queue)
      BY <1>0, <2>1, <2>2 DEF Place
    <3>2. CASE Place(i)' >= 1
      <4>1. Place(i) - 1 \in 1..(Len(queue) - 1)
        BY <1>0, <3>1, <3>2
      <4>2. queue'[Place(i)'] = queue[Place(i)]
        BY <2>2, <3>1, <4>1
      <4>3. Place(i) >= 1
        BY <3>1, <3>2
      <4>4. QED
        BY <2>1, <3>1, <3>2, <4>2, <4>3 DEF InTurn
    <3>3. CASE Place(i)' = 0
      <4>1. Place(i) = 1
        BY <3>1, <3>3
      <4>2. closed[i] = writing'
        BY <2>1, <2>2, <4>1 DEF InTurn
      <4>3. closed[i] # None
        <5>1. closed[i].start < closed[i].end /\ closed[i].start \in Nat
          BY ClosedFacts DEF Apart
        <5>2. closed[i].end # 0
          BY <5>1
        <5>3. QED
          BY <5>2 DEF None
      <4>4. QED
        BY <3>3, <4>2, <4>3
    <3>4. CASE Place(i)' < 0
      <4>1. Place(i) <= 0
        BY <3>1, <3>4
      <4>2. closed[i] \in Written
        BY <2>1, <3>1, <4>1 DEF InTurn
      <4>3. QED
        BY <3>1, <3>4, <4>2
    <3>5. QED
      BY <3>1, <3>2, <3>3, <3>4
  <2>5. QED
    BY <2>1, <2>3, <2>4 DEF InTurn
<1>3. CASE Persist
  <2>1. /\ writing # None /\ writing' = None /\ Written' = Written \cup {writing}
        /\ UNCHANGED <<queue, closed, dropped>>
    BY <1>3 DEF Persist, Written, dspVars
  <2>2. QED
    BY <2>1 DEF InTurn, Place
<1>4. CASE UNCHANGED <<closed, queue, dropped, writing, stored, failed>>
  BY <1>4 DEF InTurn, Written, Place
<1>5. QED
  BY <1>1, <1>2, <1>3, <1>4 DEF Next, Dsp, Store, Main, Stopped, Loud, Quiet, DspExit,
     Expire, Drained, RequestShutdown, JoinDsp, JoinStore, Ask, Answer, vars, dspVars, storeVars,
     mainVars, requestVars

\* Below the limit a request reads every stored event.
LEMMA AllRead ==
    ASSUME IsFiniteSet(stored), Cardinality(stored) < Limit
    PROVE  Newest(stored) = stored
<1> SUFFICES ASSUME NEW e \in stored
             PROVE  Cardinality({f \in stored : f.end > e.end}) < Limit
  BY DEF Newest
<1> DEFINE later == {f \in stored : f.end > e.end}
<1>1. later \subseteq stored
  OBVIOUS
<1>2. /\ Cardinality(later) \in Nat /\ Cardinality(stored) \in Nat
      /\ Cardinality(later) <= Cardinality(stored)
  BY <1>1, FS_Subset, FS_CardinalityType
<1>3. QED
  BY <1>2

LEMMA NextReading ==
    TypeOK /\ Counted /\ InTurn /\ Reading /\ [Next]_vars => Reading'
<1> SUFFICES ASSUME TypeOK, Counted, InTurn, Reading, [Next]_vars,
                    asked' # -1, dropped' = 0, Cardinality(stored') < Limit,
                    NEW i \in 1..asked'
             PROVE  closed'[i] \in rows' \cup failed' \/ asked' - i <= QueueCapacity
  BY DEF Reading
<1>0. /\ Len(closed) \in Nat /\ Len(queue) \in Nat /\ dropped \in Nat
      /\ Len(queue) <= QueueCapacity /\ asked \in -1..Len(closed)
      /\ closed \in Seq(Event)
  BY ClosedFacts DEF TypeOK
<1>a. IsFiniteSet(stored) /\ IsFiniteSet(failed) /\ Cardinality(stored) \in Nat
  <2>1. stored \subseteq Written /\ failed \subseteq Written /\ IsFiniteSet(Written)
    BY DEF Counted, Written
  <2>2. QED
    BY <2>1, FS_Subset, FS_CardinalityType
<1>b. ASSUME asked # -1, dropped = 0, Cardinality(stored) < Limit, asked' = asked,
             rows' = rows, failed \subseteq failed', closed'[i] = closed[i]
      PROVE  closed'[i] \in rows' \cup failed' \/ asked' - i <= QueueCapacity
  <2>1. i \in 1..asked
    BY <1>b
  <2>2. closed[i] \in rows \cup failed \/ asked - i <= QueueCapacity
    BY <1>b, <2>1 DEF Reading
  <2>3. QED
    BY <1>b, <2>2
<1>1. CASE Close
  <2>1. UNCHANGED <<asked, rows, stored, failed>>
    BY <1>1, CloseSteps DEF storeVars, requestVars
  <2>2. dropped = 0
    <3>1. dropped' \in {dropped, dropped + 1}
      BY <1>1, CloseSteps
    <3>2. QED
      BY <1>0, <3>1
  <2>3. closed'[i] = closed[i]
    <3>1. i \in 1..Len(closed)
      BY <1>0, <2>1
    <3>2. QED
      BY <1>1, <3>1, ClosedNext
  <2>4. QED
    BY <1>b, <2>1, <2>2, <2>3
<1>2. CASE Persist
  <2>1. /\ UNCHANGED <<asked, rows, closed, dropped>>
        /\ failed \subseteq failed' /\ stored \subseteq stored'
        /\ stored' \in {stored, stored \cup {writing}}
    BY <1>2 DEF Persist, dspVars, requestVars
  <2>2. IsFiniteSet(stored')
    BY <1>a, <2>1, FS_AddElement
  <2>3. /\ Cardinality(stored) <= Cardinality(stored')
        /\ Cardinality(stored') \in Nat
    BY <2>1, <2>2, FS_Subset, FS_CardinalityType
  <2>4. Cardinality(stored) < Limit
    BY <1>a, <2>3
  <2>5. QED
    BY <1>b, <2>1, <2>4
<1>3. CASE Ask
  <2>1. /\ asked' = Len(closed) /\ rows' = Newest(stored)
        /\ UNCHANGED <<closed, stored, failed, dropped>>
    BY <1>3 DEF Ask, dspVars, storeVars
  <2>2. rows' = stored
    BY <1>a, <2>1, AllRead
  <2>3. Place(i) \in Int /\ asked' - i = Len(queue) - Place(i) /\ i \in 1..Len(closed)
    BY <1>0, <2>1 DEF Place
  <2>4. CASE Place(i) >= 0
    BY <1>0, <2>3, <2>4
  <2>5. CASE Place(i) < 0
    <3>1. closed[i] \in Written
      BY <2>1, <2>3, <2>5 DEF InTurn
    <3>2. QED
      BY <2>1, <2>2, <3>1 DEF Written
  <2>6. QED
    BY <2>3, <2>4, <2>5
<1>4. CASE Answer
  BY <1>4 DEF Answer
<1>5. CASE UNCHANGED <<asked, rows, closed, dropped, stored, failed>>
  BY <1>5, <1>b
<1>6. QED
  BY <1>1, <1>2, <1>3, <1>4, <1>5 DEF Next, Dsp, Store, Main, Stopped, Loud, Quiet, DspExit,
     Take, Expire, Drained, RequestShutdown, JoinDsp, JoinStore, vars, dspVars, storeVars,
     mainVars, requestVars

\* An event that is in the ring, or was read, is in the answer: of two with the same start
\* there is only one.
LEMMA MergedFinds ==
    ASSUME TypeOK, RingIsLatest, Apart, NEW i \in 1..Len(closed),
           closed[i] \in rows \/ Len(closed) - i < RingEvents
    PROVE  closed[i] \in Merged
<1>0. /\ Len(closed) \in Nat /\ Len(completed) \in Nat /\ completed \in Seq(Event)
      /\ \A j \in 1..Len(closed) : closed[j].start \in Nat /\ closed[j].end \in Nat
      /\ DOMAIN completed = 1..Len(completed) /\ active.start \in Nat
      /\ RingEvents \in Nat
  BY ClosedFacts, LenProperties DEF TypeOK
<1>1. CASE Len(closed) - i < RingEvents
  <2>1. PICK k \in Int : k = i - (Len(closed) - Len(completed))
    BY <1>0
  <2>2. k \in DOMAIN completed /\ Len(closed) - Len(completed) + k = i
    <3>1. Len(completed) = IF Len(closed) < RingEvents THEN Len(closed) ELSE RingEvents
      BY DEF RingIsLatest
    <3>2. k \in 1..Len(completed)
      BY <1>0, <1>1, <2>1, <3>1
    <3>3. QED
      BY <1>0, <2>1, <3>2
  <2>3. completed[k] = closed[i]
    BY <2>2 DEF RingIsLatest
  <2>4. QED
    BY <2>2, <2>3 DEF Merged, Live
<1>2. CASE closed[i] \in rows
  <2>1. SUFFICES ASSUME closed[i] \notin Live PROVE \A f \in Live : f.start # closed[i].start
    BY <1>2 DEF Merged
  <2>2. ASSUME NEW f \in Live PROVE f.start # closed[i].start
    <3>1. CASE f = active /\ active # None
      BY <1>0, <3>1 DEF Apart
    <3>2. ASSUME NEW m \in DOMAIN completed, f = completed[m]
          PROVE  f.start # closed[i].start
      <4>1. PICK j \in Int : j = Len(closed) - Len(completed) + m
        BY <1>0
      <4>2. j \in 1..Len(closed) /\ f = closed[j]
        BY <1>0, <3>2, <4>1 DEF RingIsLatest
      <4>3. j # i
        BY <2>1, <4>2
      <4>4. \A a, b \in 1..Len(closed) : a < b => closed[a].start < closed[b].start
        BY <1>0 DEF Apart
      <4>5. i < j \/ j < i
        BY <4>1, <4>3
      <4>6. QED
        BY <1>0, <4>2, <4>4, <4>5
    <3>3. QED
      BY <2>2, <3>1, <3>2 DEF Live
  <2>3. QED
    BY <2>2
<1>3. QED
  BY <1>1, <1>2

\* Whatever moves on between the read of the database and that of the tracker, the answer
\* has every event that had completed when the request came, under the conditions that
\* DetectionsComplete names (detections, Storage::signal_events, EventTracker::events).
THEOREM DetectionsTheorem == Spec => DetectionsComplete
<1> DEFINE IInv == TypeOK /\ Phases /\ InOrder /\ Counted /\ RingIsLatest
                       /\ Apart /\ InTurn /\ Reading
<1>1. Init => IInv
  BY InitType, InitPhases, InitCounted, InitRing, InitReading
<1>2. IInv /\ [Next]_vars => IInv'
  BY NextType, NextPhases, NextInOrder, NextCounted, NextRing, NextApart, NextInTurn,
     NextReading
<1>3. ASSUME IInv, asked # -1, dropped = 0, Cardinality(stored) < Limit,
             Len(closed) - asked <= RingEvents - QueueCapacity - 1
      PROVE  \A i \in 1..asked : closed[i] \in Merged \cup failed
  <2>0. TypeOK /\ RingIsLatest /\ Apart /\ Reading
    BY <1>3
  <2> HIDE DEF IInv
  <2> SUFFICES ASSUME NEW i \in 1..asked PROVE closed[i] \in Merged \cup failed
    OBVIOUS
  <2>1. asked \in -1..Len(closed) /\ Len(closed) \in Nat
    BY <2>0, ClosedFacts DEF TypeOK
  <2>2. i \in 1..Len(closed)
    BY <2>1
  <2>3. closed[i] \in rows \cup failed \/ asked - i <= QueueCapacity
    BY <1>3, <2>0 DEF Reading
  <2>4. CASE asked - i <= QueueCapacity
    <3>1. Len(closed) - i < RingEvents
      BY <1>3, <2>1, <2>4
    <3>2. QED
      BY <2>0, <2>2, <3>1, MergedFinds
  <2>5. CASE closed[i] \in rows
    BY <2>0, <2>2, <2>5, MergedFinds
  <2>6. QED
    BY <2>3, <2>4, <2>5
<1>4. QED
  <2>1. IInv /\ [Next]_vars =>
            [asked # -1 /\ asked' = -1 /\ dropped = 0 /\ Cardinality(stored) < Limit
             /\ Len(closed) - asked <= RingEvents - QueueCapacity - 1 =>
                \A i \in 1..asked : closed[i] \in Merged \cup failed]_vars
    BY <1>3
  <2>2. QED
    BY <1>1, <1>2, <2>1, PTL DEF Spec, DetectionsComplete

----------------------------------------------------------------------------
(* MetadataStore. *)

\* The recording of a request under way, and the rows its statements refer to.
Indexing ==
    /\ sessions \subseteq Captures /\ recordings \subseteq sessions
    /\ hPc \in {"idle", "session", "index"}
    /\ hPc = "idle" => hCapture = NoCapture
    /\ hPc # "idle" => hCapture \in Captures
    /\ hPc = "index" => hCapture \in sessions

IndexInv == Indexing /\ StartedIsIndexed

\* How far the migration has come.
Migrating ==
    /\ tables \in 0..Tables /\ migration \in Nat
    /\ applied \subseteq Versions /\ version \in 0..2 /\ seen \in 0..2
    /\ \A v \in 1..version : v \in applied
    /\ pc \in {"down", "tables", "first", "second", "up"}
    /\ pc = "tables" => migration <= tables
    /\ pc \in {"first", "second", "up"} => tables = Tables
    /\ pc \in {"first", "second"} =>
          /\ migration \in 1..3
          /\ version = IF seen >= migration THEN seen ELSE migration - 1
    /\ pc = "second" => seen < migration /\ migration \in applied
    /\ pc = "up" => version = 2

USE DEF SessionFirst, RowFirst

----------------------------------------------------------------------------
LEMMA InitIndexInv == MetadataInit => IndexInv
  BY FilesAssumption DEF MetadataInit, IndexInv, Indexing, StartedIsIndexed, Files

LEMMA NextIndexInv == IndexInv /\ [MetadataNext]_metadataVars => IndexInv'
<1> SUFFICES ASSUME IndexInv, [MetadataNext]_metadataVars PROVE IndexInv'
  OBVIOUS
<1> USE FilesAssumption DEF IndexInv, Indexing, StartedIsIndexed
<1>1. CASE Open
  BY <1>1 DEF Open, databaseVars
<1>2. CASE CreateTable
  BY <1>2 DEF CreateTable
<1>3. CASE Migrate
  BY <1>3 DEF Migrate
<1>4. CASE Serve
  BY <1>4 DEF Serve, databaseVars
<1>5. CASE Stop
  BY <1>5 DEF Stop, databaseVars
<1>6. CASE StartRecording
  BY <1>6 DEF StartRecording, databaseVars
<1>7. CASE RecordSession
  BY <1>7 DEF RecordSession
<1>8. CASE IndexRecording
  BY <1>8 DEF IndexRecording
<1>9. CASE IndexFails
  BY <1>9 DEF IndexFails, databaseVars
<1>10. CASE Load
  BY <1>10 DEF Load, databaseVars
<1>11. CASE CreateNote
  BY <1>11 DEF CreateNote, serverVars
<1>12. CASE DeleteNote
  BY <1>12 DEF DeleteNote, serverVars
<1>13. CASE UNCHANGED metadataVars
  BY <1>13 DEF metadataVars, databaseVars, serverVars
<1>14. QED
  BY <1>1, <1>2, <1>3, <1>4, <1>5, <1>6, <1>7, <1>8, <1>9, <1>10, <1>11, <1>12,
     <1>13 DEF MetadataNext

\* A recording whose session and index statements both succeeded stays indexed over
\* every crash and restart (recording_start).
THEOREM StartedTheorem == MetadataSpec => []StartedIsIndexed
<1>1. IndexInv => StartedIsIndexed
  BY DEF IndexInv
<1>2. QED
  BY <1>1, InitIndexInv, NextIndexInv, PTL DEF MetadataSpec

----------------------------------------------------------------------------
LEMMA InitMigrating == MetadataInit => Migrating
  BY MetadataBounds DEF MetadataInit, Migrating

LEMMA NextMigrating == Migrating /\ [MetadataNext]_metadataVars => Migrating'
<1> SUFFICES ASSUME Migrating, [MetadataNext]_metadataVars PROVE Migrating'
  OBVIOUS
<1> USE MetadataBounds DEF Migrating
<1>1. CASE Open
  BY <1>1 DEF Open, databaseVars
<1>2. CASE CreateTable
  <2>1. CASE migration < Tables /\ migration' = migration + 1
                /\ tables' = (IF migration < tables THEN tables ELSE migration + 1)
                /\ UNCHANGED <<pc, seen>>
    BY <1>2, <2>1 DEF CreateTable
  <2>2. CASE migration = Tables /\ seen' = version /\ pc' = "first"
                /\ migration' = 1 /\ UNCHANGED tables
    BY <1>2, <2>2 DEF CreateTable
  <2>3. QED
    BY <1>2, <2>1, <2>2 DEF CreateTable
<1>3. CASE Migrate
  <2>1. CASE seen >= migration
    <3>1. /\ pc' = "first" /\ migration' = migration + 1
          /\ UNCHANGED <<applied, version, seen, tables>>
      BY <1>3, <2>1 DEF Migrate
    <3>2. pc \in {"first", "second"} /\ migration \in 1..2 /\ version = seen
      BY <1>3, <2>1 DEF Migrate, Versions
    <3>3. QED
      BY <2>1, <3>1, <3>2
  <2>2. CASE seen < migration /\ pc = "first"
    <3>1. /\ pc' = "second" /\ applied' = applied \cup {migration}
          /\ UNCHANGED <<version, migration, seen, tables>>
      BY <1>3, <2>2 DEF Migrate, Execute
    <3>2. QED
      BY <1>3, <2>2, <3>1 DEF Migrate, Versions
  <2>3. CASE seen < migration /\ pc = "second"
    <3>1. /\ pc' = "first" /\ version' = migration /\ migration' = migration + 1
          /\ UNCHANGED <<applied, seen, tables>>
      BY <1>3, <2>3 DEF Migrate, Execute
    <3>2. version = migration - 1 /\ migration \in 1..2
      BY <1>3, <2>3 DEF Migrate, Versions
    <3>3. \A v \in 1..migration : v \in applied
      BY <2>3, <3>2
    <3>4. QED
      BY <2>3, <3>1, <3>2, <3>3
  <2>4. QED
    BY <1>3, <2>1, <2>2, <2>3 DEF Migrate, Versions
<1>4. CASE Serve
  BY <1>4 DEF Serve, databaseVars, Versions
<1>5. CASE Stop
  BY <1>5 DEF Stop, databaseVars
<1>6. CASE StartRecording
  BY <1>6 DEF StartRecording, databaseVars
<1>7. CASE RecordSession
  BY <1>7 DEF RecordSession
<1>8. CASE IndexRecording
  BY <1>8 DEF IndexRecording
<1>9. CASE IndexFails
  BY <1>9 DEF IndexFails, databaseVars
<1>10. CASE Load
  BY <1>10 DEF Load, databaseVars
<1>11. CASE CreateNote
  BY <1>11 DEF CreateNote, serverVars
<1>12. CASE DeleteNote
  BY <1>12 DEF DeleteNote, serverVars
<1>13. CASE UNCHANGED metadataVars
  BY <1>13 DEF metadataVars, databaseVars, serverVars
<1>14. QED
  BY <1>1, <1>2, <1>3, <1>4, <1>5, <1>6, <1>7, <1>8, <1>9, <1>10, <1>11, <1>12,
     <1>13 DEF MetadataNext

\* Whatever starts were cut off in the middle of the migration, a server that is up has
\* every table and every migration on record (Storage::migrate).
THEOREM MigratedTheorem == MetadataSpec => []ServingMeansMigrated
<1>1. Migrating => ServingMeansMigrated
  <2> SUFFICES ASSUME Migrating, pc = "up" PROVE ServingMeansMigrated
    BY DEF ServingMeansMigrated
  <2>1. version = 2 /\ tables = Tables
    BY DEF Migrating
  <2>2. applied = Versions
    BY <2>1 DEF Migrating, Versions
  <2>3. QED
    BY <2>1, <2>2 DEF ServingMeansMigrated
<1>2. QED
  BY <1>1, InitMigrating, NextMigrating, PTL DEF MetadataSpec
----------------------------------------------------------------------------
\* The database's half of MetadataTypeOK is about what rows may refer to; a new note differs
\* from all others because its ID is larger.
LEMMA NextMetadataTypeOK == MetadataTypeOK /\ [MetadataNext]_metadataVars => MetadataTypeOK'
<1> SUFFICES ASSUME MetadataTypeOK, [MetadataNext]_metadataVars PROVE MetadataTypeOK'
  OBVIOUS
<1> USE FilesAssumption, MetadataBounds DEF MetadataTypeOK, Files
<1>1. CASE Open
  BY <1>1 DEF Open, databaseVars
<1>2. CASE CreateTable
  BY <1>2 DEF CreateTable
<1>3. CASE Migrate
  <2>1. /\ migration \in Versions /\ migration' \in {migration, migration + 1}
        /\ pc' \in {"first", "second"}
        /\ applied' \in {applied, applied \cup {migration}}
        /\ version' \in {version, migration}
    BY <1>3 DEF Migrate, Execute
  <2>2. migration' \in Nat
    BY <2>1 DEF Versions
  <2>3. QED
    BY <1>3, <2>1, <2>2 DEF Migrate
<1>4. CASE Serve
  BY <1>4 DEF Serve, databaseVars
<1>5. CASE Stop
  BY <1>5 DEF Stop, databaseVars
<1>6. CASE StartRecording
  BY <1>6 DEF StartRecording, databaseVars
<1>7. CASE RecordSession
  BY <1>7 DEF RecordSession
<1>8. CASE IndexRecording
  BY <1>8 DEF IndexRecording
<1>9. CASE IndexFails
  BY <1>9 DEF IndexFails, databaseVars
<1>10. CASE Load
  BY <1>10 DEF Load, databaseVars
<1>11. CASE CreateNote
  <2>1. CASE notes' = notes /\ refused' = refused \cup {loaded}
    BY <1>11, <2>1 DEF CreateNote, serverVars
  <2>2. ASSUME NEW id \in 1..MaxNotes, IsNext(id), loaded \in recordings,
               notes' = notes \cup {[id |-> id, recording |-> loaded]},
               refused' = refused
        PROVE MetadataTypeOK'
    <3>1. [id |-> id, recording |-> loaded] \in Note
      BY <2>2 DEF Note
    <3>2. \A n \in notes : n.id # id
      BY <2>2 DEF IsNext, Note
    <3>3. \A m, n \in notes' : m.id = n.id => m = n
      BY <2>2, <3>2
    <3>4. QED
      BY <1>11, <2>2, <3>1, <3>3 DEF CreateNote, serverVars
  <2>3. QED
    BY <1>11, <2>1, <2>2 DEF CreateNote
<1>12. CASE DeleteNote
  BY <1>12 DEF DeleteNote, serverVars
<1>13. CASE UNCHANGED metadataVars
  BY <1>13 DEF metadataVars, databaseVars, serverVars
<1>14. QED
  BY <1>1, <1>2, <1>3, <1>4, <1>5, <1>6, <1>7, <1>8, <1>9, <1>10, <1>11, <1>12,
     <1>13 DEF MetadataNext

\* Every row refers to a row that is there, no two notes share an ID, and a request
\* under way always has its recording.
THEOREM MetadataTypeCorrect == MetadataSpec => []MetadataTypeOK
<1>1. MetadataInit => MetadataTypeOK
  BY FilesAssumption, MetadataBounds DEF MetadataInit, MetadataTypeOK, Files, Versions
<1>2. QED
  BY <1>1, NextMetadataTypeOK, PTL DEF MetadataSpec
=============================================================================
