---------------------------- MODULE IqStream_proofs ----------------------------
(***************************************************************************)
(* Proofs about IqStream, for any pool and any number of transfers.        *)
(*                                                                         *)
(* The reader owns at most one block, between taking it from the pool and  *)
(* handing it on.  Counts states where every buffer and block is; Ordered  *)
(* says that the blocks delivered, the one in hand and those that wait are *)
(* in order; Behind bounds how far each is behind its number in the stream *)
(* by the drops counted so far, because block n is entered as number       *)
(* n - dropped; and Stopping follows the block in hand past a stop.        *)
(* Together they are what each step of StreamContract asks for.            *)
(***************************************************************************)
EXTENDS IqStream, SequenceTheorems, TLAPS

USE PoolAssumption, BoundAssumption
USE DEF DropBlock, Room, Sink, Readable

----------------------------------------------------------------------------
LEMMA InitType == Init => TypeOK
<1> SUFFICES ASSUME Init PROVE TypeOK
  OBVIOUS
<1>1. <<>> \in Seq(Nat)
  BY EmptySeq
<1>2. seenDrops \in Nat /\ resets \subseteq Nat
  BY DEF Init
<1>3. QED
  BY <1>1, <1>2 DEF Init, TypeOK

LEMMA NextType == TypeOK /\ [Next]_vars => TypeOK'
<1> SUFFICES ASSUME TypeOK, [Next]_vars PROVE TypeOK'
  OBVIOUS
<1> USE DEF TypeOK, vars, poolVars, slotVars, cbVars, rVars, ctlVars
<1>0. Len(delivered) \in Nat
  BY LenProperties
<1>1. CASE Arrive
  <2>1. arrived' = arrived + 1 /\ fits' \in BOOLEAN /\ cbPc' \in {"tee", "pool"}
    BY <1>1 DEF Arrive
  <2>2. missed' \in {missed, missed \cup {arrived + 1}}
    BY <1>1 DEF Arrive
  <2>3. UNCHANGED <<blocks, dropped, teed, poolVars, slotVars, rVars, ctlVars>>
    BY <1>1 DEF Arrive
  <2>4. QED
    BY <2>1, <2>2, <2>3
<1>2. CASE Tee
  BY <1>2 DEF Tee
<1>3. CASE Enqueue
  <2>1. Append(ready, arrived) \in Seq(Nat)
    BY AppendProperties, LenProperties
  <2>2. \/ free > 0 /\ free' = free - 1 /\ ready' = Append(ready, arrived)
           /\ dropped' = dropped
        \/ dropped' = dropped + 1 /\ UNCHANGED <<free, ready>>
    BY <1>3 DEF Enqueue
  <2>3. /\ blocks' = blocks + 1 /\ cbPc' = "idle"
        /\ UNCHANGED <<arrived, fits, teed, missed, poolLocked, slotVars, rVars, ctlVars>>
    BY <1>3 DEF Enqueue
  <2>4. free' \in Nat
    BY <2>2
  <2>5. ready' \in Seq(Nat)
    BY <2>1, <2>2
  <2>6. dropped' \in Nat
    BY <2>2
  <2>7. blocks' \in Nat
    BY <2>3
  <2>8. QED
    BY <2>3, <2>4, <2>5, <2>6, <2>7
<1>4. CASE LoadSink
  BY <1>4 DEF LoadSink
<1>5. CASE LockSlot
  BY <1>5 DEF LockSlot
<1>6. CASE Attach
  BY <1>6 DEF Attach
<1>7. CASE Check
  BY <1>7 DEF Check
<1>8. CASE LockPool
  BY <1>8 DEF LockPool
<1>9. CASE Pop
  <2>1. ready # <<>> => Head(ready) \in Nat /\ Tail(ready) \in Seq(Nat)
    BY HeadTailProperties, LenProperties
  <2>2. QED
    BY <1>9, <2>1 DEF Pop
<1>10. CASE Recycle
  <2>1. free' = free + 1 /\ poolLocked' = FALSE /\ rPc' = "drops"
    BY <1>10 DEF Recycle
  <2>2. UNCHANGED <<rSink, rBlock, seenDrops, delivered, resets, ready, slotVars, cbVars,
                    ctlVars>>
    BY <1>10 DEF Recycle
  <2>3. free' \in Nat
    BY <2>1
  <2>4. QED
    BY <2>1, <2>2, <2>3
<1>11. CASE CheckDrops
  <2>1. seenDrops' \in Nat /\ rPc' = "process"
    BY <1>11 DEF CheckDrops
  <2>2. resets' \subseteq Nat
    <3>1. resets' \in {resets, resets \cup {Len(delivered) + 1}}
      BY <1>11 DEF CheckDrops
    <3>2. QED
      BY <1>0, <3>1
  <2>3. UNCHANGED <<rSink, rBlock, delivered, poolVars, slotVars, cbVars, ctlVars>>
    BY <1>11 DEF CheckDrops
  <2>4. QED
    BY <2>1, <2>2, <2>3
<1>12. CASE Process
  <2>1. Append(delivered, rBlock) \in Seq(Nat)
    BY AppendProperties, LenProperties
  <2>2. QED
    BY <1>12, <2>1 DEF Process
<1>13. CASE StartRecording
  BY <1>13 DEF StartRecording
<1>14. CASE StopRecording
  BY <1>14 DEF StopRecording
<1>15. CASE Halt
  BY <1>15, <1>0 DEF Halt
<1>16. CASE JoinCallback
  BY <1>16 DEF JoinCallback
<1>17. CASE UNCHANGED vars
  BY <1>17
<1>18. QED
  BY <1>1, <1>2, <1>3, <1>4, <1>5, <1>6, <1>7, <1>8,
     <1>9, <1>10, <1>11, <1>12, <1>13, <1>14, <1>15, <1>16, <1>17
  DEF Next, Callback, Reader

\* Every variable keeps its type, for any pool and number of transfers.
THEOREM TypeCorrect == Spec => []TypeOK
  BY InitType, NextType, PTL DEF Spec

----------------------------------------------------------------------------
(* Where buffers and blocks are. *)

InHand == rPc \in {"convert", "recycle", "drops", "process"}

Counts ==
    /\ NothingIsLost
    /\ arrived = blocks + One(cbPc # "idle")

LEMMA InitCounts == Init => Counts
  BY DEF Init, Counts, NothingIsLost, PoolConserved, Accounted, One

LEMMA NextCounts == TypeOK /\ Counts /\ [Next]_vars => Counts'
<1> SUFFICES ASSUME TypeOK, Counts, [Next]_vars PROVE Counts'
  OBVIOUS
<1>0. /\ free \in Nat /\ blocks \in Nat /\ dropped \in Nat /\ arrived \in Nat
      /\ ready \in Seq(Nat) /\ Len(ready) \in Nat
      /\ delivered \in Seq(Nat) /\ Len(delivered) \in Nat
      /\ rBlock \in Nat
  BY LenProperties DEF TypeOK
<1> USE <1>0 DEF Counts, NothingIsLost, PoolConserved, Accounted, One,
           vars, poolVars, slotVars, cbVars, rVars, ctlVars
<1>1. CASE Arrive
  <2>1. arrived' = arrived + 1 /\ cbPc = "idle" /\ cbPc' # "idle"
    BY <1>1 DEF Arrive
  <2>2. UNCHANGED <<blocks, dropped, poolVars, rVars>>
    BY <1>1 DEF Arrive
  <2>3. QED
    BY <2>1, <2>2
<1>2. CASE Tee
  BY <1>2 DEF Tee
<1>3. CASE Enqueue
  <2>1. /\ Len(Append(ready, arrived)) = Len(ready) + 1
    BY AppendProperties, LenProperties
  <2>2. \/ free' = free - 1 /\ ready' = Append(ready, arrived) /\ dropped' = dropped
        \/ dropped' = dropped + 1 /\ UNCHANGED <<free, ready>>
    BY <1>3 DEF Enqueue
  <2>3. /\ blocks' = blocks + 1 /\ cbPc = "pool" /\ cbPc' = "idle"
        /\ UNCHANGED <<arrived, rPc, delivered>>
    BY <1>3 DEF Enqueue
  <2>4. \/ free' = free - 1 /\ Len(ready') = Len(ready) + 1 /\ dropped' = dropped
        \/ free' = free /\ Len(ready') = Len(ready) /\ dropped' = dropped + 1
    BY <2>1, <2>2
  <2>5. PoolConserved'
    BY <2>3, <2>4
  <2>6. Accounted'
    <3>1. CASE Len(ready') = Len(ready) + 1 /\ dropped' = dropped
      BY <2>3, <3>1
    <3>2. CASE Len(ready') = Len(ready) /\ dropped' = dropped + 1
      BY <2>3, <3>2
    <3>3. QED
      BY <2>4, <3>1, <3>2
  <2>7. QED
    BY <2>3, <2>5, <2>6
<1>4. CASE LoadSink
  BY <1>4 DEF LoadSink
<1>5. CASE LockSlot
  BY <1>5 DEF LockSlot
<1>6. CASE Attach
  BY <1>6 DEF Attach
<1>7. CASE Check
  BY <1>7 DEF Check
<1>8. CASE LockPool
  BY <1>8 DEF LockPool
<1>9. CASE Pop
  <2>1. ready # <<>> => Len(Tail(ready)) = Len(ready) - 1
    BY HeadTailProperties, LenProperties
  <2>2. /\ rPc = "pop"
        /\ UNCHANGED <<free, arrived, blocks, dropped, cbPc, delivered>>
        /\ \/ ready' = ready /\ rPc' = "sink"
           \/ ready # <<>> /\ ready' = Tail(ready) /\ rPc' = "convert"
    BY <1>9 DEF Pop
  <2>3. \/ Len(ready') = Len(ready) /\ rPc' = "sink"
        \/ Len(ready') = Len(ready) - 1 /\ rPc' = "convert"
    BY <2>1, <2>2
  <2>4. PoolConserved'
    BY <2>2, <2>3
  <2>5. Accounted'
    <3>1. CASE Len(ready') = Len(ready) /\ rPc' = "sink"
      BY <2>2, <3>1
    <3>2. CASE Len(ready') = Len(ready) - 1 /\ rPc' = "convert"
      BY <2>2, <3>2
    <3>3. QED
      BY <2>3, <3>1, <3>2
  <2>6. QED
    BY <2>2, <2>4, <2>5
<1>10. CASE Recycle
  BY <1>10 DEF Recycle
<1>11. CASE CheckDrops
  BY <1>11 DEF CheckDrops
<1>12. CASE Process
  <2>1. Len(Append(delivered, rBlock)) = Len(delivered) + 1
    BY AppendProperties, LenProperties
  <2>2. QED
    BY <1>12, <2>1 DEF Process
<1>13. CASE StartRecording
  BY <1>13 DEF StartRecording
<1>14. CASE StopRecording
  BY <1>14 DEF StopRecording
<1>15. CASE Halt
  BY <1>15 DEF Halt
<1>16. CASE JoinCallback
  BY <1>16 DEF JoinCallback
<1>17. CASE UNCHANGED vars
  BY <1>17
<1>18. QED
  BY <1>1, <1>2, <1>3, <1>4, <1>5, <1>6, <1>7, <1>8,
     <1>9, <1>10, <1>11, <1>12, <1>13, <1>14, <1>15, <1>16, <1>17
  DEF Next, Callback, Reader

\* However the callback and the DSP thread interleave on the pool, no buffer is lost
\* and every transfer is delivered, waiting, in hand or counted as dropped
\* (Ingress::push, BufferedSource::read).
THEOREM NothingIsLostTheorem == Spec => []NothingIsLost
<1>1. TypeOK /\ Counts => NothingIsLost
  BY DEF Counts
<1>2. QED
  BY <1>1, InitType, NextType, InitCounts, NextCounts, PTL DEF Spec

----------------------------------------------------------------------------
(* The order of the blocks, their distance from their number, and the stop. *)

Ordered ==
    /\ DeliveredInOrder
    /\ \A i, j \in 1..Len(ready) : i < j => ready[i] < ready[j]
    /\ \A i \in 1..Len(delivered), j \in 1..Len(ready) : delivered[i] < ready[j]
    /\ InHand =>
          /\ \A i \in 1..Len(delivered) : delivered[i] < rBlock
          /\ \A j \in 1..Len(ready) : rBlock < ready[j]
          /\ rBlock <= blocks
    /\ \A i \in 1..Len(delivered) : delivered[i] <= blocks
    /\ \A j \in 1..Len(ready) : ready[j] <= blocks

Behind ==
    /\ \A j \in 1..Len(ready) :
          ready[j] - (Len(delivered) + One(InHand) + j) <= dropped
    /\ InHand => rBlock - (Len(delivered) + 1) <= dropped
    /\ rPc = "process" => rBlock - (Len(delivered) + 1) <= seenDrops
    /\ delivered # <<>> => delivered[Len(delivered)] - Len(delivered) <= dropped
    /\ GapsCounted

Stopping ==
    ~running =>
        Len(delivered) + One(InHand \/ rPc \in {"lockpool", "pop"}) <= haltedAt + 1

LEMMA InitWhole == Init => Ordered /\ Behind /\ Stopping
  BY EmptySeq DEF Init, Ordered, DeliveredInOrder, Behind, GapsCounted, Stopping, InHand,
     One

LEMMA NextOrdered ==
    TypeOK /\ Counts /\ Ordered /\ [Next]_vars => Ordered'
<1> SUFFICES ASSUME TypeOK, Counts, Ordered, [Next]_vars PROVE Ordered'
  OBVIOUS
<1>0. /\ blocks \in Nat /\ rBlock \in Nat /\ arrived \in Nat
      /\ ready \in Seq(Nat) /\ delivered \in Seq(Nat)
      /\ DOMAIN delivered = 1..Len(delivered) /\ Len(delivered) \in Nat
      /\ \A i \in 1..Len(delivered) : delivered[i] \in Nat
      /\ Len(ready) \in Nat /\ \A j \in 1..Len(ready) : ready[j] \in Nat
  BY ElementOfSeq, LenProperties DEF TypeOK
<1> USE <1>0 DEF Ordered, DeliveredInOrder, InHand,
           vars, poolVars, slotVars, cbVars, rVars, ctlVars
<1>1. CASE Arrive
  BY <1>1 DEF Arrive
<1>2. CASE Tee
  BY <1>2 DEF Tee
<1>3. CASE Enqueue
  <2>1. CASE UNCHANGED ready
    BY <1>3, <1>0, <2>1 DEF Enqueue
  <2>2. CASE ready' = Append(ready, arrived)
    <3>1. arrived = blocks + 1 /\ blocks' = blocks + 1
      BY <1>3 DEF Enqueue, Counts, One
    <3>2. /\ Len(ready') = Len(ready) + 1 /\ ready'[Len(ready) + 1] = arrived
          /\ \A j \in 1..Len(ready) : ready'[j] = ready[j]
      BY <2>2, AppendProperties, LenProperties
    <3>3. UNCHANGED <<delivered, rBlock>> /\ rPc' = rPc
      BY <1>3 DEF Enqueue
    <3>4. \A j \in 1..Len(ready') : j \in 1..Len(ready) \/ j = Len(ready) + 1
      BY <1>0, <3>2
    <3>. HIDE <1>0
    <3>5. ASSUME NEW j \in 1..Len(ready')
          PROVE  /\ ready'[j] <= blocks'
                 /\ \A i \in 1..Len(ready') : i < j => ready'[i] < ready'[j]
                 /\ \A i \in 1..Len(delivered) : delivered[i] < ready'[j]
                 /\ InHand => rBlock < ready'[j]
      <4>1. CASE j \in 1..Len(ready)
        <5>1. ready'[j] = ready[j] /\ ready[j] \in Nat
          BY <1>0, <3>2, <4>1
        <5>2. ASSUME NEW i \in 1..Len(ready'), i < j PROVE ready'[i] < ready'[j]
          <6>1. i \in 1..Len(ready)
            BY <1>0, <4>1, <5>2
          <6>2. QED
            BY <3>2, <4>1, <5>1, <5>2, <6>1
        <5>3. QED
          BY <1>0, <3>1, <4>1, <5>1, <5>2
      <4>2. CASE j = Len(ready) + 1
        <5>1. ready'[j] = blocks + 1
          BY <3>1, <3>2, <4>2
        <5>2. ASSUME NEW i \in 1..Len(ready'), i < j PROVE ready'[i] < ready'[j]
          <6>1. i \in 1..Len(ready)
            BY <1>0, <4>2, <5>2
          <6>2. ready'[i] = ready[i] /\ ready[i] \in Nat /\ ready[i] <= blocks
            BY <1>0, <3>2, <6>1
          <6>3. QED
            BY <1>0, <5>1, <6>2
        <5>3. QED
          BY <1>0, <3>1, <5>1, <5>2
      <4>3. QED
        BY <3>4, <4>1, <4>2
    <3>9. QED
      BY <1>0, <3>1, <3>3, <3>5
  <2>3. QED
    BY <1>3, <2>1, <2>2 DEF Enqueue
<1>4. CASE LoadSink
  BY <1>4 DEF LoadSink
<1>5. CASE LockSlot
  BY <1>5 DEF LockSlot
<1>6. CASE Attach
  BY <1>6 DEF Attach
<1>7. CASE Check
  BY <1>7 DEF Check
<1>8. CASE LockPool
  BY <1>8 DEF LockPool
<1>9. CASE Pop
  <2>1. CASE ready = <<>>
    BY <1>9, <1>0, <2>1 DEF Pop
  <2>2. CASE ready # <<>>
    <3>0. rBlock' = Head(ready) /\ ready' = Tail(ready)
      BY <1>9, <2>2 DEF Pop
    <3>1. /\ rBlock' = ready[1] /\ Len(ready') = Len(ready) - 1 /\ Len(ready) >= 1
          /\ \A j \in 1..(Len(ready) - 1) : ready'[j] = ready[j + 1]
      BY <1>0, <2>2, <3>0, HeadTailProperties, LenProperties
    <3>2. UNCHANGED <<delivered, blocks>>
      BY <1>9 DEF Pop
    <3>3. \A j \in 1..Len(ready') :
             j + 1 \in 1..Len(ready) /\ 1 < j + 1 /\ ready'[j] = ready[j + 1]
      BY <1>0, <3>1
    <3>4. \A i, j \in 1..Len(ready') : i < j => ready'[i] < ready'[j]
      BY <1>0, <3>3
    <3>5. ASSUME NEW j \in 1..Len(ready')
          PROVE rBlock' < ready'[j] /\ ready'[j] <= blocks
      <4>1. 1 \in 1..Len(ready) /\ j + 1 \in 1..Len(ready) /\ 1 < j + 1
        BY <1>0, <3>1
      <4>2. ready[1] < ready[j + 1] /\ ready[j + 1] <= blocks
        BY <4>1
      <4>3. QED
        BY <3>1, <3>3, <4>2
    <3>6. \A i \in 1..Len(delivered), j \in 1..Len(ready') : delivered[i] < ready'[j]
      BY <1>0, <3>3
    <3>7. rBlock' <= blocks /\ \A i \in 1..Len(delivered) : delivered[i] < rBlock'
      BY <1>0, <3>1
    <3>8. QED
      BY <1>0, <3>2, <3>4, <3>5, <3>6, <3>7
  <2>3. QED
    BY <2>1, <2>2
<1>10. CASE Recycle
  BY <1>10 DEF Recycle
<1>11. CASE CheckDrops
  BY <1>11 DEF CheckDrops
<1>12. CASE Process
  <2>1. /\ Len(delivered') = Len(delivered) + 1
        /\ delivered'[Len(delivered) + 1] = rBlock
        /\ \A i \in 1..Len(delivered) : delivered'[i] = delivered[i]
        /\ DOMAIN delivered' = 1..(Len(delivered) + 1)
    BY <1>12, AppendProperties, LenProperties DEF Process
  <2>2. InHand /\ ~InHand' /\ UNCHANGED <<ready, blocks>>
    BY <1>12 DEF Process
  <2>3. \A i \in 1..Len(delivered') : i \in 1..Len(delivered) \/ i = Len(delivered) + 1
    BY <1>0, <2>1
  <2>4. DeliveredInOrder'
    <3>1. SUFFICES ASSUME NEW i \in 1..(Len(delivered) + 1),
                          NEW j \in 1..(Len(delivered) + 1), i < j
                   PROVE  delivered'[i] < delivered'[j]
      BY <2>1
    <3>2. i \in 1..Len(delivered) /\ delivered'[i] = delivered[i]
      BY <1>0, <2>1, <3>1
    <3>3. CASE j \in 1..Len(delivered)
      BY <2>1, <3>1, <3>2, <3>3
    <3>4. CASE j = Len(delivered) + 1
      BY <2>1, <2>2, <3>2, <3>4
    <3>5. j \in 1..Len(delivered) \/ j = Len(delivered) + 1
      BY <1>0
    <3>6. QED
      BY <3>3, <3>4, <3>5
  <2>5. \A i \in 1..Len(delivered') : delivered'[i] <= blocks
    BY <1>0, <2>1, <2>2, <2>3
  <2>6. \A i \in 1..Len(delivered'), j \in 1..Len(ready) : delivered'[i] < ready[j]
    BY <1>0, <2>1, <2>2, <2>3
  <2>7. QED
    BY <1>0, <2>2, <2>4, <2>5, <2>6
<1>13. CASE StartRecording
  BY <1>13 DEF StartRecording
<1>14. CASE StopRecording
  BY <1>14 DEF StopRecording
<1>15. CASE Halt
  BY <1>15 DEF Halt
<1>16. CASE JoinCallback
  BY <1>16 DEF JoinCallback
<1>17. CASE UNCHANGED vars
  BY <1>17
<1>18. QED
  BY <1>1, <1>2, <1>3, <1>4, <1>5, <1>6, <1>7, <1>8,
     <1>9, <1>10, <1>11, <1>12, <1>13, <1>14, <1>15, <1>16, <1>17
  DEF Next, Callback, Reader

LEMMA NextBehind ==
    TypeOK /\ Counts /\ Behind /\ [Next]_vars => Behind'
<1> SUFFICES ASSUME TypeOK, Counts, Behind, [Next]_vars PROVE Behind'
  OBVIOUS
<1>0. /\ blocks \in Nat /\ dropped \in Nat /\ seenDrops \in Nat /\ rBlock \in Nat
      /\ arrived \in Nat /\ ready \in Seq(Nat) /\ delivered \in Seq(Nat)
      /\ Len(delivered) \in Nat /\ Len(ready) \in Nat
      /\ delivered # <<>> => delivered[Len(delivered)] \in Nat
      /\ \A j \in 1..Len(ready) : ready[j] \in Nat
  BY ElementOfSeq, LenProperties, EmptySeq DEF TypeOK
<1> USE <1>0 DEF Behind, GapsCounted, InHand, One,
           vars, poolVars, slotVars, cbVars, rVars, ctlVars
<1>1. CASE Arrive
  BY <1>1 DEF Arrive
<1>2. CASE Tee
  BY <1>2 DEF Tee
<1>3. CASE Enqueue
  <2>1. CASE UNCHANGED ready
    <3>1. dropped' \in {dropped, dropped + 1}
      BY <1>3 DEF Enqueue
    <3>2. UNCHANGED <<ready, delivered, rBlock, rPc, seenDrops>>
      BY <1>3, <2>1 DEF Enqueue
    <3>3. dropped <= dropped'
      BY <3>1
    <3>4. \A j \in 1..Len(ready) :
             ready[j] - (Len(delivered) + One(InHand) + j) <= dropped'
      <4>1. One(InHand) \in Nat
        OBVIOUS
      <4>2. TAKE j \in 1..Len(ready)
      <4>3. ready[j] - (Len(delivered) + One(InHand) + j) <= dropped /\ ready[j] \in Nat
        OBVIOUS
      <4>4. QED
        BY <3>1, <3>3, <4>1, <4>3
    <3>5. QED
      BY <3>1, <3>2, <3>4
  <2>2. CASE ready' = Append(ready, arrived)
    <3>1. /\ Len(ready') = Len(ready) + 1 /\ ready'[Len(ready) + 1] = arrived
          /\ \A j \in 1..Len(ready) : ready'[j] = ready[j]
      BY <2>2, AppendProperties, LenProperties
    <3>2. \A j \in 1..Len(ready') : j \in 1..Len(ready) \/ j = Len(ready) + 1
      BY <1>0, <3>1
    <3>3. UNCHANGED <<dropped, delivered, rBlock, rPc, seenDrops>>
      <4>1. dropped' = dropped
        <5>1. dropped' # dropped => ready' = ready
          BY <1>3 DEF Enqueue
        <5>2. ready' # ready
          BY <1>0, <3>1
        <5>3. QED
          BY <5>1, <5>2
      <4>2. QED
        BY <1>3, <4>1 DEF Enqueue
    <3>4. arrived - (Len(delivered) + One(InHand) + Len(ready) + 1) <= dropped
      BY <1>3, <1>0 DEF Enqueue, Counts, NothingIsLost, Accounted
    <3>5. ASSUME NEW j \in 1..Len(ready')
          PROVE ready'[j] - (Len(delivered) + One(InHand) + j) <= dropped
      <4>1. CASE j \in 1..Len(ready)
        BY <3>1, <4>1
      <4>2. CASE j = Len(ready) + 1
        <5>1. ready'[j] = arrived /\ One(InHand) \in Nat
          BY <3>1, <4>2
        <5>2. QED
          BY <3>4, <4>2, <5>1
      <4>3. QED
        BY <3>2, <4>1, <4>2
    <3>6. QED
      BY <1>0, <3>3, <3>5
  <2>3. QED
    BY <1>3, <2>1, <2>2 DEF Enqueue
<1>4. CASE LoadSink
  BY <1>4 DEF LoadSink
<1>5. CASE LockSlot
  BY <1>5 DEF LockSlot
<1>6. CASE Attach
  BY <1>6 DEF Attach
<1>7. CASE Check
  BY <1>7 DEF Check
<1>8. CASE LockPool
  BY <1>8 DEF LockPool
<1>9. CASE Pop
  <2>1. CASE ready = <<>>
    BY <1>9, <1>0, <2>1 DEF Pop
  <2>2. CASE ready # <<>>
    <3>0. rBlock' = Head(ready) /\ ready' = Tail(ready)
      BY <1>9, <2>2 DEF Pop
    <3>1. /\ rBlock' = ready[1] /\ Len(ready') = Len(ready) - 1 /\ Len(ready) >= 1
          /\ \A j \in 1..(Len(ready) - 1) : ready'[j] = ready[j + 1]
      BY <1>0, <2>2, <3>0, HeadTailProperties, LenProperties
    <3>2. \A j \in 1..Len(ready') : j + 1 \in 1..Len(ready) /\ ready'[j] = ready[j + 1]
      BY <1>0, <3>1
    <3>3. ~InHand /\ InHand' /\ rPc' # "process"
          /\ UNCHANGED <<dropped, delivered, seenDrops>>
      BY <1>9, <2>2 DEF Pop
    <3>4. rBlock' - (Len(delivered) + 1) <= dropped
      BY <1>0, <3>1, <3>3
    <3>5. \A j \in 1..Len(ready') : ready'[j] - (Len(delivered) + 1 + j) <= dropped
      BY <1>0, <3>2, <3>3
    <3>6. QED
      BY <1>0, <3>3, <3>4, <3>5
  <2>3. QED
    BY <2>1, <2>2
<1>10. CASE Recycle
  BY <1>10 DEF Recycle
<1>11. CASE CheckDrops
  BY <1>11, <1>0 DEF CheckDrops
<1>12. CASE Process
  <2>1. /\ Len(delivered') = Len(delivered) + 1 /\ delivered' # <<>>
        /\ delivered'[Len(delivered')] = rBlock
    BY <1>12, <1>0, AppendProperties, LenProperties DEF Process
  <2>2. InHand /\ ~InHand' /\ rPc' # "process" /\ UNCHANGED <<ready, dropped, seenDrops>>
    BY <1>12 DEF Process
  <2>3. rBlock - (Len(delivered) + 1) <= seenDrops
    BY <1>12 DEF Process
  <2>4. \A j \in 1..Len(ready) : ready[j] - (Len(delivered') + j) <= dropped
    BY <1>0, <2>1, <2>2
  <2>5. QED
    BY <1>0, <2>1, <2>2, <2>3, <2>4
<1>13. CASE StartRecording
  BY <1>13 DEF StartRecording
<1>14. CASE StopRecording
  BY <1>14 DEF StopRecording
<1>15. CASE Halt
  BY <1>15 DEF Halt
<1>16. CASE JoinCallback
  BY <1>16 DEF JoinCallback
<1>17. CASE UNCHANGED vars
  BY <1>17
<1>18. QED
  BY <1>1, <1>2, <1>3, <1>4, <1>5, <1>6, <1>7, <1>8,
     <1>9, <1>10, <1>11, <1>12, <1>13, <1>14, <1>15, <1>16, <1>17
  DEF Next, Callback, Reader

LEMMA NextStopping == TypeOK /\ Stopping /\ [Next]_vars => Stopping'
<1> SUFFICES ASSUME TypeOK, Stopping, [Next]_vars PROVE Stopping'
  OBVIOUS
<1>0. Len(delivered) \in Nat /\ haltedAt \in Nat /\ rBlock \in Nat
      /\ delivered \in Seq(Nat)
  BY LenProperties DEF TypeOK
<1> USE <1>0 DEF Stopping, InHand, One,
           vars, poolVars, slotVars, cbVars, rVars, ctlVars
<1>1. CASE Arrive
  BY <1>1 DEF Arrive
<1>2. CASE Tee
  BY <1>2 DEF Tee
<1>3. CASE Enqueue
  BY <1>3 DEF Enqueue
<1>4. CASE LoadSink
  BY <1>4 DEF LoadSink
<1>5. CASE LockSlot
  BY <1>5 DEF LockSlot
<1>6. CASE Attach
  BY <1>6 DEF Attach
<1>7. CASE Check
  BY <1>7 DEF Check
<1>8. CASE LockPool
  BY <1>8 DEF LockPool
<1>9. CASE Pop
  BY <1>9 DEF Pop
<1>10. CASE Recycle
  BY <1>10 DEF Recycle
<1>11. CASE CheckDrops
  BY <1>11 DEF CheckDrops
<1>12. CASE Process
  <2>1. Len(delivered') = Len(delivered) + 1
    BY <1>12, AppendProperties, LenProperties DEF Process
  <2>2. QED
    BY <1>12, <1>0, <2>1 DEF Process
<1>13. CASE StartRecording
  BY <1>13 DEF StartRecording
<1>14. CASE StopRecording
  BY <1>14 DEF StopRecording
<1>15. CASE Halt
  BY <1>15 DEF Halt
<1>16. CASE JoinCallback
  BY <1>16 DEF JoinCallback
<1>17. CASE UNCHANGED vars
  BY <1>17
<1>18. QED
  BY <1>1, <1>2, <1>3, <1>4, <1>5, <1>6, <1>7, <1>8,
     <1>9, <1>10, <1>11, <1>12, <1>13, <1>14, <1>15, <1>16, <1>17
  DEF Next, Callback, Reader

\* The receivers get the stream in order; what is missing from it they were told of, in
\* the drops seen, before the block after it; and a stopped stream ends with the block
\* being read (Ingress::push, BufferedSource::read, Engine::run).
THEOREM StreamTheorem == Spec => []StreamIsWhole
<1>1. TypeOK /\ Ordered /\ Behind /\ Stopping => StreamIsWhole
  <2> SUFFICES ASSUME TypeOK, Ordered, Behind, Stopping PROVE StreamIsWhole
    OBVIOUS
  <2>1. StopsDelivery
    BY LenProperties DEF TypeOK, Stopping, StopsDelivery, One
  <2>2. QED
    BY <2>1 DEF StreamIsWhole, Ordered, Behind
<1>2. QED
  BY <1>1, InitType, NextType, InitCounts, NextCounts, InitWhole, NextOrdered,
     NextBehind, NextStopping, PTL DEF Spec
----------------------------------------------------------------------------
(* StreamContract. *)

Numbered ==
    /\ \A j \in 1..Len(ready) : ready[j] # 0
    /\ InHand => rBlock # 0
    /\ haltedAt <= Len(delivered)

LEMMA InitNumbered == Init => Numbered
  BY EmptySeq DEF Init, Numbered, InHand

LEMMA NextNumbered == TypeOK /\ Counts /\ Numbered /\ [Next]_vars => Numbered'
<1> SUFFICES ASSUME TypeOK, Counts, Numbered, [Next]_vars PROVE Numbered'
  OBVIOUS
<1>0. /\ blocks \in Nat /\ rBlock \in Nat /\ haltedAt \in Nat
      /\ ready \in Seq(Nat) /\ delivered \in Seq(Nat)
      /\ Len(delivered) \in Nat /\ Len(ready) \in Nat
  BY LenProperties DEF TypeOK
<1> USE <1>0 DEF Numbered, InHand, vars, poolVars, slotVars, cbVars, rVars, ctlVars
<1>1. CASE Arrive
  BY <1>1 DEF Arrive
<1>2. CASE Tee
  BY <1>2 DEF Tee
<1>3. CASE Enqueue
  <2>1. CASE UNCHANGED ready
    BY <1>3, <2>1 DEF Enqueue
  <2>2. CASE ready' = Append(ready, arrived)
    <3>1. arrived # 0
      BY <1>3 DEF Enqueue, Counts, One
    <3>2. /\ Len(ready') = Len(ready) + 1 /\ ready'[Len(ready) + 1] = arrived
          /\ \A j \in 1..Len(ready) : ready'[j] = ready[j]
      BY <2>2, <3>1, <1>3, AppendProperties, LenProperties DEF Enqueue, TypeOK
    <3>3. \A j \in 1..Len(ready') : j \in 1..Len(ready) \/ j = Len(ready) + 1
      BY <3>2
    <3>4. UNCHANGED <<delivered, rBlock, rPc, haltedAt>>
      BY <1>3 DEF Enqueue
    <3>5. QED
      BY <3>1, <3>2, <3>3, <3>4
  <2>3. QED
    BY <1>3, <2>1, <2>2 DEF Enqueue
<1>4. CASE LoadSink
  BY <1>4 DEF LoadSink
<1>5. CASE LockSlot
  BY <1>5 DEF LockSlot
<1>6. CASE Attach
  BY <1>6 DEF Attach
<1>7. CASE Check
  BY <1>7 DEF Check
<1>8. CASE LockPool
  BY <1>8 DEF LockPool
<1>9. CASE Pop
  <2>1. CASE ready = <<>>
    BY <1>9, <2>1 DEF Pop
  <2>2. CASE ready # <<>>
    <3>1. rBlock' = Head(ready) /\ ready' = Tail(ready) /\ UNCHANGED <<delivered, haltedAt>>
      BY <1>9, <2>2 DEF Pop
    <3>2. /\ rBlock' = ready[1] /\ Len(ready') = Len(ready) - 1 /\ Len(ready) >= 1
          /\ \A j \in 1..(Len(ready) - 1) : ready'[j] = ready[j + 1]
      BY <2>2, <3>1, HeadTailProperties, LenProperties
    <3>3. QED
      BY <3>1, <3>2
  <2>3. QED
    BY <2>1, <2>2
<1>10. CASE Recycle
  BY <1>10 DEF Recycle
<1>11. CASE CheckDrops
  BY <1>11 DEF CheckDrops
<1>12. CASE Process
  <2>1. Len(delivered') = Len(delivered) + 1
    BY <1>12, AppendProperties, LenProperties DEF Process
  <2>2. QED
    BY <1>12, <2>1 DEF Process
<1>13. CASE StartRecording
  BY <1>13 DEF StartRecording
<1>14. CASE StopRecording
  BY <1>14 DEF StopRecording
<1>15. CASE Halt
  BY <1>15 DEF Halt
<1>16. CASE JoinCallback
  BY <1>16 DEF JoinCallback
<1>17. CASE UNCHANGED vars
  BY <1>17
<1>18. QED
  BY <1>1, <1>2, <1>3, <1>4, <1>5, <1>6, <1>7, <1>8,
     <1>9, <1>10, <1>11, <1>12, <1>13, <1>14, <1>15, <1>16, <1>17
  DEF Next, Callback, Reader

\* Handing a block on is Hear: it has arrived and follows the ones before it, the gap in
\* front of it is counted, and after a stop there is one such step.
LEMMA ProcessHears ==
    ASSUME TypeOK, Counts, Ordered, Behind, Stopping, Numbered, Process
    PROVE  Contract!Hear
<1>0. /\ blocks \in Nat /\ dropped \in Nat /\ rBlock \in Nat /\ arrived \in Nat
      /\ delivered \in Seq(Nat) /\ ready \in Seq(Nat) /\ haltedAt \in Nat
      /\ Len(delivered) \in Nat /\ Len(ready) \in Nat
      /\ DOMAIN delivered = 1..Len(delivered)
  BY LenProperties DEF TypeOK
<1>1. /\ rPc = "process" /\ InHand /\ delivered' = Append(delivered, rBlock)
      /\ UNCHANGED <<arrived, dropped, running, haltedAt>>
  BY DEF Process, InHand, cbVars, ctlVars
<1>2. blocks = Len(delivered) + dropped + Len(ready) + 1
  BY <1>1 DEF Counts, NothingIsLost, Accounted, One
<1>3. blocks <= arrived
  BY <1>0 DEF Counts, One
<1>4. Len(delivered) + dropped < arrived
  BY <1>0, <1>2, <1>3
<1>5. rBlock \in 1..arrived
  <2>1. rBlock # 0 /\ rBlock <= blocks
    BY <1>1 DEF Numbered, Ordered
  <2>2. QED
    BY <1>0, <1>3, <2>1
<1>6. \A i \in DOMAIN delivered : delivered[i] < rBlock
  BY <1>0, <1>1 DEF Ordered
<1>7. rBlock - (Len(delivered) + 1) <= dropped
  BY <1>1 DEF Behind
<1>8. ~running => Len(delivered) = haltedAt
  <2> SUFFICES ASSUME ~running PROVE Len(delivered) = haltedAt
    OBVIOUS
  <2>1. Len(delivered) + 1 <= haltedAt + 1
    BY <1>1 DEF Stopping, One
  <2>2. haltedAt <= Len(delivered)
    BY DEF Numbered
  <2>3. Len(delivered) \in Nat /\ haltedAt \in Nat
    BY <1>0
  <2>4. QED
    BY <2>1, <2>2, <2>3
<1>9. Len(delivered') # haltedAt'
  <2>1. Len(delivered') = Len(delivered) + 1
    BY <1>0, <1>1, AppendProperties
  <2>2. haltedAt <= Len(delivered)
    BY DEF Numbered
  <2>3. QED
    BY <1>0, <1>1, <2>1, <2>2
<1>10. QED
  BY <1>1, <1>4, <1>5, <1>6, <1>7, <1>8, <1>9 DEF Contract!Hear

\* The stream keeps the promise of StreamContract: every step of callback, DSP thread and
\* control is one of its steps or changes nothing it speaks of.
THEOREM ContractTheorem == Spec => ContractKept
<1>1. Init => Contract!Init
  BY DEF Init, Contract!Init
<1>2. TypeOK /\ Counts /\ Ordered /\ Behind /\ Stopping /\ Numbered /\ [Next]_vars
        => [Contract!Next]_(Contract!streamVars)
  <2> SUFFICES ASSUME TypeOK, Counts, Ordered, Behind, Stopping, Numbered, [Next]_vars
               PROVE  [Contract!Next]_(Contract!streamVars)
    OBVIOUS
  <2>1. UNCHANGED <<arrived, delivered, dropped, running, haltedAt>>
          => UNCHANGED Contract!streamVars
    BY DEF Contract!streamVars
  <2>2. CASE Arrive
    <3>1. arrived' = arrived + 1 /\ UNCHANGED <<delivered, dropped, running, haltedAt>>
      BY <2>2 DEF Arrive, rVars, ctlVars
    <3>2. QED
      BY <3>1 DEF Contract!Next, Contract!Arrive
  <2>3. CASE Enqueue
    <3>1. UNCHANGED <<arrived, delivered, running, haltedAt>>
      BY <2>3 DEF Enqueue, rVars, ctlVars
    <3>2. dropped' \in {dropped, dropped + 1}
      BY <2>3 DEF Enqueue
    <3>3. Len(delivered) + dropped < arrived
      <4>1. /\ blocks \in Nat /\ dropped \in Nat /\ Len(delivered) \in Nat
            /\ Len(ready) \in Nat
        BY LenProperties DEF TypeOK
      <4>2. arrived = blocks + 1
        BY <2>3 DEF Enqueue, Counts, One
      <4>3. Len(delivered) + dropped <= blocks
        BY <4>1 DEF Counts, NothingIsLost, Accounted, One
      <4>4. QED
        BY <4>1, <4>2, <4>3
    <3>4. QED
      BY <2>1, <3>1, <3>2, <3>3 DEF Contract!Next, Contract!Lose
  <2>4. CASE Process
    BY <2>4, ProcessHears DEF Contract!Next
  <2>5. CASE Halt
    <3>1. /\ running /\ running' = FALSE /\ haltedAt' = Len(delivered)
          /\ UNCHANGED <<arrived, delivered, dropped>>
      BY <2>5 DEF Halt, cbVars, rVars
    <3>2. QED
      BY <3>1 DEF Contract!Next, Contract!Stop
  <2>6. CASE Tee \/ LoadSink \/ LockSlot \/ Attach \/ Check \/ LockPool \/ Pop
               \/ Recycle \/ CheckDrops \/ StartRecording \/ StopRecording
               \/ JoinCallback \/ UNCHANGED vars
    <3>1. UNCHANGED <<arrived, delivered, dropped, running, haltedAt>>
      BY <2>6 DEF Tee, LoadSink, LockSlot, Attach, Check, LockPool, Pop, Recycle,
         CheckDrops, StartRecording, StopRecording, JoinCallback,
         vars, poolVars, slotVars, cbVars, rVars, ctlVars
    <3>2. QED
      BY <2>1, <3>1
  <2>7. QED
    BY <2>2, <2>3, <2>4, <2>5, <2>6 DEF Next, Callback, Reader
<1>3. QED
  BY <1>1, <1>2, InitType, NextType, InitCounts, NextCounts, InitWhole, NextOrdered,
     NextBehind, NextStopping, InitNumbered, NextNumbered, PTL
     DEF Spec, ContractKept, Contract!Spec
================================================================================
