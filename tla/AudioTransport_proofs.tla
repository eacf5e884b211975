------------------------- MODULE AudioTransport_proofs -------------------------
(***************************************************************************)
(* Proofs about AudioTransport and the AudioQueue it uses, for every size  *)
(* of packets, ring, queue and windows, every ratio of the sample rates    *)
(* and any number of rebuilds, connections and changes of the list.        *)
(* Packets are lost at four places and arrive in any company; what joins   *)
(* two packets in the queue is that a successor of the same epoch begins   *)
(* where the one before ended.  OrderInv says so of every packet on its    *)
(* way and of the packetizer, Precedes being the one notion of order for   *)
(* all of them.  QueueInv keeps what the queue holds unbroken and the      *)
(* fraction of the resampler where the ratio of the rates puts it.         *)
(***************************************************************************)
EXTENDS AudioTransport, SequenceTheorems, TLAPS

LEMMA Sizes ==
    /\ Capacity \in Nat \ {0} /\ Prime \in 1..Capacity
    /\ StepNum \in Nat \ {0} /\ StepDen \in Nat \ {0}
    /\ Packet \in Nat \ {0} /\ RingCapacity \in Nat \ {0}
    /\ PendingLimit \in Nat \ {0} /\ SocketLimit \in Nat \ {0}
  BY QueueAssumption, BoundAssumption

----------------------------------------------------------------------------
(* The step of the resampler. *)

LEMMA DivMod ==
    ASSUME NEW d \in Nat \ {0}, NEW a \in Nat
    PROVE  a \div d \in Nat /\ (a % d) \in 0..(d - 1) /\ a = d * (a \div d) + (a % d)
  OBVIOUS

LEMMA DivMonotonic ==
    ASSUME NEW d \in Nat \ {0}, NEW a \in Nat, NEW b \in Nat, a <= b
    PROVE  a \div d <= b \div d
  OBVIOUS

\* What is carried from the fraction to the position is neither lost nor counted twice.
LEMMA Carry ==
    ASSUME NEW d \in Nat \ {0}, NEW a \in Nat, NEW p \in Nat
    PROVE  (a + (p \div d)) * d + (p % d) = a * d + p
<1> DEFINE k == p \div d
           r == p % d
<1>1. k \in Nat /\ r \in 0..(d - 1) /\ p = d * k + r
  BY DivMod
<1> HIDE DEF k, r
<1>2. (a + k) * d = a * d + d * k
  BY <1>1
<1>3. a * d \in Nat /\ d * k \in Nat
  BY <1>1
<1>4. QED
  BY <1>1, <1>2, <1>3 DEF k, r

LEMMA Shift ==
    ASSUME NEW a \in Nat, NEW b \in Nat, NEW c \in Nat, NEW i \in Nat
    PROVE  (a + c) - (b + c) + i = a - b + i
  OBVIOUS

\* An output consumes fewer samples than it needs to be there.
LEMMA NeededFacts ==
    ASSUME NEW fraction \in 0..(StepDen - 1)
    PROVE  Queue!Needed \in Nat /\ (fraction + StepNum) \div StepDen < Queue!Needed
<1> DEFINE ceiling == (StepNum + StepDen - 1) \div StepDen
           phase == fraction + StepNum
<1>1. phase \in Nat /\ StepNum + StepDen - 1 \in Nat /\ phase <= StepNum + StepDen - 1
  BY Sizes
<1>2. ceiling \in Nat /\ phase \div StepDen <= ceiling /\ phase \div StepDen \in Nat
  BY <1>1, Sizes, DivMod, DivMonotonic
<1>3. Queue!Needed = IF ceiling + 1 > 2 THEN ceiling + 1 ELSE 2
  BY DEF Queue!Needed
<1> HIDE DEF ceiling
<1>4. QED
  BY <1>2, <1>3

----------------------------------------------------------------------------
(* AudioQueue. *)

\* A packet as the packetizer makes them: full, of samples that follow one another.
Packets ==
    {f \in Frame :
        /\ Len(f.samples) = Packet /\ f.samples[1] >= 1
        /\ \A i \in 1..Packet : f.samples[i] = f.samples[1] + i - 1}

End(f) == f.samples[1] + Packet - 1

LEMMA PacketFacts ==
    ASSUME NEW f \in Packets
    PROVE  /\ f.epoch \in Nat \ {0} /\ f.sequence \in Nat \ {0} /\ f.samples \in Seq(Nat)
           /\ Len(f.samples) = Packet /\ f.samples[1] \in Nat \ {0}
           /\ \A i \in 1..Packet : f.samples[i] = f.samples[1] + i - 1
           /\ End(f) \in Nat \ {0} /\ End(f) = f.samples[Len(f.samples)]
<1>1. /\ f.epoch \in Nat \ {0} /\ f.sequence \in Nat \ {0} /\ f.samples \in Seq(Nat)
      /\ Len(f.samples) = Packet /\ f.samples[1] >= 1
      /\ \A i \in 1..Packet : f.samples[i] = f.samples[1] + i - 1
  BY DEF Packets, Frame
<1>2. 1 \in 1..Len(f.samples) /\ Packet \in 1..Packet
  BY <1>1, Sizes
<1>3. f.samples[1] \in Nat
  BY <1>1, <1>2, ElementOfSeq
<1>4. f.samples[Packet] = f.samples[1] + Packet - 1
  BY <1>1, <1>2
<1>5. QED
  BY <1>1, <1>3, <1>4, Sizes DEF End

QueueRecord ==
    [data : Seq(Nat), fraction : 0..(StepDen - 1), primed : BOOLEAN, epoch : Nat,
     sequence : Nat, underruns : Nat, overruns : Nat, discontinuities : Nat]

\* A queue into which the last sample pushed was end, or 0: it is in there still.
IsQueue(q, end) ==
    /\ q \in QueueRecord /\ Len(q.data) <= Capacity /\ end \in Nat
    /\ (q.epoch = 0) = (end = 0)
    /\ q.epoch = 0 => q.data = <<>>
    /\ q.epoch # 0 => q.data # <<>>
    /\ \A i \in 1..Len(q.data) : q.data[i] = end - Len(q.data) + i

LEMMA NewIsQueue == IsQueue(Queue!New, 0) /\ Queue!New.discontinuities = 0
<1>1. 0 \in 0..(StepDen - 1) /\ Len(<<>>) <= Capacity /\ <<>> \in Seq(Nat)
  BY Sizes
<1>2. QED
  BY <1>1 DEF Queue!New, Queue!NoEpoch, IsQueue, QueueRecord

\* Clearing a queue keeps its counters; each counts one.
LEMMA ClearedFacts ==
    ASSUME NEW q \in QueueRecord
    PROVE  LET over == [Queue!Cleared(q) EXCEPT !.overruns = @ + 1]
               gap == [Queue!Cleared(q) EXCEPT !.discontinuities = @ + 1]
           IN  /\ over \in QueueRecord /\ over.data = <<>> /\ over.fraction = 0
               /\ over.overruns = q.overruns + 1
               /\ over.discontinuities = q.discontinuities
               /\ gap \in QueueRecord /\ gap.data = <<>> /\ gap.fraction = 0
               /\ gap.overruns = q.overruns
               /\ gap.discontinuities = q.discontinuities + 1
<1> DEFINE c == Queue!Cleared(q)
<1>1. 0 \in 0..(StepDen - 1) /\ <<>> \in Seq(Nat)
  BY Sizes
<1>2. /\ c \in QueueRecord /\ c.data = <<>> /\ c.fraction = 0
      /\ c.overruns = q.overruns /\ c.discontinuities = q.discontinuities
  BY <1>1 DEF Queue!Cleared, QueueRecord
<1>3. c.overruns + 1 \in Nat /\ c.discontinuities + 1 \in Nat
  BY <1>2 DEF QueueRecord
<1> HIDE DEF c
<1>4. /\ [c EXCEPT !.overruns = @ + 1] \in QueueRecord
      /\ [c EXCEPT !.discontinuities = @ + 1] \in QueueRecord
  BY <1>2, <1>3 DEF QueueRecord
<1>5. QED
  BY <1>2, <1>4 DEF c, QueueRecord

\* What the beginning of Push makes of a queue: it is as it was, or cleared and counted.
LEMMA ReadyFacts ==
    ASSUME NEW q, NEW end, IsQueue(q, end), NEW f \in Packets
    PROVE  LET ready == Queue!WithRoom(Queue!Noticed(q, f), f)
           IN  /\ ready \in QueueRecord
               /\ ready.discontinuities = q.discontinuities
                                             + IF Queue!Continues(q, f) THEN 0 ELSE 1
               /\ \/ /\ Queue!Continues(q, f) /\ ready = q
                     /\ Len(q.data) + Packet <= Capacity
                  \/ /\ ready.data = <<>> /\ ready.fraction = 0
                     /\ ready.overruns + ready.discontinuities
                            # q.overruns + q.discontinuities
<1> DEFINE noticed == Queue!Noticed(q, f)
           ready == Queue!WithRoom(noticed, f)
<1>1. /\ q \in QueueRecord /\ q.overruns \in Nat /\ q.discontinuities \in Nat
      /\ Len(f.samples) = Packet /\ 0 \in 0..(StepDen - 1) /\ <<>> \in Seq(Nat)
  BY PacketFacts, Sizes DEF IsQueue, QueueRecord
<1>2. CASE Queue!Continues(q, f)
  <2>1. noticed = q
    BY <1>2 DEF Queue!Noticed
  <2>2. CASE Len(q.data) + Packet <= Capacity
    BY <1>1, <1>2, <2>1, <2>2 DEF Queue!WithRoom
  <2>3. CASE ~(Len(q.data) + Packet <= Capacity)
    <3>1. ready = [Queue!Cleared(q) EXCEPT !.overruns = @ + 1]
      BY <1>1, <2>1, <2>3 DEF Queue!WithRoom
    <3>2. /\ ready \in QueueRecord /\ ready.data = <<>> /\ ready.fraction = 0
          /\ ready.overruns = q.overruns + 1
          /\ ready.discontinuities = q.discontinuities
      BY <1>1, <3>1, ClearedFacts
    <3>3. QED
      BY <1>1, <1>2, <3>2
  <2>4. QED
    BY <2>2, <2>3
<1>3. CASE ~Queue!Continues(q, f)
  <2>1. noticed = [Queue!Cleared(q) EXCEPT !.discontinuities = @ + 1]
    BY <1>3 DEF Queue!Noticed
  <2>2. /\ noticed \in QueueRecord /\ noticed.data = <<>> /\ noticed.fraction = 0
        /\ noticed.overruns = q.overruns
        /\ noticed.discontinuities = q.discontinuities + 1
    BY <1>1, <2>1, ClearedFacts
  <2> HIDE DEF noticed
  <2>3. \/ ready = noticed
        \/ ready = [Queue!Cleared(noticed) EXCEPT !.overruns = @ + 1]
    BY DEF Queue!WithRoom
  <2>4. /\ ready \in QueueRecord /\ ready.data = <<>> /\ ready.fraction = 0
        /\ ready.overruns \in {q.overruns, q.overruns + 1}
        /\ ready.discontinuities = q.discontinuities + 1
    <3>1. noticed.overruns \in Nat /\ noticed.discontinuities \in Nat
      BY <2>2 DEF QueueRecord
    <3> HIDE DEF ready
    <3>2. CASE ready = noticed
      BY <2>2, <3>2
    <3>3. CASE ready = [Queue!Cleared(noticed) EXCEPT !.overruns = @ + 1]
      BY <2>2, <3>3, ClearedFacts
    <3>4. QED
      BY <2>3, <3>2, <3>3
  <2>5. QED
    BY <1>1, <1>3, <2>4 DEF noticed
<1>4. QED
  BY <1>2, <1>3

\* A packet that is pushed leaves an unbroken queue that ends with it, if a packet that
\* seems to continue the former one does.
LEMMA PushFacts ==
    ASSUME NEW q, NEW end, IsQueue(q, end), NEW f \in Packets,
           q.epoch # 0 /\ f.epoch = q.epoch /\ f.sequence = q.sequence + 1
               => f.samples[1] = end + 1
    PROVE  LET p == Queue!Push(q, f)
           IN  /\ IsQueue(p, End(f)) /\ p.epoch = f.epoch /\ p.sequence = f.sequence
               /\ p.discontinuities = q.discontinuities
                                         + IF Queue!Continues(q, f) THEN 0 ELSE 1
               /\ q.epoch # 0
                    /\ p.overruns + p.discontinuities = q.overruns + q.discontinuities
                  => p.data[1] = q.data[1] /\ p.fraction = q.fraction
<1> DEFINE ready == Queue!WithRoom(Queue!Noticed(q, f), f)
           start == IF Len(f.samples) > Capacity THEN Len(f.samples) - Capacity ELSE 0
           added == SubSeq(f.samples, start + 1, Len(f.samples))
           data == ready.data \o added
           p == [ready EXCEPT !.data = data, !.primed = @ \/ Len(data) >= Prime,
                              !.epoch = f.epoch, !.sequence = f.sequence]
<1>1. p = Queue!Push(q, f)
  BY DEF Queue!Push
<1>2. /\ ready \in QueueRecord
      /\ ready.discontinuities = q.discontinuities
                                    + IF Queue!Continues(q, f) THEN 0 ELSE 1
      /\ \/ /\ Queue!Continues(q, f) /\ ready = q
            /\ Len(q.data) + Packet <= Capacity
         \/ /\ ready.data = <<>> /\ ready.fraction = 0
            /\ ready.overruns + ready.discontinuities # q.overruns + q.discontinuities
  BY ReadyFacts
<1>3. /\ f.samples \in Seq(Nat) /\ Len(f.samples) = Packet /\ f.samples[1] \in Nat \ {0}
      /\ \A i \in 1..Packet : f.samples[i] = f.samples[1] + i - 1
      /\ f.epoch \in Nat \ {0} /\ f.sequence \in Nat
      /\ End(f) = f.samples[1] + Packet - 1 /\ End(f) \in Nat \ {0}
  BY PacketFacts DEF End
<1>4. /\ start \in Nat /\ start < Packet /\ Packet - start <= Capacity
      /\ (Packet <= Capacity => start = 0)
  BY <1>3, Sizes
<1> HIDE DEF ready, start
<1>5. /\ added \in Seq(Nat) /\ Len(added) = Packet - start
      /\ \A i \in 1..Len(added) : added[i] = End(f) - Len(added) + i
  <2>1. start + 1 \in Int /\ Len(f.samples) \in Int
    BY <1>3, <1>4, Sizes
  <2>2. \A i \in (start + 1)..Len(f.samples) : f.samples[i] \in Nat
    <3>1. \A i \in (start + 1)..Len(f.samples) : i \in 1..Len(f.samples)
      BY <1>3, <1>4, Sizes
    <3>2. QED
      BY <1>3, <3>1, ElementOfSeq
  <2>3. /\ added \in Seq(Nat)
        /\ Len(added) = IF start + 1 <= Len(f.samples)
                        THEN Len(f.samples) - (start + 1) + 1 ELSE 0
        /\ \A i \in 1..(Len(f.samples) - (start + 1) + 1) :
               added[i] = f.samples[start + 1 + i - 1]
    BY <2>1, <2>2, SubSeqProperties
  <2> HIDE DEF added
  <2>4. Len(added) = Packet - start
    BY <1>3, <1>4, <2>3, Sizes
  <2>5. ASSUME NEW i \in 1..Len(added) PROVE added[i] = End(f) - Len(added) + i
    <3>1. i \in 1..(Len(f.samples) - (start + 1) + 1) /\ start + i \in 1..Packet
      BY <1>3, <1>4, <2>4, Sizes
    <3>2. added[i] = f.samples[start + 1 + i - 1] /\ start + 1 + i - 1 = start + i
      BY <1>4, <2>3, <3>1
    <3>3. f.samples[start + i] = f.samples[1] + (start + i) - 1
      BY <1>3, <3>1
    <3>4. QED
      <4>1. added[i] = f.samples[1] + (start + i) - 1 /\ i \in Nat
        BY <2>4, <3>2, <3>3
      <4>2. Len(added) = Packet - start /\ End(f) = f.samples[1] + Packet - 1
        BY <1>3, <2>4
      <4>3. f.samples[1] \in Nat /\ start \in Nat /\ Packet \in Nat
        BY <1>3, <1>4, Sizes
      <4>4. QED
        BY <4>1, <4>2, <4>3
  <2>6. QED
    BY <2>3, <2>4, <2>5
<1> HIDE DEF added
<1>6. /\ ready.data \in Seq(Nat) /\ ready.fraction \in 0..(StepDen - 1)
      /\ ready.primed \in BOOLEAN /\ ready.underruns \in Nat /\ ready.overruns \in Nat
      /\ ready.discontinuities \in Nat
  BY <1>2 DEF QueueRecord
<1>7. /\ data \in Seq(Nat) /\ Len(data) = Len(ready.data) + Len(added)
      /\ \A i \in 1..(Len(ready.data) + Len(added)) :
             data[i] = IF i <= Len(ready.data) THEN ready.data[i]
                       ELSE added[i - Len(ready.data)]
  BY <1>5, <1>6, ConcatProperties
<1> HIDE DEF data
<1>8. /\ p \in QueueRecord /\ p.data = data /\ p.epoch = f.epoch
      /\ p.sequence = f.sequence /\ p.fraction = ready.fraction
      /\ p.overruns = ready.overruns /\ p.discontinuities = ready.discontinuities
  <2>1. (ready.primed \/ Len(data) >= Prime) \in BOOLEAN
    BY <1>6
  <2>2. QED
    BY <1>2, <1>3, <1>7, <2>1 DEF QueueRecord
<1> HIDE DEF p
<1>9. CASE ready.data = <<>> /\ ready.fraction = 0
              /\ ready.overruns + ready.discontinuities # q.overruns + q.discontinuities
  <2>1. Len(ready.data) = 0
    BY <1>9
  <2>2. Len(data) = Packet - start /\ Len(data) = Len(added)
    BY <1>4, <1>5, <1>7, <2>1, Sizes
  <2>3. \A i \in 1..Len(data) : data[i] = End(f) - Len(data) + i
    BY <1>5, <1>7, <2>1, <2>2
  <2>4. data # <<>> /\ Len(data) <= Capacity
    BY <1>4, <2>2, Sizes
  <2>5. IsQueue(p, End(f))
    BY <1>3, <1>8, <2>3, <2>4 DEF IsQueue
  <2>6. QED
    BY <1>1, <1>2, <1>8, <1>9, <2>5
<1>10. CASE Queue!Continues(q, f) /\ ready = q /\ Len(q.data) + Packet <= Capacity
  <2>1. /\ q.data \in Seq(Nat) /\ Len(q.data) \in Nat /\ end \in Nat
        /\ \A i \in 1..Len(q.data) : q.data[i] = end - Len(q.data) + i
    BY DEF IsQueue, QueueRecord
  <2>2. start = 0 /\ Len(data) = Len(q.data) + Packet
    BY <1>4, <1>5, <1>7, <1>10, <2>1, Sizes
  <2>3. q.epoch # 0 => f.samples[1] = end + 1 /\ End(f) = end + Packet
    <3>1. q.epoch # 0 => f.samples[1] = end + 1
      BY <1>10 DEF Queue!Continues, Queue!NoEpoch
    <3>2. QED
      BY <1>3, <2>1, <3>1, Sizes
  <2>4. q.epoch = 0 => Len(q.data) = 0
    BY DEF IsQueue
  <2>5. ASSUME NEW i \in 1..Len(data) PROVE data[i] = End(f) - Len(data) + i
    <3>1. CASE i <= Len(q.data)
      <4>1. i \in 1..Len(q.data) /\ q.epoch # 0
        BY <2>1, <2>4, <3>1
      <4>2. data[i] = end - Len(q.data) + i
        BY <1>5, <1>7, <1>10, <2>1, <2>2, <3>1, <4>1
      <4>3. End(f) = end + Packet /\ i \in Nat
        BY <2>1, <2>3, <4>1
      <4>4. End(f) - Len(data) + i = end - Len(q.data) + i
        <5>1. Len(q.data) \in Nat /\ end \in Nat /\ Packet \in Nat
          BY <2>1, Sizes
        <5>2. End(f) - Len(data) + i = (end + Packet) - (Len(q.data) + Packet) + i
          BY <2>2, <4>3, Zenon
        <5>3. (end + Packet) - (Len(q.data) + Packet) + i = end - Len(q.data) + i
          BY <4>3, <5>1, Shift
        <5>4. QED
          BY <5>2, <5>3, Zenon
      <4>5. QED
        BY <4>2, <4>4
    <3>2. CASE i > Len(q.data)
      <4>1. i - Len(q.data) \in 1..Len(added) /\ Len(added) = Packet
        BY <1>5, <2>1, <2>2, <3>2, Sizes
      <4>2. data[i] = added[i - Len(q.data)]
        <5>1. Len(ready.data) = Len(q.data) /\ Len(data) = Len(ready.data) + Len(added)
          BY <1>7, <1>10
        <5>2. ~(i <= Len(ready.data)) /\ i \in 1..(Len(ready.data) + Len(added))
          BY <2>1, <3>2, <5>1
        <5>3. QED
          BY <1>7, <5>1, <5>2
      <4>3. added[i - Len(q.data)] = End(f) - Packet + (i - Len(q.data))
        BY <1>5, <4>1
      <4>4. QED
        BY <1>3, <2>1, <2>2, <4>2, <4>3, Sizes
    <3>3. QED
      BY <2>1, <3>1, <3>2
  <2>6. data # <<>> /\ Len(data) <= Capacity
    BY <1>10, <2>1, <2>2, Sizes
  <2>7. IsQueue(p, End(f))
    BY <1>3, <1>8, <2>5, <2>6 DEF IsQueue
  <2>8. q.epoch # 0 => data[1] = q.data[1]
    <3>1. q.epoch # 0 => Len(q.data) >= 1
      BY <2>1 DEF IsQueue
    <3>2. Len(q.data) >= 1 => 1 \in 1..(Len(ready.data) + Len(added))
                              /\ 1 <= Len(ready.data)
      BY <1>5, <1>7, <1>10, <2>1, <2>2, Sizes
    <3>3. QED
      BY <1>7, <1>10, <3>1, <3>2
  <2>9. QED
    BY <1>1, <1>2, <1>8, <1>10, <2>7, <2>8
<1>11. QED
  BY <1>2, <1>9, <1>10

\* An output leaves a queue that ends as before and stands StepNum further.
LEMMA AdvanceFacts ==
    ASSUME NEW q, NEW end, IsQueue(q, end), Queue!Sounds(q)
    PROVE  LET p == Queue!Advance(q)
           IN  /\ IsQueue(p, end) /\ q.epoch # 0 /\ p.epoch = q.epoch
               /\ p.sequence = q.sequence /\ p.discontinuities = q.discontinuities
               /\ q.data[1] \in Nat
               /\ p.data[1] * StepDen + p.fraction
                      = q.data[1] * StepDen + q.fraction + StepNum
<1> DEFINE phase == q.fraction + StepNum
           k == phase \div StepDen
           n == Len(q.data)
           data == SubSeq(q.data, k + 1, n)
           p == [q EXCEPT !.data = data, !.fraction = phase % StepDen]
<1>1. /\ q \in QueueRecord /\ q.data \in Seq(Nat) /\ n \in Nat /\ n <= Capacity
      /\ q.fraction \in 0..(StepDen - 1) /\ end \in Nat
      /\ \A i \in 1..n : q.data[i] = end - n + i
  BY DEF IsQueue, QueueRecord
<1>2. n >= Queue!Needed
  BY DEF Queue!Sounds
<1>3. /\ phase \in Nat /\ k \in Nat /\ k < n /\ (phase % StepDen) \in 0..(StepDen - 1)
  <2>1. phase \in Nat
    BY <1>1, Sizes
  <2>2. k \in Nat /\ (phase % StepDen) \in 0..(StepDen - 1)
    BY <2>1, Sizes, DivMod
  <2>3. Queue!Needed \in Nat /\ k < Queue!Needed
    BY <1>1, NeededFacts
  <2>4. QED
    BY <1>1, <1>2, <2>1, <2>2, <2>3
<1>4. p = Queue!Advance(q)
  BY DEF Queue!Advance, Queue!Remainder
<1>5. q.data # <<>> /\ q.epoch # 0 /\ 1 \in 1..n
  <2>1. 1 \in 1..n
    BY <1>1, <1>3
  <2>2. QED
    BY <1>1, <2>1 DEF IsQueue
<1> HIDE DEF k, n
<1>6. /\ data \in Seq(Nat) /\ Len(data) = n - k
      /\ \A i \in 1..(n - k) : data[i] = q.data[k + i]
  <2>1. k + 1 \in Int /\ n \in Int /\ \A i \in (k + 1)..n : i \in 1..n
    BY <1>1, <1>3
  <2>2. \A i \in (k + 1)..n : q.data[i] \in Nat
    BY <1>1, <2>1, ElementOfSeq DEF n
  <2>3. /\ data \in Seq(Nat)
        /\ Len(data) = IF k + 1 <= n THEN n - (k + 1) + 1 ELSE 0
        /\ \A i \in 1..(n - (k + 1) + 1) : data[i] = q.data[(k + 1) + i - 1]
    BY <2>1, <2>2, SubSeqProperties
  <2> HIDE DEF data
  <2>4. Len(data) = n - k
    BY <1>1, <1>3, <2>3
  <2>5. ASSUME NEW i \in 1..(n - k) PROVE data[i] = q.data[k + i]
    <3>1. i \in 1..(n - (k + 1) + 1) /\ (k + 1) + i - 1 = k + i
      BY <1>1, <1>3
    <3>2. QED
      BY <2>3, <3>1
  <2>6. QED
    BY <2>3, <2>4, <2>5
<1> HIDE DEF data
<1>7. /\ p \in QueueRecord /\ p.data = data /\ p.fraction = phase % StepDen
      /\ p.epoch = q.epoch /\ p.sequence = q.sequence
      /\ p.discontinuities = q.discontinuities
  BY <1>1, <1>3, <1>6 DEF QueueRecord
<1> HIDE DEF p
<1>8. \A i \in 1..Len(data) : data[i] = end - Len(data) + i
  <2> SUFFICES ASSUME NEW i \in 1..(n - k) PROVE data[i] = end - (n - k) + i
    BY <1>6
  <2>1. k + i \in 1..n
    BY <1>1, <1>3
  <2>2. data[i] = end - n + (k + i)
    BY <1>1, <1>6, <2>1
  <2>3. QED
    BY <1>1, <1>3, <2>2
<1>9. IsQueue(p, end)
  <2>1. data # <<>> /\ Len(data) <= Capacity
    BY <1>1, <1>3, <1>6, Sizes
  <2>2. QED
    BY <1>1, <1>5, <1>7, <1>8, <2>1 DEF IsQueue
<1>10. p.data[1] * StepDen + p.fraction = q.data[1] * StepDen + phase
  <2> HIDE DEF phase
  <2>1. data[1] = q.data[1] + k /\ q.data[1] \in Nat
    <3>1. 1 \in 1..(n - k) /\ k + 1 \in 1..n
      BY <1>1, <1>3
    <3>2. data[1] = q.data[k + 1] /\ q.data[1] \in Nat
      BY <1>1, <1>5, <1>6, <3>1, ElementOfSeq DEF n
    <3>3. q.data[k + 1] = end - n + (k + 1) /\ q.data[1] = end - n + 1
      BY <1>1, <1>5, <3>1
    <3>4. QED
      BY <1>1, <1>3, <3>2, <3>3
  <2>2. (q.data[1] + (phase \div StepDen)) * StepDen + (phase % StepDen)
            = q.data[1] * StepDen + phase
    <3>1. phase \in Nat /\ q.data[1] \in Nat /\ StepDen \in Nat \ {0}
      BY <1>3, <2>1, Sizes
    <3>2. QED
      BY <3>1, Carry, Zenon
  <2>3. QED
    BY <1>7, <2>1, <2>2 DEF k
<1>11. q.data[1] \in Nat /\ q.data[1] * StepDen \in Nat
  <2>1. q.data[1] \in Nat
    BY <1>1, <1>5, ElementOfSeq DEF n
  <2>2. QED
    BY <2>1, Sizes
<1>12. q.data[1] * StepDen + phase = q.data[1] * StepDen + q.fraction + StepNum
  BY <1>1, <1>11, Sizes
<1>13. QED
  BY <1>4, <1>5, <1>7, <1>9, <1>10, <1>11, <1>12

----------------------------------------------------------------------------
(* The invariant. *)

Elements(s) == {s[i] : i \in 1..Len(s)}

LEMMA ElementsFacts ==
    ASSUME NEW S, NEW s \in Seq(S)
    PROVE  /\ Elements(s) \subseteq S
           /\ \A e \in S : Elements(Append(s, e)) \subseteq Elements(s) \cup {e}
           /\ s # <<>> => /\ Head(s) \in Elements(s)
                          /\ Elements(Tail(s)) \subseteq Elements(s)
<1>1. Elements(s) \subseteq S
  BY ElementOfSeq DEF Elements
<1>2. ASSUME NEW e \in S PROVE Elements(Append(s, e)) \subseteq Elements(s) \cup {e}
  <2>1. /\ Len(Append(s, e)) = Len(s) + 1 /\ Len(s) \in Nat
        /\ \A i \in 1..Len(s) : Append(s, e)[i] = s[i]
        /\ Append(s, e)[Len(s) + 1] = e
    BY AppendProperties
  <2>2. \A i \in 1..(Len(s) + 1) : i \in 1..Len(s) \/ i = Len(s) + 1
    BY <2>1
  <2>3. QED
    BY <2>1, <2>2 DEF Elements
<1>3. ASSUME s # <<>>
      PROVE  Head(s) \in Elements(s) /\ Elements(Tail(s)) \subseteq Elements(s)
  <2>1. /\ Len(s) \in Nat /\ Len(Tail(s)) = Len(s) - 1
        /\ \A i \in 1..Len(Tail(s)) : Tail(s)[i] = s[i + 1]
    BY <1>3, HeadTailProperties
  <2>2. Head(s) = s[1] /\ Len(s) >= 1
    BY <1>3
  <2>3. \A i \in 1..Len(Tail(s)) : i + 1 \in 1..Len(s)
    BY <2>1
  <2>4. Elements(Tail(s)) \subseteq Elements(s)
    BY <2>1, <2>3 DEF Elements
  <2>5. Head(s) \in Elements(s)
    BY <2>1, <2>2 DEF Elements
  <2>6. QED
    BY <2>4, <2>5
<1>4. QED
  BY <1>1, <1>2, <1>3

Messages == {Pcm(f) : f \in Packets} \cup {Configure(on) : on \in BOOLEAN}

LEMMA MessageFacts ==
    ASSUME NEW m \in Messages
    PROVE  /\ m.type = "pcm" => m.frame \in Packets
           /\ m.type = "configure" => m.on \in BOOLEAN
           /\ m.frame \in Packets \cup {NoFrame}
  BY DEF Messages, Pcm, Configure

LEMMA NoFrameFacts == NoFrame \notin Packets
  BY PacketFacts DEF NoFrame

\* What the packetizer has not sent yet are the latest samples.
PacketizerInv ==
    /\ position \in Nat /\ epochs \in Nat
    /\ packetizer \in [epoch : Nat \ {0}, sequence : Nat, samples : Seq(Nat)]
    /\ packetizer.epoch < epochs
    /\ Len(packetizer.samples) < Packet /\ Len(packetizer.samples) <= position
    /\ \A i \in 1..Len(packetizer.samples) :
           packetizer.samples[i] = position - Len(packetizer.samples) + i

\* Every packet on its way is a whole one.
WayInv ==
    /\ ring \in Seq(Packets) /\ Len(ring) <= RingCapacity
    /\ sent \in Nat /\ Len(ring) <= sent
    /\ task \in {"none", "recv", "send"} /\ next \in 0..sent
    /\ frame \in Packets \cup {NoFrame} /\ (task = "send" => frame \in Packets)
    /\ lagged \in Nat /\ skipped \in Nat
    /\ socket \in Seq(Packets) /\ Len(socket) <= SocketLimit
    /\ playing \in BOOLEAN /\ active \in BOOLEAN /\ effect \in BOOLEAN
    /\ port \in Seq(Messages)

\* The queue is unbroken and stands where the rate says.
QueueInv ==
    /\ known \in BOOLEAN /\ IsQueue(queue, stored)
    /\ gaps \in Nat /\ gaps <= queue.discontinuities
    /\ heard \in Nat
    /\ heard # 0 => /\ queue.epoch # 0
                    /\ queue.data[1] * StepDen + queue.fraction = heard + StepNum

\* The packets on their way.
Carried ==
    (Elements(ring) \cup Elements(socket) \cup {m.frame : m \in Elements(port)}
        \cup {frame}) \ {NoFrame}

\* The n-th packet of an epoch, or what was made of it, ends where the next one begins:
\* the one the packetizer fills, or one that is on its way.
Precedes(e, n, end) ==
    /\ e <= packetizer.epoch
    /\ e = packetizer.epoch => n <= packetizer.sequence
    /\ e = packetizer.epoch /\ n = packetizer.sequence
           => end = position - Len(packetizer.samples)
    /\ \A g \in Carried : g.epoch = e /\ g.sequence = n + 1 => g.samples[1] = end + 1

OrderInv ==
    /\ \A f \in Carried : Precedes(f.epoch, f.sequence, End(f))
    /\ queue.epoch # 0 => Precedes(queue.epoch, queue.sequence, stored)

IInv == PacketizerInv /\ WayInv /\ QueueInv /\ OrderInv

LEMMA CarriedFacts ==
    ASSUME WayInv PROVE Carried \subseteq Packets
<1>1. Elements(ring) \subseteq Packets /\ Elements(socket) \subseteq Packets
  BY ElementsFacts DEF WayInv
<1>2. Elements(port) \subseteq Messages
  BY ElementsFacts DEF WayInv
<1>3. \A m \in Elements(port) : m.frame \in Packets \cup {NoFrame}
  BY <1>2, MessageFacts
<1>4. QED
  BY <1>1, <1>3 DEF WayInv, Carried

LEMMA InitIInv == Init => IInv
<1> SUFFICES ASSUME Init PROVE IInv
  OBVIOUS
<1>1. PacketizerInv
  <2>1. /\ position = 0 /\ epochs = 2
        /\ packetizer = [epoch |-> 1, sequence |-> 0, samples |-> <<>>]
    BY DEF Init
  <2>2. <<>> \in Seq(Nat) /\ Len(<<>>) = 0
    OBVIOUS
  <2>3. QED
    BY <2>1, <2>2, Sizes DEF PacketizerInv
<1>2. WayInv
  <2>1. <<>> \in Seq(Packets) /\ <<>> \in Seq(Messages) /\ Len(<<>>) = 0
    OBVIOUS
  <2>2. /\ ring = <<>> /\ sent = 0 /\ task = "none" /\ next = 0 /\ frame = NoFrame
        /\ lagged = 0 /\ skipped = 0 /\ socket = <<>> /\ port = <<>>
        /\ playing = FALSE /\ active = TRUE /\ effect = FALSE
    BY DEF Init
  <2>3. /\ Len(ring) <= RingCapacity /\ Len(ring) <= sent /\ next \in 0..sent
        /\ Len(socket) <= SocketLimit /\ sent \in Nat /\ lagged \in Nat /\ skipped \in Nat
    BY <2>1, <2>2, Sizes
  <2>4. QED
    BY <2>1, <2>2, <2>3 DEF WayInv
<1>3. queue.epoch = 0 /\ QueueInv
  <2>1. known = FALSE /\ queue = Queue!New /\ stored = 0 /\ gaps = 0 /\ heard = 0
    BY DEF Init
  <2>2. Queue!New.epoch = 0
    BY DEF Queue!New, Queue!NoEpoch
  <2>3. IsQueue(queue, stored) /\ queue.discontinuities = 0
    BY <2>1, NewIsQueue
  <2>4. gaps \in Nat /\ gaps <= queue.discontinuities /\ heard \in Nat /\ heard = 0
    BY <2>1, <2>3
  <2>5. QED
    BY <2>1, <2>2, <2>3, <2>4 DEF QueueInv
<1>4. Carried = {}
  BY DEF Init, Carried, Elements
<1>5. QED
  BY <1>1, <1>2, <1>3, <1>4 DEF IInv, OrderInv

\* No step but the packetizer's puts a packet on its way.
LEMMA KeepsOrder ==
    ASSUME OrderInv, UNCHANGED <<position, packetizer>>, Carried' \subseteq Carried,
           queue'.epoch # 0 => UNCHANGED <<queue.epoch, queue.sequence, stored>>
    PROVE  OrderInv'
<1>1. ASSUME NEW e, NEW n, NEW end, Precedes(e, n, end) PROVE Precedes(e, n, end)'
  BY <1>1 DEF Precedes
<1>2. \A f \in Carried' : Precedes(f.epoch, f.sequence, End(f))'
  BY <1>1 DEF OrderInv
<1>3. ASSUME queue'.epoch # 0 PROVE Precedes(queue.epoch, queue.sequence, stored)'
  <2>1. Precedes(queue.epoch, queue.sequence, stored)
    BY <1>3 DEF OrderInv
  <2>2. QED
    BY <1>3, <2>1 DEF Precedes
<1>4. QED
  BY <1>2, <1>3 DEF OrderInv

----------------------------------------------------------------------------
(* The DSP thread. *)

\* A sample is added, or completes a packet that continues the one before.
LEMMA SampleFacts ==
    ASSUME PacketizerInv, PushSample
    PROVE  /\ PacketizerInv'
           /\ packetizer'.epoch = packetizer.epoch
           /\ \/ /\ packetizer'.sequence = packetizer.sequence /\ UNCHANGED busVars
                 /\ position' - Len(packetizer'.samples)
                        = position - Len(packetizer.samples)
              \/ \E f \in Packets :
                    /\ f.epoch = packetizer.epoch /\ f.sequence = packetizer.sequence + 1
                    /\ f.samples[1] = position - Len(packetizer.samples) + 1
                    /\ End(f) = position'
                    /\ packetizer'.sequence = f.sequence
                    /\ Len(packetizer'.samples) = 0
                    /\ Broadcast(f) \/ UNCHANGED busVars
<1> DEFINE samples == Append(packetizer.samples, position + 1)
           f == [epoch |-> packetizer.epoch, sequence |-> packetizer.sequence + 1,
                 samples |-> samples]
           n == Len(packetizer.samples)
<1>1. /\ position \in Nat /\ position' = position + 1 /\ epochs' = epochs /\ epochs \in Nat
      /\ packetizer.epoch \in Nat \ {0} /\ packetizer.epoch < epochs
      /\ packetizer.sequence \in Nat /\ packetizer.samples \in Seq(Nat)
      /\ packetizer \in [epoch : Nat \ {0}, sequence : Nat, samples : Seq(Nat)]
      /\ n \in Nat /\ n < Packet /\ n <= position
      /\ \A i \in 1..n : packetizer.samples[i] = position - n + i
  BY DEF PacketizerInv, PushSample
<1>2. /\ samples \in Seq(Nat) /\ Len(samples) = n + 1
      /\ \A i \in 1..n : samples[i] = packetizer.samples[i]
      /\ samples[n + 1] = position + 1
  BY <1>1, AppendProperties
<1>3. \A i \in 1..(n + 1) : samples[i] = position - n + i
  <2> SUFFICES ASSUME NEW i \in 1..(n + 1) PROVE samples[i] = position - n + i
    OBVIOUS
  <2>1. CASE i \in 1..n
    BY <1>1, <1>2, <2>1
  <2>2. CASE i = n + 1
    BY <1>1, <1>2, <2>2
  <2>3. QED
    BY <1>1, <2>1, <2>2
<1>4. \/ /\ n + 1 < Packet
         /\ packetizer' = [packetizer EXCEPT !.samples = samples]
         /\ UNCHANGED busVars
      \/ /\ n + 1 = Packet
         /\ packetizer' = [packetizer EXCEPT !.samples = <<>>, !.sequence = @ + 1]
         /\ Broadcast(f) \/ UNCHANGED busVars
  BY <1>2 DEF PushSample
<1> HIDE DEF samples, n
<1>5. CASE n + 1 < Packet /\ packetizer' = [packetizer EXCEPT !.samples = samples]
           /\ UNCHANGED busVars
  <2>1. /\ packetizer'.epoch = packetizer.epoch
        /\ packetizer'.sequence = packetizer.sequence
        /\ packetizer'.samples = samples /\ Len(packetizer'.samples) = n + 1
        /\ packetizer' \in [epoch : Nat \ {0}, sequence : Nat, samples : Seq(Nat)]
    BY <1>1, <1>2, <1>5
  <2>2. position' - (n + 1) = position - n
    BY <1>1
  <2>3. \A i \in 1..(n + 1) : packetizer'.samples[i] = position' - (n + 1) + i
    BY <1>1, <1>3, <2>1, <2>2
  <2>4. PacketizerInv'
    BY <1>1, <1>5, <2>1, <2>3 DEF PacketizerInv
  <2>5. QED
    BY <1>5, <2>1, <2>2, <2>4 DEF n
<1>6. CASE /\ n + 1 = Packet
           /\ packetizer' = [packetizer EXCEPT !.samples = <<>>, !.sequence = @ + 1]
           /\ Broadcast(f) \/ UNCHANGED busVars
  <2>1. /\ packetizer'.epoch = packetizer.epoch
        /\ packetizer'.sequence = packetizer.sequence + 1
        /\ packetizer'.samples = <<>> /\ Len(packetizer'.samples) = 0
        /\ packetizer' \in [epoch : Nat \ {0}, sequence : Nat, samples : Seq(Nat)]
    <3>1. packetizer' = [packetizer EXCEPT !.samples = <<>>, !.sequence = @ + 1]
      BY <1>6
    <3>2. packetizer.sequence + 1 \in Nat /\ <<>> \in Seq(Nat) /\ Len(<<>>) = 0
      BY <1>1
    <3>3. QED
      BY <1>1, <3>1, <3>2
  <2>0. n + 1 = Packet
    BY <1>6
  <2>2. PacketizerInv'
    BY <1>1, <2>1, Sizes DEF PacketizerInv
  <2>3. f.samples[1] = position - n + 1 /\ f.samples[1] >= 1
    <3>1. 1 \in 1..(n + 1)
      BY <1>1, <1>2 DEF n
    <3>2. QED
      BY <1>1, <1>3, <3>1
  <2>4. f \in Packets
    <3>1. f \in Frame
      BY <1>1, <1>2 DEF Frame
    <3>2. ASSUME NEW i \in 1..Packet PROVE f.samples[i] = f.samples[1] + i - 1
      <4>1. samples[i] = position - n + i
        BY <1>3, <2>0
      <4>2. QED
        BY <1>1, <2>3, <4>1
    <3>3. QED
      BY <1>2, <2>0, <2>3, <3>1, <3>2 DEF Packets
  <2>5. End(f) = position'
    BY <1>1, <2>0, <2>3 DEF End
  <2>6. f.epoch = packetizer.epoch /\ f.sequence = packetizer.sequence + 1
    OBVIOUS
  <2> HIDE DEF f
  <2>7. QED
    BY <1>6, <2>1, <2>2, <2>3, <2>4, <2>5, <2>6 DEF n
<1>7. QED
  BY <1>4, <1>5, <1>6

\* broadcast::Sender::send keeps the ring.
LEMMA BroadcastFacts ==
    ASSUME WayInv, NEW f \in Packets, Broadcast(f)
    PROVE  /\ ring' \in Seq(Packets) /\ Len(ring') <= RingCapacity
           /\ sent' \in Nat /\ Len(ring') <= sent' /\ sent <= sent'
           /\ Elements(ring') \subseteq Elements(ring) \cup {f}
<1>1. /\ ring \in Seq(Packets) /\ Len(ring) <= RingCapacity /\ Len(ring) \in Nat
      /\ sent \in Nat /\ Len(ring) <= sent /\ sent' = sent + 1
  BY DEF WayInv, Broadcast
<1>2. CASE Len(ring) < RingCapacity
  <2>1. ring' = Append(ring, f)
    BY <1>2 DEF Broadcast
  <2>2. ring' \in Seq(Packets) /\ Len(ring') = Len(ring) + 1
    BY <1>1, <2>1, AppendProperties
  <2>3. Elements(ring') \subseteq Elements(ring) \cup {f}
    BY <1>1, <2>1, ElementsFacts
  <2>4. QED
    BY <1>1, <1>2, <2>2, <2>3, Sizes
<1>3. CASE ~(Len(ring) < RingCapacity)
  <2>1. ring' = Append(Tail(ring), f) /\ ring # <<>> /\ Len(ring) = RingCapacity
    BY <1>1, <1>3, Sizes DEF Broadcast
  <2>2. Tail(ring) \in Seq(Packets) /\ Len(Tail(ring)) = Len(ring) - 1
    BY <1>1, <2>1, HeadTailProperties
  <2>3. ring' \in Seq(Packets) /\ Len(ring') = Len(Tail(ring)) + 1
    BY <2>1, <2>2, AppendProperties
  <2>4. Elements(ring') \subseteq Elements(ring) \cup {f}
    BY <1>1, <2>1, <2>2, ElementsFacts
  <2>5. QED
    BY <1>1, <2>1, <2>2, <2>3, <2>4
<1>4. QED
  BY <1>2, <1>3

LEMMA PushSampleIInv == ASSUME IInv, PushSample PROVE IInv'
<1>1. UNCHANGED <<epochs, taskVars, socket, mainVars, port, acks, workletVars>>
  BY DEF PushSample
<1>2. PacketizerInv /\ WayInv /\ QueueInv /\ OrderInv
  BY DEF IInv
<1>3. PacketizerInv' /\ packetizer'.epoch = packetizer.epoch
  BY <1>2, SampleFacts
<1>4. QueueInv'
  BY <1>1, <1>2 DEF QueueInv, workletVars
<1>5. CASE /\ packetizer'.sequence = packetizer.sequence /\ UNCHANGED busVars
           /\ position' - Len(packetizer'.samples) = position - Len(packetizer.samples)
  <2>1. WayInv'
    BY <1>1, <1>2, <1>5 DEF WayInv, busVars, taskVars, mainVars
  <2>2. Carried' = Carried
    BY <1>1, <1>5 DEF Carried, Elements, busVars, taskVars
  <2>3. ASSUME NEW e, NEW n, NEW end, Precedes(e, n, end) PROVE Precedes(e, n, end)'
    BY <1>3, <1>5, <2>2, <2>3 DEF Precedes
  <2>4. \A f \in Carried' : Precedes(f.epoch, f.sequence, End(f))'
    BY <1>2, <2>2, <2>3 DEF OrderInv
  <2>5. ASSUME queue'.epoch # 0 PROVE Precedes(queue.epoch, queue.sequence, stored)'
    <3>1. Precedes(queue.epoch, queue.sequence, stored)
      BY <1>1, <1>2, <2>5 DEF OrderInv, workletVars
    <3>2. QED
      BY <1>1, <1>3, <1>5, <2>2, <3>1 DEF Precedes, workletVars
  <2>6. QED
    BY <1>3, <1>4, <2>1, <2>4, <2>5 DEF IInv, OrderInv
<1>6. ASSUME NEW f \in Packets,
             f.epoch = packetizer.epoch, f.sequence = packetizer.sequence + 1,
             f.samples[1] = position - Len(packetizer.samples) + 1,
             End(f) = position', packetizer'.sequence = f.sequence,
             Len(packetizer'.samples) = 0, Broadcast(f) \/ UNCHANGED busVars
      PROVE  IInv'
  <2>1. /\ ring' \in Seq(Packets) /\ Len(ring') <= RingCapacity
        /\ sent' \in Nat /\ Len(ring') <= sent' /\ sent <= sent'
        /\ Elements(ring') \subseteq Elements(ring) \cup {f}
    <3>1. CASE Broadcast(f)
      BY <1>2, <3>1, BroadcastFacts
    <3>2. CASE UNCHANGED busVars
      BY <1>2, <3>2 DEF busVars, WayInv, Elements
    <3>3. QED
      BY <1>6, <3>1, <3>2
  <2>2. WayInv'
    <3>1. next' \in 0..sent'
      BY <1>1, <1>2, <2>1 DEF WayInv, taskVars
    <3>2. QED
      BY <1>1, <1>2, <2>1, <3>1 DEF WayInv, taskVars, mainVars
  <2>3. Carried' \subseteq Carried \cup {f}
    <3>1. Elements(socket') = Elements(socket) /\ Elements(port') = Elements(port)
      BY <1>1
    <3>2. frame' = frame
      BY <1>1 DEF taskVars
    <3>3. QED
      BY <2>1, <3>1, <3>2 DEF Carried
  <2>4. packetizer.sequence \in Nat /\ position' \in Nat
    BY <1>2, <1>3 DEF PacketizerInv
  <2>5. ASSUME NEW e, NEW n \in Nat, NEW end \in Nat, Precedes(e, n, end)
        PROVE  Precedes(e, n, end)'
    <3>1. e <= packetizer'.epoch
      BY <1>3, <2>5 DEF Precedes
    <3>2. e = packetizer'.epoch => n < packetizer'.sequence
      BY <1>3, <1>6, <2>4, <2>5 DEF Precedes
    <3>3. ASSUME NEW g \in Carried', g.epoch = e, g.sequence = n + 1
          PROVE  g.samples[1] = end + 1
      <4>1. CASE g \in Carried
        BY <2>5, <3>3, <4>1 DEF Precedes
      <4>2. CASE g = f
        <5>1. e = packetizer.epoch /\ n = packetizer.sequence
          BY <1>6, <2>4, <3>3, <4>2
        <5>2. end = position - Len(packetizer.samples)
          BY <2>5, <5>1 DEF Precedes
        <5>3. QED
          BY <1>6, <4>2, <5>2
      <4>3. QED
        BY <2>3, <4>1, <4>2
    <3>4. packetizer'.sequence \in Nat
      BY <1>6, <2>4
    <3>5. QED
      BY <2>4, <3>1, <3>2, <3>3, <3>4 DEF Precedes
  <2>6. Precedes(f.epoch, f.sequence, End(f))'
    <3>1. ASSUME NEW g \in Carried', g.epoch = f.epoch, g.sequence = f.sequence + 1
          PROVE  FALSE
      <4>1. g \in Carried \/ g = f
        BY <2>3
      <4>2. CASE g \in Carried
        <5>1. g.sequence <= packetizer.sequence
          BY <1>2, <1>6, <3>1, <4>2 DEF OrderInv, Precedes
        <5>2. QED
          BY <1>6, <2>4, <3>1, <5>1
      <4>3. CASE g = f
        BY <1>6, <2>4, <3>1, <4>3
      <4>4. QED
        BY <4>1, <4>2, <4>3
    <3>2. f.epoch <= packetizer'.epoch /\ f.sequence <= packetizer'.sequence
      BY <1>3, <1>6, <2>4, PacketFacts
    <3>3. End(f) = position' - Len(packetizer'.samples)
      <4>1. End(f) = position' /\ Len(packetizer'.samples) = 0
        BY <1>6
      <4>2. PICK p \in Nat : p = position'
        BY <2>4
      <4>3. p = p - 0
        OBVIOUS
      <4>4. QED
        BY <4>1, <4>2, <4>3
    <3>4. QED
      BY <3>1, <3>2, <3>3 DEF Precedes
  <2>7. ASSUME NEW g \in Carried' PROVE Precedes(g.epoch, g.sequence, End(g))'
    <3>1. CASE g \in Carried
      <4>1. g \in Packets /\ Precedes(g.epoch, g.sequence, End(g))
        BY <1>2, <3>1, CarriedFacts DEF OrderInv
      <4>2. g.sequence \in Nat /\ End(g) \in Nat
        BY <4>1, PacketFacts
      <4>3. QED
        BY <2>5, <4>1, <4>2
    <3>2. QED
      BY <2>3, <2>6, <3>1
  <2>8. ASSUME queue'.epoch # 0 PROVE Precedes(queue.epoch, queue.sequence, stored)'
    <3>1. queue' = queue /\ stored' = stored
      BY <1>1 DEF workletVars
    <3>2. queue.epoch \in Nat /\ queue.sequence \in Nat /\ stored \in Nat
      BY <1>2 DEF QueueInv, IsQueue, QueueRecord
    <3>3. PICK e \in Nat, n \in Nat, end \in Nat :
              e = queue.epoch /\ n = queue.sequence /\ end = stored
      BY <3>2
    <3>4. Precedes(e, n, end)
      BY <1>2, <2>8, <3>1, <3>3 DEF OrderInv
    <3>5. Precedes(e, n, end)'
      BY <2>5, <3>4
    <3>6. QED
      BY <3>1, <3>3, <3>5 DEF Precedes
  <2>9. QED
    BY <1>3, <1>4, <2>2, <2>7, <2>8 DEF IInv, OrderInv
<1>7. QED
  BY <1>2, <1>5, <1>6, SampleFacts

LEMMA RebuildIInv == ASSUME IInv, Rebuild PROVE IInv'
<1>1. UNCHANGED <<position, busVars, taskVars, socket, mainVars, port, acks, workletVars>>
  BY DEF Rebuild
<1>2. PacketizerInv /\ WayInv /\ QueueInv /\ OrderInv
  BY DEF IInv
<1>3. /\ epochs' = epochs + 1
      /\ packetizer' = [epoch |-> epochs, sequence |-> 0, samples |-> <<>>]
      /\ packetizer.epoch \in Nat /\ packetizer.epoch < epochs /\ epochs \in Nat
      /\ position \in Nat
  BY <1>2 DEF Rebuild, NewEpoch, PacketizerInv
<1>4. PacketizerInv'
  <2>1. <<>> \in Seq(Nat) /\ Len(<<>>) = 0 /\ epochs \in Nat \ {0}
    BY <1>3
  <2>2. QED
    BY <1>1, <1>3, <2>1, Sizes DEF PacketizerInv
<1>5. WayInv' /\ QueueInv'
  BY <1>1, <1>2 DEF WayInv, QueueInv, busVars, taskVars, mainVars, workletVars
<1>6. Carried' = Carried
  BY <1>1 DEF Carried, Elements, busVars, taskVars
<1>7. ASSUME NEW e \in Nat, NEW n, NEW end, Precedes(e, n, end) PROVE Precedes(e, n, end)'
  <2>1. e < epochs /\ packetizer'.epoch = epochs
    BY <1>3, <1>7 DEF Precedes
  <2>2. QED
    BY <1>3, <1>6, <1>7, <2>1 DEF Precedes
<1>8. ASSUME NEW f \in Carried' PROVE Precedes(f.epoch, f.sequence, End(f))'
  <2>1. f.epoch \in Nat /\ Precedes(f.epoch, f.sequence, End(f))
    BY <1>2, <1>6, <1>8, CarriedFacts, PacketFacts DEF OrderInv
  <2>2. QED
    BY <1>7, <2>1
<1>9. ASSUME queue'.epoch # 0 PROVE Precedes(queue.epoch, queue.sequence, stored)'
  <2>1. queue' = queue /\ stored' = stored
    BY <1>1 DEF workletVars
  <2>2. PICK e \in Nat, n \in Nat, end \in Nat : e = queue.epoch /\ n = queue.sequence /\ end = stored
    BY <1>2 DEF QueueInv, IsQueue, QueueRecord
  <2>3. Precedes(e, n, end)
    BY <1>2, <1>9, <2>1, <2>2 DEF OrderInv
  <2>4. Precedes(e, n, end)'
    BY <1>7, <2>3
  <2>5. QED
    BY <2>1, <2>2, <2>4 DEF Precedes
<1>10. QED
  BY <1>4, <1>5, <1>8, <1>9 DEF IInv, OrderInv

----------------------------------------------------------------------------
(* stream_audio. *)

LEMMA RecvIInv == ASSUME IInv, Recv PROVE IInv'
<1>1. UNCHANGED <<dspVars, busVars, lagged, skipped, socket, mainVars, port, acks, workletVars>>
  BY DEF Recv
<1>2. PacketizerInv /\ WayInv /\ QueueInv /\ OrderInv
  BY DEF IInv
<1>3. PacketizerInv' /\ QueueInv'
  BY <1>1, <1>2 DEF PacketizerInv, QueueInv, dspVars, workletVars
<1>4. /\ ring \in Seq(Packets) /\ Len(ring) \in Nat /\ sent \in Nat /\ next \in 0..sent
      /\ next < sent /\ next >= sent - Len(ring) /\ task' = "send" /\ next' = next + 1
      /\ frame' = ring[next - (sent - Len(ring)) + 1]
  BY <1>2 DEF WayInv, Recv, Oldest
<1>5. next - (sent - Len(ring)) + 1 \in 1..Len(ring) /\ next' \in 0..sent
  BY <1>4
<1>6. frame' \in Elements(ring) /\ frame' \in Packets
  BY <1>4, <1>5, ElementOfSeq DEF Elements
<1>7. WayInv'
  BY <1>1, <1>2, <1>4, <1>5, <1>6 DEF WayInv, busVars, mainVars
<1>8. Carried' \subseteq Carried
  <2>1. Carried' = (Elements(ring) \cup Elements(socket) \cup {m.frame : m \in Elements(port)}
                       \cup {frame'}) \ {NoFrame}
    BY <1>1 DEF Carried, Elements, busVars
  <2>2. QED
    BY <1>6, <2>1 DEF Carried
<1>9. OrderInv'
  BY <1>1, <1>2, <1>8, KeepsOrder DEF dspVars, workletVars
<1>10. QED
  BY <1>3, <1>7, <1>9 DEF IInv

LEMMA LagIInv == ASSUME IInv, Lag PROVE IInv'
<1>1. UNCHANGED <<dspVars, busVars, task, frame, socket, mainVars, port, acks, workletVars>>
  BY DEF Lag
<1>2. PacketizerInv /\ WayInv /\ QueueInv /\ OrderInv
  BY DEF IInv
<1>3. PacketizerInv' /\ QueueInv'
  BY <1>1, <1>2 DEF PacketizerInv, QueueInv, dspVars, workletVars
<1>4. lagged' \in Nat /\ skipped' \in Nat /\ next' \in 0..sent
  <2>1. /\ sent \in Nat /\ Len(ring) \in Nat /\ Len(ring) <= sent /\ next \in 0..sent
        /\ lagged \in Nat /\ skipped \in Nat /\ next < sent - Len(ring)
        /\ lagged' = lagged + ((sent - Len(ring)) - next)
        /\ skipped' = skipped + (sent - next) /\ next' = sent
    BY <1>2 DEF WayInv, Lag, Oldest
  <2>2. QED
    BY <2>1
<1>5. WayInv'
  BY <1>1, <1>2, <1>4 DEF WayInv, busVars, mainVars
<1>6. Carried' = Carried
  BY <1>1 DEF Carried, Elements, busVars
<1>7. OrderInv'
  BY <1>1, <1>2, <1>6, KeepsOrder DEF dspVars, workletVars
<1>8. QED
  BY <1>3, <1>5, <1>7 DEF IInv

LEMMA SendIInv == ASSUME IInv, Send PROVE IInv'
<1>1. UNCHANGED <<dspVars, busVars, next, lagged, skipped, mainVars, port, acks, workletVars>>
  BY DEF Send
<1>2. PacketizerInv /\ WayInv /\ QueueInv /\ OrderInv
  BY DEF IInv
<1>3. PacketizerInv' /\ QueueInv'
  BY <1>1, <1>2 DEF PacketizerInv, QueueInv, dspVars, workletVars
<1>4. /\ socket \in Seq(Packets) /\ Len(socket) < SocketLimit /\ frame \in Packets
      /\ socket' = Append(socket, frame) /\ frame' = NoFrame /\ task' = "recv"
  BY <1>2 DEF WayInv, Send
<1>5. /\ socket' \in Seq(Packets) /\ Len(socket') = Len(socket) + 1
      /\ Elements(socket') \subseteq Elements(socket) \cup {frame}
  BY <1>4, AppendProperties, ElementsFacts
<1>6. Len(socket') <= SocketLimit
  BY <1>4, <1>5, Sizes
<1>7. WayInv'
  BY <1>1, <1>2, <1>4, <1>5, <1>6 DEF WayInv, busVars, mainVars
<1>8. Carried' \subseteq Carried
  <2>1. Carried' = (Elements(ring) \cup Elements(socket') \cup {m.frame : m \in Elements(port)}
                       \cup {NoFrame}) \ {NoFrame}
    BY <1>1, <1>4 DEF Carried, Elements, busVars
  <2>2. QED
    BY <1>5, <2>1 DEF Carried
<1>9. OrderInv'
  BY <1>1, <1>2, <1>8, KeepsOrder DEF dspVars, workletVars
<1>10. QED
  BY <1>3, <1>7, <1>9 DEF IInv

LEMMA LeaveIInv == ASSUME IInv, Leave PROVE IInv'
<1>1. /\ UNCHANGED <<dspVars, busVars, lagged, skipped, socket, mainVars, port, acks,
                     workletVars>>
      /\ task' = "none" /\ frame' = NoFrame /\ next' = 0
  BY DEF Leave
<1>2. PacketizerInv /\ WayInv /\ QueueInv /\ OrderInv
  BY DEF IInv
<1>3. PacketizerInv' /\ QueueInv'
  BY <1>1, <1>2 DEF PacketizerInv, QueueInv, dspVars, workletVars
<1>4. WayInv'
  <2>1. 0 \in 0..sent
    BY <1>2 DEF WayInv
  <2>2. QED
    BY <1>1, <1>2, <2>1 DEF WayInv, busVars, mainVars
<1>5. Carried' \subseteq Carried
  BY <1>1 DEF Carried, Elements, busVars
<1>6. OrderInv'
  BY <1>1, <1>2, <1>5, KeepsOrder DEF dspVars, workletVars
<1>7. QED
  BY <1>3, <1>4, <1>6 DEF IInv

----------------------------------------------------------------------------
(* The browser's main thread. *)

\* A worklet or a receiver begins with an empty queue.
LEMMA NewQueueInv ==
    ASSUME known' \in BOOLEAN, queue' = Queue!New, stored' = 0, gaps' = 0, heard' = 0
    PROVE  QueueInv' /\ queue'.epoch = 0
<1>1. IsQueue(queue', 0) /\ queue'.discontinuities = 0
  BY NewIsQueue
<1>2. queue'.epoch = 0
  BY DEF Queue!New, Queue!NoEpoch
<1>3. gaps' \in Nat /\ gaps' <= queue'.discontinuities /\ heard' \in Nat
  BY <1>1
<1>4. IsQueue(queue', stored')
  BY <1>1
<1>5. QED
  BY <1>2, <1>3, <1>4 DEF QueueInv, IsQueue

LEMMA StartIInv == ASSUME IInv, Start PROVE IInv'
<1>1. /\ UNCHANGED <<dspVars, busVars, frame, lagged, skipped, active, effect>>
      /\ task = "none" /\ playing' = TRUE /\ task' = "recv" /\ next' = sent /\ socket' = <<>>
      /\ port' = <<Configure(active)>>
      /\ known' = FALSE /\ queue' = Queue!New /\ stored' = 0 /\ gaps' = 0 /\ heard' = 0
  BY DEF Start
<1>2. PacketizerInv /\ WayInv /\ QueueInv /\ OrderInv
  BY DEF IInv
<1>3. PacketizerInv' /\ QueueInv' /\ queue'.epoch = 0
  BY <1>1, <1>2, NewQueueInv DEF PacketizerInv, dspVars
<1>4. Configure(active) \in Messages /\ port' \in Seq(Messages)
  BY <1>1, <1>2 DEF WayInv, Messages
<1>5. WayInv'
  <2>1. <<>> \in Seq(Packets) /\ Len(<<>>) <= SocketLimit /\ sent \in 0..sent
    BY <1>2, Sizes DEF WayInv
  <2>2. QED
    BY <1>1, <1>2, <1>4, <2>1 DEF WayInv, busVars
<1>6. Carried' \subseteq Carried
  <2>1. \A m \in Elements(port') : m.frame = NoFrame
    BY <1>1 DEF Elements, Configure
  <2>2. Elements(socket') = {}
    BY <1>1 DEF Elements
  <2>3. Elements(ring') = Elements(ring) /\ frame' = frame
    BY <1>1 DEF busVars
  <2>4. QED
    BY <2>1, <2>2, <2>3 DEF Carried
<1>7. OrderInv'
  BY <1>1, <1>2, <1>3, <1>6, KeepsOrder DEF dspVars
<1>8. QED
  BY <1>3, <1>5, <1>7 DEF IInv

LEMMA StopIInv == ASSUME IInv, Stop PROVE IInv'
<1>1. /\ UNCHANGED <<dspVars, busVars, taskVars, active, effect, queue, stored, gaps, heard>>
      /\ playing' = FALSE /\ socket' = <<>> /\ port' = <<>> /\ known' = FALSE
  BY DEF Stop
<1>2. PacketizerInv /\ WayInv /\ QueueInv /\ OrderInv
  BY DEF IInv
<1>3. PacketizerInv' /\ QueueInv'
  BY <1>1, <1>2 DEF PacketizerInv, QueueInv, dspVars
<1>4. WayInv'
  <2>1. <<>> \in Seq(Packets) /\ Len(<<>>) <= SocketLimit /\ <<>> \in Seq(Messages)
    BY Sizes
  <2>2. QED
    BY <1>1, <1>2, <2>1 DEF WayInv, busVars, taskVars
<1>5. Carried' \subseteq Carried
  <2>1. Elements(port') = {} /\ Elements(socket') = {}
    BY <1>1 DEF Elements
  <2>2. Elements(ring') = Elements(ring) /\ frame' = frame
    BY <1>1 DEF busVars, taskVars
  <2>3. QED
    BY <2>1, <2>2 DEF Carried
<1>6. OrderInv'
  BY <1>1, <1>2, <1>5, KeepsOrder DEF dspVars
<1>7. QED
  BY <1>3, <1>4, <1>6 DEF IInv

LEMMA RenderIInv == ASSUME IInv, Render PROVE IInv'
<1>1. /\ UNCHANGED <<dspVars, busVars, taskVars, socket, playing, port, workletVars>>
      /\ active' = ~active /\ effect' = TRUE
  BY DEF Render
<1>2. PacketizerInv /\ WayInv /\ QueueInv /\ OrderInv
  BY DEF IInv
<1>3. PacketizerInv' /\ QueueInv'
  BY <1>1, <1>2 DEF PacketizerInv, QueueInv, dspVars, workletVars
<1>4. WayInv'
  BY <1>1, <1>2 DEF WayInv, busVars, taskVars
<1>5. Carried' = Carried
  BY <1>1 DEF Carried, Elements, busVars, taskVars
<1>6. OrderInv'
  BY <1>1, <1>2, <1>5, KeepsOrder DEF dspVars, workletVars
<1>7. QED
  BY <1>3, <1>4, <1>6 DEF IInv

LEMMA EffectIInv == ASSUME IInv, Effect PROVE IInv'
<1>1. /\ UNCHANGED <<dspVars, busVars, taskVars, socket, playing, active, workletVars>>
      /\ effect' = FALSE
      /\ port' = port \/ port' = Append(port, Configure(active))
  BY DEF Effect
<1>2. PacketizerInv /\ WayInv /\ QueueInv /\ OrderInv
  BY DEF IInv
<1>3. PacketizerInv' /\ QueueInv'
  BY <1>1, <1>2 DEF PacketizerInv, QueueInv, dspVars, workletVars
<1>4. /\ Configure(active) \in Messages /\ port \in Seq(Messages)
      /\ Configure(active).frame = NoFrame
  BY <1>2 DEF WayInv, Messages, Configure
<1>5. /\ port' \in Seq(Messages)
      /\ Elements(port') \subseteq Elements(port) \cup {Configure(active)}
  <2>1. Elements(Append(port, Configure(active))) \subseteq Elements(port) \cup {Configure(active)}
    BY <1>4, ElementsFacts
  <2>2. CASE port' = port
    BY <1>4, <2>2
  <2>3. CASE port' = Append(port, Configure(active))
    BY <1>4, <2>1, <2>3, AppendProperties
  <2>4. QED
    BY <1>1, <2>2, <2>3
<1>6. WayInv'
  BY <1>1, <1>2, <1>5 DEF WayInv, busVars, taskVars
<1>7. Carried' \subseteq Carried
  <2>1. /\ Elements(ring') = Elements(ring) /\ Elements(socket') = Elements(socket)
        /\ frame' = frame
    BY <1>1 DEF busVars, taskVars
  <2>2. QED
    BY <1>4, <1>5, <2>1 DEF Carried
<1>8. OrderInv'
  BY <1>1, <1>2, <1>7, KeepsOrder DEF dspVars, workletVars
<1>9. QED
  BY <1>3, <1>6, <1>8 DEF IInv

LEMMA OnMessageIInv == ASSUME IInv, OnMessage PROVE IInv'
<1>1. /\ UNCHANGED <<dspVars, busVars, taskVars, playing, active, effect, workletVars>>
      /\ socket # <<>> /\ socket' = Tail(socket)
      /\ port' = port \/ port' = Append(port, Pcm(Head(socket)))
  BY DEF OnMessage
<1>2. PacketizerInv /\ WayInv /\ QueueInv /\ OrderInv
  BY DEF IInv
<1>3. PacketizerInv' /\ QueueInv'
  BY <1>1, <1>2 DEF PacketizerInv, QueueInv, dspVars, workletVars
<1>4. /\ socket \in Seq(Packets) /\ port \in Seq(Messages)
      /\ Head(socket) \in Elements(socket) /\ Head(socket) \in Packets
      /\ Elements(socket') \subseteq Elements(socket)
      /\ socket' \in Seq(Packets) /\ Len(socket') = Len(socket) - 1
  <2>1. socket \in Seq(Packets) /\ port \in Seq(Messages)
    BY <1>2 DEF WayInv
  <2>2. QED
    BY <1>1, <2>1, ElementsFacts, HeadTailProperties
<1>5. Pcm(Head(socket)) \in Messages /\ Pcm(Head(socket)).frame = Head(socket)
  BY <1>4 DEF Messages, Pcm
<1>6. /\ port' \in Seq(Messages)
      /\ Elements(port') \subseteq Elements(port) \cup {Pcm(Head(socket))}
  <2>1. Elements(Append(port, Pcm(Head(socket)))) \subseteq Elements(port) \cup {Pcm(Head(socket))}
    BY <1>4, <1>5, ElementsFacts
  <2>2. CASE port' = port
    BY <1>4, <2>2
  <2>3. CASE port' = Append(port, Pcm(Head(socket)))
    BY <1>4, <1>5, <2>1, <2>3, AppendProperties
  <2>4. QED
    BY <1>1, <2>2, <2>3
<1>7. WayInv'
  <2>1. Len(socket') <= SocketLimit
    BY <1>2, <1>4, Sizes DEF WayInv
  <2>2. QED
    BY <1>1, <1>2, <1>4, <1>6, <2>1 DEF WayInv, busVars, taskVars
<1>8. Carried' \subseteq Carried
  <2>1. Elements(ring') = Elements(ring) /\ frame' = frame
    BY <1>1 DEF busVars, taskVars
  <2>2. QED
    BY <1>4, <1>5, <1>6, <2>1 DEF Carried
<1>9. OrderInv'
  BY <1>1, <1>2, <1>8, KeepsOrder DEF dspVars, workletVars
<1>10. QED
  BY <1>3, <1>7, <1>9 DEF IInv

LEMMA OnAckIInv == ASSUME IInv, OnAck PROVE IInv'
<1>1. UNCHANGED <<dspVars, busVars, taskVars, socket, playing, active, effect, port,
                  workletVars>>
  BY DEF OnAck
<1>2. PacketizerInv /\ WayInv /\ QueueInv /\ OrderInv
  BY DEF IInv
<1>3. PacketizerInv' /\ QueueInv' /\ WayInv'
  BY <1>1, <1>2 DEF PacketizerInv, QueueInv, WayInv, dspVars, busVars, taskVars, workletVars
<1>4. Carried' = Carried
  BY <1>1 DEF Carried, Elements, busVars, taskVars
<1>5. OrderInv'
  BY <1>1, <1>2, <1>4, KeepsOrder DEF dspVars, workletVars
<1>6. QED
  BY <1>3, <1>5 DEF IInv

----------------------------------------------------------------------------
(* The worklet. *)

\* A message is taken from the port.
LEMMA TakeFacts ==
    ASSUME PacketizerInv, WayInv, port # <<>>, port' = Tail(port),
           UNCHANGED <<dspVars, busVars, taskVars, socket, mainVars>>
    PROVE  /\ PacketizerInv' /\ WayInv' /\ Carried' \subseteq Carried
           /\ Head(port) \in Messages
           /\ Head(port).frame \in Packets => Head(port).frame \in Carried
<1>1. port \in Seq(Messages)
  BY DEF WayInv
<1>2. /\ Head(port) \in Elements(port) /\ Elements(port') \subseteq Elements(port)
      /\ Head(port) \in Messages /\ port' \in Seq(Messages)
  BY <1>1, ElementsFacts, HeadTailProperties
<1>3. PacketizerInv' /\ WayInv'
  BY <1>2 DEF PacketizerInv, WayInv, dspVars, busVars, taskVars, mainVars
<1>4. Elements(ring') = Elements(ring) /\ Elements(socket') = Elements(socket) /\ frame' = frame
  BY DEF busVars, taskVars
<1>5. Carried' \subseteq Carried
  BY <1>2, <1>4 DEF Carried
<1>6. Head(port).frame \in Packets => Head(port).frame \in Carried
  BY <1>2, NoFrameFacts DEF Carried
<1>7. QED
  BY <1>2, <1>3, <1>5, <1>6

LEMMA ReconfigureIInv == ASSUME IInv, Reconfigure PROVE IInv'
<1>1. /\ UNCHANGED <<dspVars, busVars, taskVars, socket, mainVars>>
      /\ port # <<>> /\ port' = Tail(port) /\ Head(port).type = "configure"
      /\ known' = Head(port).on
      /\ \/ UNCHANGED <<queue, stored, gaps, heard>>
         \/ queue' = Queue!New /\ stored' = 0 /\ gaps' = 0 /\ heard' = 0
  BY DEF Reconfigure
<1>2. PacketizerInv /\ WayInv /\ QueueInv /\ OrderInv
  BY DEF IInv
<1>3. /\ PacketizerInv' /\ WayInv' /\ Carried' \subseteq Carried
      /\ Head(port) \in Messages
  BY <1>1, <1>2, TakeFacts
<1>4. known' \in BOOLEAN
  BY <1>1, <1>3, MessageFacts
<1>5. QueueInv' /\ (queue'.epoch # 0 => UNCHANGED <<queue.epoch, queue.sequence, stored>>)
  <2>1. CASE UNCHANGED <<queue, stored, gaps, heard>>
    BY <1>2, <1>4, <2>1 DEF QueueInv
  <2>2. CASE queue' = Queue!New /\ stored' = 0 /\ gaps' = 0 /\ heard' = 0
    BY <1>4, <2>2, NewQueueInv
  <2>3. QED
    BY <1>1, <2>1, <2>2
<1>6. OrderInv'
  BY <1>1, <1>2, <1>3, <1>5, KeepsOrder DEF dspVars
<1>7. QED
  BY <1>3, <1>5, <1>6 DEF IInv

LEMMA OutputIInv ==
    ASSUME IInv, Output
    PROVE  IInv' /\ (heard # 0 /\ heard' # heard => heard' = heard + StepNum)
<1>1. UNCHANGED <<dspVars, busVars, taskVars, socket, mainVars, port, acks, known, stored, gaps>>
  BY DEF Output
<1>2. PacketizerInv /\ WayInv /\ QueueInv /\ OrderInv
  BY DEF IInv
<1>3. PacketizerInv' /\ WayInv' /\ Carried' = Carried
  BY <1>1, <1>2 DEF PacketizerInv, WayInv, Carried, Elements, dspVars, busVars, taskVars, mainVars
<1>4. IsQueue(queue, stored) /\ gaps \in Nat /\ gaps <= queue.discontinuities /\ heard \in Nat
  BY <1>2 DEF QueueInv
<1>5. /\ QueueInv' /\ UNCHANGED <<queue.epoch, queue.sequence, stored>>
      /\ heard # 0 /\ heard' # heard => heard' = heard + StepNum
  <2>1. CASE /\ Queue!Sounds(queue) /\ queue' = Queue!Advance(queue)
             /\ heard' = queue.data[1] * StepDen + queue.fraction
    <3>1. /\ IsQueue(queue', stored) /\ queue.epoch # 0 /\ queue'.epoch = queue.epoch
          /\ queue'.sequence = queue.sequence
          /\ queue'.discontinuities = queue.discontinuities
          /\ queue.data[1] \in Nat
          /\ queue'.data[1] * StepDen + queue'.fraction
                 = queue.data[1] * StepDen + queue.fraction + StepNum
      BY <1>4, <2>1, AdvanceFacts
    <3>2. queue.fraction \in Nat /\ queue.data[1] * StepDen \in Nat
      <4>1. queue.fraction \in 0..(StepDen - 1)
        BY <1>4 DEF IsQueue, QueueRecord
      <4>2. StepDen \in Nat
        BY Sizes
      <4>3. QED
        BY <3>1, <4>1, <4>2
    <3>3. heard' \in Nat
      BY <2>1, <3>2
    <3>4. queue'.data[1] * StepDen + queue'.fraction = heard' + StepNum
      BY <2>1, <3>1
    <3>5. QueueInv'
      BY <1>1, <1>2, <1>4, <3>1, <3>3, <3>4 DEF QueueInv
    <3>6. heard # 0 => heard' = heard + StepNum
      BY <1>2, <2>1 DEF QueueInv
    <3>7. QED
      BY <1>1, <3>1, <3>5, <3>6
  <2>2. CASE queue' = Queue!Starve(queue) /\ UNCHANGED heard
    <3>1. queue \in QueueRecord /\ queue.underruns + 1 \in Nat
      BY <1>4 DEF IsQueue, QueueRecord
    <3>2. /\ queue' \in QueueRecord /\ queue'.data = queue.data
          /\ queue'.fraction = queue.fraction
          /\ queue'.epoch = queue.epoch /\ queue'.sequence = queue.sequence
          /\ queue'.discontinuities = queue.discontinuities
      BY <2>2, <3>1 DEF Queue!Starve, QueueRecord
    <3>3. IsQueue(queue', stored)
      BY <1>4, <3>2 DEF IsQueue
    <3>4. QueueInv'
      BY <1>1, <1>2, <2>2, <3>2, <3>3 DEF QueueInv
    <3>5. QED
      BY <1>1, <2>2, <3>2, <3>4
  <2>3. QED
    BY <2>1, <2>2 DEF Output
<1>6. OrderInv'
  BY <1>1, <1>2, <1>3, <1>5, KeepsOrder DEF dspVars
<1>7. QED
  BY <1>3, <1>5, <1>6 DEF IInv

\* What Store makes of a queue when a packet that is on its way arrives.
LEMMA StoreFacts ==
    ASSUME QueueInv, UNCHANGED known, NEW f \in Packets, Store(f),
           queue.epoch # 0 /\ f.epoch = queue.epoch /\ f.sequence = queue.sequence + 1
               => f.samples[1] = stored + 1
    PROVE  /\ QueueInv' /\ heard' \in {0, heard}
           /\ \/ UNCHANGED <<queue, stored>>
              \/ /\ queue'.epoch = f.epoch /\ queue'.sequence = f.sequence
                 /\ stored' = End(f)
<1>1. CASE ~known
  <2>1. UNCHANGED <<queue, stored, gaps, heard>>
    BY <1>1 DEF Store
  <2>2. QED
    BY <2>1 DEF QueueInv
<1>2. CASE known
  <2> DEFINE pushed == Queue!Push(queue, f)
  <2>1. /\ IsQueue(queue, stored) /\ gaps \in Nat /\ gaps <= queue.discontinuities
        /\ heard \in Nat /\ queue.discontinuities \in Nat /\ stored \in Nat
        /\ (queue.epoch = 0) = (stored = 0)
    BY DEF QueueInv, IsQueue, QueueRecord
  <2>2. /\ IsQueue(pushed, End(f)) /\ pushed.epoch = f.epoch /\ pushed.sequence = f.sequence
        /\ pushed.discontinuities = queue.discontinuities
                                       + IF Queue!Continues(queue, f) THEN 0 ELSE 1
        /\ queue.epoch # 0
             /\ pushed.overruns + pushed.discontinuities
                    = queue.overruns + queue.discontinuities
           => pushed.data[1] = queue.data[1] /\ pushed.fraction = queue.fraction
    BY <2>1, PushFacts
  <2>3. /\ queue' = pushed /\ stored' = f.samples[Len(f.samples)]
        /\ gaps' = IF stored \in {0, f.samples[1] - 1} THEN gaps ELSE gaps + 1
        /\ \/ heard' = 0
           \/ /\ heard' = heard
              /\ pushed.overruns + pushed.discontinuities
                     = queue.overruns + queue.discontinuities
    BY <1>2 DEF Store
  <2> HIDE DEF pushed
  <2>4. stored' = End(f) /\ f.epoch # 0 /\ f.samples[1] \in Nat
    BY <2>3, PacketFacts
  <2>5. gaps' \in Nat /\ gaps' <= pushed.discontinuities
    <3>1. CASE stored \in {0, f.samples[1] - 1}
      BY <2>1, <2>2, <2>3, <3>1
    <3>2. CASE stored \notin {0, f.samples[1] - 1}
      <4>1. queue.epoch # 0
        BY <2>1, <3>2
      <4>2. ~Queue!Continues(queue, f)
        BY <2>1, <2>4, <3>2, <4>1 DEF Queue!Continues, Queue!NoEpoch
      <4>3. QED
        BY <2>1, <2>2, <2>3, <3>2, <4>2
    <3>3. QED
      BY <3>1, <3>2
  <2>6. heard' # 0 => pushed.data[1] * StepDen + pushed.fraction = heard' + StepNum
    BY <2>2, <2>3 DEF QueueInv
  <2>7. heard' \in Nat /\ heard' \in {0, heard}
    BY <2>1, <2>3
  <2>8. known' \in BOOLEAN /\ IsQueue(queue', stored')
    BY <2>2, <2>3, <2>4 DEF QueueInv
  <2>9. QueueInv'
    BY <2>2, <2>3, <2>4, <2>5, <2>6, <2>7, <2>8 DEF QueueInv
  <2>10. QED
    BY <2>2, <2>3, <2>4, <2>7, <2>9
<1>3. QED
  BY <1>1, <1>2 DEF QueueInv

LEMMA ReceiveIInv == ASSUME IInv, Receive PROVE IInv' /\ heard' \in {0, heard}
<1>1. /\ UNCHANGED <<dspVars, busVars, taskVars, socket, mainVars, known>>
      /\ port # <<>> /\ port' = Tail(port) /\ Head(port).type = "pcm"
      /\ Store(Head(port).frame)
  BY DEF Receive
<1>2. PacketizerInv /\ WayInv /\ QueueInv /\ OrderInv
  BY DEF IInv
<1>3. /\ PacketizerInv' /\ WayInv' /\ Carried' \subseteq Carried
      /\ Head(port).frame \in Packets /\ Head(port).frame \in Carried
  BY <1>1, <1>2, TakeFacts, MessageFacts
<1>4. PICK f \in Packets : f = Head(port).frame
  BY <1>3
<1>5. /\ f \in Carried /\ Store(f) /\ Precedes(f.epoch, f.sequence, End(f))
  BY <1>1, <1>2, <1>3, <1>4 DEF OrderInv
<1>6. queue.epoch # 0 /\ f.epoch = queue.epoch /\ f.sequence = queue.sequence + 1
          => f.samples[1] = stored + 1
  BY <1>2, <1>5 DEF OrderInv, Precedes
<1>7. /\ QueueInv' /\ heard' \in {0, heard}
      /\ \/ UNCHANGED <<queue, stored>>
         \/ /\ queue'.epoch = f.epoch /\ queue'.sequence = f.sequence
            /\ stored' = End(f)
  BY <1>1, <1>2, <1>5, <1>6, StoreFacts
<1>8. ASSUME NEW e, NEW n, NEW end, Precedes(e, n, end) PROVE Precedes(e, n, end)'
  BY <1>1, <1>3, <1>8 DEF Precedes, dspVars
<1>9. \A g \in Carried' : Precedes(g.epoch, g.sequence, End(g))'
  BY <1>2, <1>3, <1>8 DEF OrderInv
<1>10. ASSUME queue'.epoch # 0 PROVE Precedes(queue.epoch, queue.sequence, stored)'
  <2>1. CASE UNCHANGED <<queue, stored>>
    <3>1. Precedes(queue.epoch, queue.sequence, stored)
      BY <1>2, <1>10, <2>1 DEF OrderInv
    <3>2. QED
      BY <1>1, <1>3, <2>1, <3>1 DEF Precedes, dspVars
  <2>2. CASE queue'.epoch = f.epoch /\ queue'.sequence = f.sequence /\ stored' = End(f)
    <3>1. Precedes(f.epoch, f.sequence, End(f))'
      BY <1>5, <1>8
    <3>2. QED
      BY <2>2, <3>1 DEF Precedes
  <2>3. QED
    BY <1>7, <2>1, <2>2
<1>11. QED
  BY <1>3, <1>7, <1>9, <1>10 DEF IInv, OrderInv

LEMMA StutterIInv == ASSUME IInv, UNCHANGED vars PROVE IInv'
<1>1. UNCHANGED <<dspVars, busVars, taskVars, socket, mainVars, port, acks, workletVars>>
  BY DEF vars
<1>2. PacketizerInv /\ WayInv /\ QueueInv /\ OrderInv
  BY DEF IInv
<1>3. /\ PacketizerInv' /\ QueueInv' /\ WayInv' /\ Carried' = Carried
  BY <1>1, <1>2 DEF PacketizerInv, QueueInv, WayInv, Carried, Elements, dspVars, busVars,
     taskVars, mainVars, workletVars
<1>4. OrderInv'
  BY <1>1, <1>2, <1>3, KeepsOrder DEF dspVars, workletVars
<1>5. QED
  BY <1>3, <1>4 DEF IInv

----------------------------------------------------------------------------
(* The theorems. *)

LEMMA NextIInv == ASSUME IInv, [Next]_vars PROVE IInv'
<1>1. CASE Dsp
  BY <1>1, PushSampleIInv, RebuildIInv DEF Dsp
<1>2. CASE Task
  BY <1>2, RecvIInv, LagIInv, SendIInv, LeaveIInv DEF Task
<1>3. CASE Main
  BY <1>3, StartIInv, StopIInv, RenderIInv, EffectIInv, OnMessageIInv, OnAckIInv DEF Main
<1>4. CASE Worklet
  BY <1>4, ReconfigureIInv, ReceiveIInv, OutputIInv DEF Worklet
<1>5. CASE UNCHANGED vars
  BY <1>5, StutterIInv
<1>6. QED
  BY <1>1, <1>2, <1>3, <1>4, <1>5 DEF Next

LEMMA Invariance == Spec => []IInv
  BY InitIInv, NextIInv, PTL DEF Spec

\* Every variable of the way holds a value of its type, and the ring of the bus, the queue
\* of the worklet and the partly filled packet never outgrow their fixed storage.
THEOREM TypeCorrect == Spec => []TypeOK
<1>1. ASSUME IInv PROVE TypeOK
  <2>1. PacketizerInv /\ WayInv /\ IsQueue(queue, stored) /\ known \in BOOLEAN
    BY <1>1 DEF IInv, QueueInv
  <2>2. \A i \in DOMAIN ring : ring[i] \in Frame
    BY <2>1, ElementOfSeq DEF WayInv, Packets
  <2>3. frame \in Frame \cup {NoFrame}
    BY <2>1 DEF WayInv, Packets
  <2>4. Len(queue.data) <= Capacity /\ queue.fraction \in 0..(StepDen - 1)
    BY <2>1 DEF IsQueue, QueueRecord
  <2>5. QED
    BY <2>1, <2>2, <2>3, <2>4 DEF TypeOK, PacketizerInv, WayInv
<1>2. QED
  BY <1>1, Invariance, PTL

\* Wherever packets are dropped on the way, by the ring, a stalled socket, the limit on
\* unacknowledged packets or a queue that is full, and however often the channel is rebuilt
\* or the player started again: the worklet's queue never joins sound that was not joined
\* in the receiver's output, and every loss inside a queue's life is one of its counted
\* discontinuities.
THEOREM SoundTheorem == Spec => []SoundIsWhole
<1>1. ASSUME IInv PROVE SoundIsWhole
  <2>1. /\ IsQueue(queue, stored) /\ gaps <= queue.discontinuities
    BY <1>1 DEF IInv, QueueInv
  <2>2. /\ Len(queue.data) \in Nat /\ stored \in Nat
        /\ \A i \in 1..Len(queue.data) : queue.data[i] = stored - Len(queue.data) + i
    BY <2>1 DEF IsQueue, QueueRecord
  <2>3. ASSUME NEW i \in 1..(Len(queue.data) - 1) PROVE queue.data[i + 1] = queue.data[i] + 1
    <3>1. i \in 1..Len(queue.data) /\ i + 1 \in 1..Len(queue.data)
      BY <2>2
    <3>2. /\ queue.data[i] = stored - Len(queue.data) + i
          /\ queue.data[i + 1] = stored - Len(queue.data) + (i + 1)
      BY <2>2, <3>1
    <3>3. QED
      BY <2>2, <3>1, <3>2
  <2>4. QED
    BY <2>1, <2>3 DEF SoundIsWhole, QueueIsUnbroken, GapsAreReported
<1>2. QED
  BY <1>1, Invariance, PTL

\* Only a clear interrupts the constant rate: the source time of each output is StepNum
\* later than that of the one before, across packet borders and underruns.
THEOREM RateTheorem == Spec => PlaysAtRate
<1>1. ASSUME IInv, Next PROVE heard # 0 /\ heard' \notin {0, heard} => heard' = heard + StepNum
  <2>1. CASE Output
    BY <1>1, <2>1, OutputIInv
  <2>2. CASE Receive
    BY <1>1, <2>2, ReceiveIInv
  <2>3. CASE Reconfigure \/ Start
    BY <2>3 DEF Reconfigure, Start
  <2>4. CASE Dsp \/ Task \/ Stop \/ Render \/ Effect \/ OnMessage \/ OnAck
    <3>1. UNCHANGED heard
      BY <2>4 DEF Dsp, PushSample, Rebuild, Task, Recv, Lag, Send, Leave, Stop, Render,
         Effect, OnMessage, OnAck, workletVars
    <3>2. QED
      BY <3>1
  <2>5. QED
    BY <1>1, <2>1, <2>2, <2>3, <2>4 DEF Next, Main, Worklet
<1>2. ASSUME IInv, [Next]_vars
      PROVE  [heard # 0 /\ heard' \notin {0, heard} => heard' = heard + StepNum]_vars
  BY <1>1, <1>2
<1>3. QED
  BY <1>2, Invariance, PTL DEF Spec, PlaysAtRate
====
