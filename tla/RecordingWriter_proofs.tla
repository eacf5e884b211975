----------------------- MODULE RecordingWriter_proofs -----------------------
(***************************************************************************)
(* Proofs about RecordingWriter, for every pool, channel, counter width    *)
(* and number of blocks and setting changes.                               *)
(***************************************************************************)
EXTENDS RecordingWriter, SequenceTheorems, TLAPS

USE PoolAssumption, ChannelAssumption, ModulusAssumption, BoundAssumption
USE DEF Drop, OneLess, ChannelClosed, FinalSummary, Position

(* The counter wraps as a u64 does. *)
LEMMA WrapRange ==
    ASSUME NEW a \in Int PROVE a % Modulus \in 0..(Modulus - 1)
  OBVIOUS

LEMMA WrapFacts ==
    /\ \A a \in 0..(Modulus - 1) : a % Modulus = a
    /\ (-1) % Modulus = Modulus - 1
    /\ Modulus % Modulus = 0
  <1>2. \A a \in 0..(Modulus - 1) : a % Modulus = a
    OBVIOUS
  <1>3. (-1) % Modulus = Modulus - 1
    OBVIOUS
  <1>4. Modulus % Modulus = 0
    OBVIOUS
  <1> QED
    BY <1>2, <1>3, <1>4

----------------------------------------------------------------------------
LEMMA InitType == Init => TypeOK
  <1> SUFFICES ASSUME Init PROVE TypeOK
    OBVIOUS
  <1>1. cbBlock \in Block /\ wBlock \in Block
    BY DEF Init, StartWith, Block, NoBlock
  <1>2. captures \in Seq(Capture) /\ captures # <<>> /\ saved \in Seq(Capture)
    BY DEF Init, StartWith, Capture
  <1>3. summary \in Summary
    BY DEF Init, StartWith, Summary
  <1> QED
    BY <1>1, <1>2, <1>3, EmptySeq DEF Init, StartWith, TypeOK

LEMMA NextType == TypeOK /\ [Next]_vars => TypeOK'
  <1> SUFFICES ASSUME TypeOK, [Next]_vars PROVE TypeOK'
    OBVIOUS
  <1> USE DEF TypeOK, vars, cbVars, wVars, finVars, ctlVars, poolVars
  <1>1. CASE Offer
    <2>1. cbBlock' \in Block
      BY <1>1 DEF Offer, Block
    <2> QED
      BY <1>1, <2>1 DEF Offer
  <1>2. CASE DropAtPool
    BY <1>2 DEF DropAtPool
  <1>3. CASE TakeFree
    BY <1>3 DEF TakeFree
  <1>4. CASE EnterChannel
    BY <1>4 DEF EnterChannel
  <1>5. CASE TrySend
    <2>1. /\ queue' \in Seq(Block) /\ Len(queue') <= ChannelBlocks
          /\ dropped' \in Nat /\ cbPc' \in {"count", "giveback"}
      <3>1. CASE /\ Len(queue) < ChannelBlocks
                 /\ queue' = Append(queue, cbBlock)
                 /\ cbPc' = "count" /\ UNCHANGED dropped
        BY <3>1, AppendProperties, LenProperties
      <3>2. CASE cbPc' = "giveback" /\ dropped' = dropped + 1 /\ UNCHANGED queue
        BY <3>2
      <3> QED
        BY <1>5, <3>1, <3>2 DEF TrySend
    <2> QED
      BY <1>5, <2>1 DEF TrySend
  <1>6. CASE CountQueued
    <2>1. (queued + 1) % Modulus \in 0..(Modulus - 1)
      <3>1. queued + 1 \in Int
        OBVIOUS
      <3> QED
        BY <3>1, WrapRange
    <2> QED
      BY <1>6, <2>1 DEF CountQueued
  <1>7. CASE GiveBack
    BY <1>7 DEF GiveBack
  <1>8. CASE Recv
    <2>1. /\ queue' \in Seq(Block) /\ Len(queue') <= ChannelBlocks
          /\ wBlock' \in Block
      BY <1>8, HeadTailProperties, LenProperties DEF Recv
    <2> QED
      BY <1>8, <2>1 DEF Recv
  <1>9. CASE UncountQueued
    <2>1. (queued - 1) % Modulus \in 0..(Modulus - 1)
      <3>1. queued - 1 \in Int
        OBVIOUS
      <3> QED
        BY <3>1, WrapRange
    <2> QED
      BY <1>9, <2>1 DEF UncountQueued
  <1>10. CASE Write
    <2>1. /\ file' \in Seq(Block) /\ bytes' \in Nat
          /\ writeErrors' \in Nat /\ torn' \in Nat
      <3>1. CASE file' = Append(file, wBlock) /\ bytes' = bytes + 1
                 /\ UNCHANGED <<torn, writeErrors>>
        BY <3>1, AppendProperties, LenProperties
      <3>2. CASE writeErrors' = writeErrors + 1
                 /\ torn' \in {torn, torn + 1}
                 /\ UNCHANGED <<file, bytes>>
        BY <3>2
      <3> QED
        BY <1>10, <3>1, <3>2 DEF Write
    <2> QED
      BY <1>10, <2>1 DEF Write
  <1>11. CASE LockPool
    BY <1>11 DEF LockPool
  <1>12. CASE ReturnBlock
    BY <1>12 DEF ReturnBlock
  <1>13. CASE Report
    <2>1. summary' \in Summary
      BY <1>13 DEF Report, Summary
    <2> QED
      BY <1>13, <2>1 DEF Report
  <1>14. CASE FinalReport
    <2>1. summary' \in Summary
      BY <1>14 DEF FinalReport, Summary
    <2> QED
      BY <1>14, <2>1 DEF FinalReport
  <1>15. CASE Deactivate
    BY <1>15 DEF Deactivate
  <1>16. CASE CloseSender
    BY <1>16 DEF CloseSender, CallbackHoldsSender
  <1>17. CASE JoinWriter
    BY <1>17 DEF JoinWriter
  <1>18. CASE Retune
    BY <1>18 DEF Retune
  <1>19. CASE LoadPosition
    BY <1>19 DEF LoadPosition
  <1>20. CASE RecordState
    <2>1. [start |-> ctlStart, tune |-> ctlTune] \in Capture
      BY DEF Capture
    <2>2. captures' \in Seq(Capture) /\ captures' # <<>>
      <3>1. CASE captures[Len(captures)].tune = ctlTune
        BY <1>20, <3>1 DEF RecordState
      <3>2. CASE captures[Len(captures)].tune # ctlTune
        <4>1. captures' = Append(captures, [start |-> ctlStart, tune |-> ctlTune])
          BY <1>20, <3>2 DEF RecordState
        <4>2. QED
          BY <2>1, <4>1, AppendProperties
      <3> QED
        BY <3>1, <3>2
    <2>3. saved' \in Seq(Capture) /\ metaErrors' \in Nat
      <3>1. CASE saved' = captures' /\ UNCHANGED metaErrors
        BY <2>2, <3>1
      <3>2. CASE metaErrors' = metaErrors + 1 /\ UNCHANGED saved
        BY <3>2
      <3> QED
        BY <1>20, <3>1, <3>2 DEF RecordState
    <2> QED
      BY <1>20, <2>2, <2>3 DEF RecordState
  <1>21. CASE Stopped
    BY <1>21 DEF Stopped
  <1>22. CASE UNCHANGED vars
    BY <1>22
  <1> QED
    BY <1>1, <1>2, <1>3, <1>4, <1>5, <1>6, <1>7, <1>8, <1>9, <1>10, <1>11,
       <1>12, <1>13, <1>14, <1>15, <1>16, <1>17, <1>18, <1>19, <1>20, <1>21,
       <1>22 DEF Next, Callback, Writer, Finish, Control

(* Every value of every variable has its type; the channel and the counter *)
(* stay within their bounds.                                               *)
THEOREM TypeCorrect == Spec => []TypeOK
  <1>1. TypeOK /\ [Next]_vars => TypeOK'
    BY NextType
  <1> QED
    BY InitType, <1>1, PTL DEF Spec

----------------------------------------------------------------------------
(* The phases of the four threads fit together: the callback holds the     *)
(* sender only while there is one, the writer ends after the sender is     *)
(* gone with the channel drained, and finish returns after the writer.     *)
Phases ==
    /\ CallbackHoldsSender => SenderOpen
    /\ wPc = "done" => ~SenderOpen /\ queue = <<>>
    /\ finPc = "returned" => wPc = "done"
    /\ result # "none" => finPc = "returned"
    /\ ctlPc # "idle" => Active

LEMMA InitPhases == Init => Phases
  BY DEF Init, StartWith, Phases, CallbackHoldsSender, SenderOpen, Active

LEMMA NextPhases == TypeOK /\ Phases /\ [Next]_vars => Phases'
  <1> SUFFICES ASSUME TypeOK, Phases, [Next]_vars PROVE Phases'
    OBVIOUS
  <1> USE DEF Phases, CallbackHoldsSender, SenderOpen, Active,
              vars, cbVars, wVars, finVars, ctlVars, poolVars
  <1>1. CASE Offer
    BY <1>1 DEF Offer
  <1>2. CASE DropAtPool
    BY <1>2 DEF DropAtPool
  <1>3. CASE TakeFree
    BY <1>3 DEF TakeFree
  <1>4. CASE EnterChannel
    BY <1>4 DEF EnterChannel
  <1>5. CASE TrySend
    BY <1>5 DEF TrySend
  <1>6. CASE CountQueued
    BY <1>6 DEF CountQueued
  <1>7. CASE GiveBack
    BY <1>7 DEF GiveBack
  <1>8. CASE Recv
    BY <1>8 DEF Recv
  <1>9. CASE UncountQueued
    BY <1>9 DEF UncountQueued
  <1>10. CASE Write
    BY <1>10 DEF Write
  <1>11. CASE LockPool
    BY <1>11 DEF LockPool
  <1>12. CASE ReturnBlock
    BY <1>12 DEF ReturnBlock
  <1>13. CASE Report
    BY <1>13 DEF Report
  <1>14. CASE FinalReport
    BY <1>14 DEF FinalReport
  <1>15. CASE Deactivate
    BY <1>15 DEF Deactivate
  <1>16. CASE CloseSender
    BY <1>16 DEF CloseSender
  <1>17. CASE JoinWriter
    BY <1>17 DEF JoinWriter
  <1>18. CASE Retune
    BY <1>18 DEF Retune
  <1>19. CASE LoadPosition
    BY <1>19 DEF LoadPosition
  <1>20. CASE RecordState
    BY <1>20 DEF RecordState
  <1>21. CASE Stopped
    BY <1>21 DEF Stopped
  <1>22. CASE UNCHANGED vars
    BY <1>22
  <1> QED
    BY <1>1, <1>2, <1>3, <1>4, <1>5, <1>6, <1>7, <1>8, <1>9, <1>10, <1>11,
       <1>12, <1>13, <1>14, <1>15, <1>16, <1>17, <1>18, <1>19, <1>20, <1>21,
       <1>22 DEF Next, Callback, Writer, Finish, Control

(* Phases holds throughout. *)
LEMMA AlwaysPhases == Spec => []Phases
  <1>1. TypeOK /\ Phases /\ [Next]_vars => Phases'
    BY NextPhases
  <1> QED
    BY InitPhases, <1>1, TypeCorrect, PTL DEF Spec

(* The writer exits only after the sender is gone, so push never sees a    *)
(* disconnected channel.                                                   *)
THEOREM WriterOutlives == Spec => []WriterOutlivesSender
  <1>1. Phases => WriterOutlivesSender
    BY DEF Phases, WriterOutlivesSender
  <1> QED
    BY <1>1, AlwaysPhases, PTL

(* Once finish has returned, the data and metadata files never change.     *)
THEOREM FrozenTheorem == Spec => FrozenAfterReturn
  <1>1. Phases /\ [Next]_vars
           => [result # "none" => UNCHANGED <<file, torn, saved>>]_vars
    <2> SUFFICES ASSUME Phases, Next, result # "none"
                 PROVE  UNCHANGED <<file, torn, saved>>
      OBVIOUS
    <2>1. wPc = "done" /\ ctlPc = "idle" /\ finPc = "returned"
      BY DEF Phases, Active
    <2> QED
      BY <2>1 DEF Next, Callback, Writer, Finish, Control, Offer, DropAtPool,
         TakeFree, EnterChannel, TrySend, CountQueued, GiveBack, Recv,
         UncountQueued, Write, LockPool, ReturnBlock, Report, FinalReport,
         Deactivate, CloseSender, JoinWriter, Retune, LoadPosition,
         RecordState, Stopped, vars, wVars, ctlVars
  <1> QED
    BY <1>1, AlwaysPhases, PTL DEF Spec, FrozenAfterReturn

----------------------------------------------------------------------------
(* Blocks and buffers are neither duplicated nor lost.  The push that      *)
(* finds the sender taken costs one buffer, and no push follows it.        *)
Counts ==
    /\ Accounted
    /\ torn <= writeErrors /\ bytes = Len(file)
    /\ \/ free + Borrowed = PoolBlocks
       \/ /\ free + Borrowed = PoolBlocks - 1
          /\ ~SenderOpen /\ cbPc = "idle"

LEMMA InitCounts == Init => Counts
  BY EmptySeq DEF Init, StartWith, Counts, Accounted, InFlight, Deciding, Unwritten,
                  Borrowed, One

LEMMA NextCounts == TypeOK /\ Phases /\ Counts /\ [Next]_vars => Counts'
  <1> SUFFICES ASSUME TypeOK, Phases, Counts, [Next]_vars PROVE Counts'
    OBVIOUS
  <1>0. /\ Len(queue) \in Nat /\ Len(file) \in Nat
        /\ Append(queue, cbBlock) \in Seq(Block)
        /\ Len(Append(queue, cbBlock)) = Len(queue) + 1
        /\ Len(Append(file, wBlock)) = Len(file) + 1
        /\ queue # <<>> => Len(Tail(queue)) = Len(queue) - 1
        /\ free \in Nat /\ dropped \in Nat /\ writeErrors \in Nat
        /\ bytes \in Nat /\ offered \in Nat /\ torn \in Nat
        /\ Deciding \in 0..1 /\ Unwritten \in 0..1 /\ Borrowed \in Nat
    <2>1. queue \in Seq(Block) /\ file \in Seq(Block)
          /\ cbBlock \in Block /\ wBlock \in Block
      BY DEF TypeOK
    <2>2. /\ Append(queue, cbBlock) \in Seq(Block)
          /\ Len(Append(queue, cbBlock)) = Len(queue) + 1
          /\ Len(Append(file, wBlock)) = Len(file) + 1
          /\ Len(queue) \in Nat /\ Len(file) \in Nat
      BY <2>1, AppendProperties, LenProperties
    <2>3. queue # <<>> => Len(Tail(queue)) = Len(queue) - 1
      BY <2>1, HeadTailProperties, LenProperties
    <2>4. /\ free \in Nat /\ dropped \in Nat /\ writeErrors \in Nat
          /\ bytes \in Nat /\ offered \in Nat /\ torn \in Nat
      BY DEF TypeOK
    <2>5. /\ Deciding \in 0..1 /\ Unwritten \in 0..1
          /\ Borrowed \in Nat
      <3>1. Deciding \in 0..1
        BY DEF Deciding, One
      <3>2. Unwritten \in 0..1
        BY DEF Unwritten, One
      <3>3. Borrowed \in Nat
        <4>1. /\ One(cbPc \in {"enter", "send", "giveback"}) \in Nat
              /\ One(wPc \in {"sub", "write", "lock", "free"}) \in Nat
          BY DEF One
        <4> QED
          BY <2>2, <4>1 DEF Borrowed
      <3> QED
        BY <3>1, <3>2, <3>3
    <2> QED
      BY <2>2, <2>3, <2>4, <2>5
  <1> USE DEF vars, cbVars, wVars, finVars, ctlVars, poolVars
  <1>1. CASE Offer
    <2>1. Deciding = 0 /\ Deciding' = 1 /\ Unwritten' = Unwritten
          /\ Borrowed' = Borrowed
      BY <1>0, <1>1 DEF Offer, Deciding, Unwritten, Borrowed, One
    <2> QED
      BY <1>0, <1>1, <2>1 DEF Offer, Counts, Accounted, InFlight, SenderOpen, Active
  <1>2. CASE DropAtPool
    <2>1. Deciding = 1 /\ Deciding' = 0 /\ Unwritten' = Unwritten
          /\ Borrowed' = Borrowed
      BY <1>0, <1>2 DEF DropAtPool, Deciding, Unwritten, Borrowed, One
    <2> QED
      BY <1>0, <1>2, <2>1 DEF DropAtPool, Counts, Accounted, InFlight, SenderOpen, Active
  <1>3. CASE TakeFree
    <2>1. Deciding' = Deciding /\ Unwritten' = Unwritten
          /\ Borrowed' = Borrowed + 1
      BY <1>0, <1>3 DEF TakeFree, Deciding, Unwritten, Borrowed, One
    <2> QED
      BY <1>0, <1>3, <2>1 DEF TakeFree, Counts, Accounted, InFlight, SenderOpen, Active
  <1>4. CASE EnterChannel
    <2>1. CASE SenderOpen /\ cbPc' = "send" /\ UNCHANGED dropped
      <3>1. Deciding' = Deciding /\ Unwritten' = Unwritten
            /\ Borrowed' = Borrowed
        BY <1>4, <2>1 DEF EnterChannel, Deciding, Unwritten, Borrowed, One
      <3> QED
        BY <1>0, <1>4, <2>1, <3>1 DEF EnterChannel, Counts, Accounted, InFlight,
                                      SenderOpen
    <2>2. CASE ~SenderOpen /\ cbPc' = "idle" /\ dropped' = dropped + 1
      <3>1. Deciding = 1 /\ Deciding' = 0 /\ Unwritten' = Unwritten
            /\ Borrowed' = Borrowed - 1
        BY <1>0, <1>4, <2>2 DEF EnterChannel, Deciding, Unwritten, Borrowed, One
      <3> QED
        BY <1>0, <1>4, <2>2, <3>1 DEF EnterChannel, Counts, Accounted, InFlight,
                                      SenderOpen
    <2> QED
      BY <1>4, <2>1, <2>2 DEF EnterChannel
  <1>5. CASE TrySend
    <2>1. CASE queue' = Append(queue, cbBlock) /\ cbPc' = "count"
               /\ UNCHANGED dropped
      <3>1. Deciding = 1 /\ Deciding' = 0 /\ Unwritten' = Unwritten
            /\ Borrowed' = Borrowed /\ Len(queue') = Len(queue) + 1
        BY <1>0, <1>5, <2>1 DEF TrySend, Deciding, Unwritten, Borrowed, One
      <3> QED
        BY <1>0, <1>5, <2>1, <3>1 DEF TrySend, Counts, Accounted, InFlight,
                                      SenderOpen
    <2>2. CASE cbPc' = "giveback" /\ dropped' = dropped + 1 /\ UNCHANGED queue
      <3>1. Deciding = 1 /\ Deciding' = 0 /\ Unwritten' = Unwritten
            /\ Borrowed' = Borrowed
        BY <1>0, <1>5, <2>2 DEF TrySend, Deciding, Unwritten, Borrowed, One
      <3> QED
        BY <1>0, <1>5, <2>2, <3>1 DEF TrySend, Counts, Accounted, InFlight,
                                      SenderOpen
    <2> QED
      BY <1>5, <2>1, <2>2 DEF TrySend
  <1>6. CASE CountQueued
    <2>1. Deciding' = Deciding /\ Unwritten' = Unwritten
          /\ Borrowed' = Borrowed
      BY <1>0, <1>6 DEF CountQueued, Deciding, Unwritten, Borrowed, One
    <2> QED
      BY <1>0, <1>6, <2>1 DEF CountQueued, Counts, Accounted, InFlight, SenderOpen, Active
  <1>7. CASE GiveBack
    <2>1. Deciding' = Deciding /\ Unwritten' = Unwritten
          /\ Borrowed' = Borrowed - 1
      BY <1>0, <1>7 DEF GiveBack, Deciding, Unwritten, Borrowed, One
    <2> QED
      BY <1>0, <1>7, <2>1 DEF GiveBack, Counts, Accounted, InFlight, SenderOpen, Active
  <1>8. CASE Recv
    <2>1. Len(queue') = Len(queue) - 1 /\ Unwritten = 0 /\ Unwritten' = 1
          /\ Deciding' = Deciding /\ Borrowed' = Borrowed
      BY <1>0, <1>8 DEF Recv, Deciding, Unwritten, Borrowed, One
    <2> QED
      BY <1>0, <1>8, <2>1 DEF Recv, Counts, Accounted, InFlight, SenderOpen
  <1>9. CASE UncountQueued
    BY <1>0, <1>9 DEF UncountQueued, Counts, Accounted, InFlight, SenderOpen,
       Deciding, Unwritten, Borrowed, One
  <1>10. CASE Write
    <2>1. Unwritten = 1 /\ Unwritten' = 0 /\ Deciding' = Deciding
          /\ Borrowed' = Borrowed
      BY <1>0, <1>10 DEF Write, Deciding, Unwritten, Borrowed, One
    <2>2. CASE file' = Append(file, wBlock) /\ bytes' = bytes + 1
               /\ UNCHANGED <<torn, writeErrors>>
      BY <1>0, <1>10, <2>1, <2>2 DEF Write, Counts, Accounted, InFlight,
                                     SenderOpen
    <2>3. CASE torn' \in {torn, torn + 1} /\ writeErrors' = writeErrors + 1
               /\ UNCHANGED <<file, bytes>>
      BY <1>0, <1>10, <2>1, <2>3 DEF Write, Counts, Accounted, InFlight,
                                     SenderOpen
    <2> QED
      BY <1>10, <2>2, <2>3 DEF Write
  <1>11. CASE LockPool
    BY <1>0, <1>11 DEF LockPool, Counts, Accounted, InFlight, SenderOpen,
       Deciding, Unwritten, Borrowed, One
  <1>12. CASE ReturnBlock
    <2>1. Deciding' = Deciding /\ Unwritten' = Unwritten
          /\ Borrowed' = Borrowed - 1
      BY <1>0, <1>12 DEF ReturnBlock, Deciding, Unwritten, Borrowed, One
    <2> QED
      BY <1>0, <1>12, <2>1 DEF ReturnBlock, Counts, Accounted, InFlight, SenderOpen, Active
  <1>13. CASE Report
    BY <1>0, <1>13 DEF Report, Counts, Accounted, InFlight, SenderOpen,
       Deciding, Unwritten, Borrowed, One
  <1>14. CASE FinalReport
    BY <1>0, <1>14 DEF FinalReport, Counts, Accounted, InFlight, SenderOpen,
       Deciding, Unwritten, Borrowed, One
  <1>15. CASE Deactivate
    BY <1>0, <1>15 DEF Deactivate, Counts, Accounted, InFlight, SenderOpen,
       Deciding, Unwritten, Borrowed, One
  <1>16. CASE CloseSender
    BY <1>0, <1>16 DEF CloseSender, Counts, Accounted, InFlight, SenderOpen,
       Deciding, Unwritten, Borrowed, One
  <1>17. CASE JoinWriter
    BY <1>0, <1>17 DEF JoinWriter, Counts, Accounted, InFlight, SenderOpen,
       Deciding, Unwritten, Borrowed, One
  <1>18. CASE Retune
    BY <1>0, <1>18 DEF Retune, Counts, Accounted, InFlight, SenderOpen,
       Deciding, Unwritten, Borrowed, One
  <1>19. CASE LoadPosition
    BY <1>0, <1>19 DEF LoadPosition, Counts, Accounted, InFlight, SenderOpen,
       Deciding, Unwritten, Borrowed, One
  <1>20. CASE RecordState
    BY <1>0, <1>20 DEF RecordState, Counts, Accounted, InFlight, SenderOpen,
       Deciding, Unwritten, Borrowed, One
  <1>21. CASE Stopped
    BY <1>0, <1>21 DEF Stopped, Counts, Accounted, InFlight, SenderOpen,
       Deciding, Unwritten, Borrowed, One
  <1>22. CASE UNCHANGED vars
    BY <1>22 DEF Counts, Accounted, InFlight, SenderOpen,
       Deciding, Unwritten, Borrowed, One
  <1> QED
    BY <1>1, <1>2, <1>3, <1>4, <1>5, <1>6, <1>7, <1>8, <1>9, <1>10, <1>11,
       <1>12, <1>13, <1>14, <1>15, <1>16, <1>17, <1>18, <1>19, <1>20, <1>21,
       <1>22 DEF Next, Callback, Writer, Finish, Control

LEMMA AlwaysCounts == Spec => []Counts
  <1>1. TypeOK /\ Phases /\ Counts /\ [Next]_vars => Counts'
    BY NextCounts
  <1> QED
    BY InitCounts, <1>1, TypeCorrect, AlwaysPhases, PTL DEF Spec

(* Every block pushed into the active recording is written, dropped,       *)
(* failed or in flight, exactly once.                                      *)
THEOREM AccountedTheorem == Spec => []Accounted
  <1>1. Counts => Accounted
    BY DEF Counts
  <1> QED
    BY <1>1, AlwaysCounts, PTL

(* No path leaks a buffer while the sender is there; a stop costs at most  *)
(* one.                                                                    *)
THEOREM PoolConservedTheorem == Spec => []PoolConserved
  <1>1. Counts => PoolConserved
    BY DEF Counts, PoolConserved
  <1> QED
    BY <1>1, AlwaysCounts, PTL

(* A pool two blocks larger than the channel never runs out in push.       *)
THEOREM PoolSufficesTheorem == Spec => []PoolSuffices
  <1>1. TypeOK /\ Counts => PoolSuffices
    <2> SUFFICES ASSUME TypeOK, Counts, PoolBlocks >= ChannelBlocks + 2,
                        cbPc = "take"
                 PROVE  free > 0
      BY DEF PoolSuffices
    <2>1. Borrowed \in Nat /\ Borrowed <= ChannelBlocks + 1
      BY DEF TypeOK, Borrowed, One
    <2>2. free + Borrowed = PoolBlocks /\ free \in Nat
      BY DEF Counts, TypeOK
    <2> QED
      BY <2>1, <2>2
  <1> QED
    BY <1>1, TypeCorrect, AlwaysCounts, PTL

----------------------------------------------------------------------------
(* While nothing was dropped and no write failed, the blocks in the file,  *)
(* in the writer, in the channel and in the callback are numbered without  *)
(* a gap.  The final summary freezes that fact: what is in the callback    *)
(* when it is taken is the last block pushed.                              *)
Writing == wPc \in {"sub", "write"}
Pushing == cbPc \in {"take", "enter", "send"}

Gapless ==
    /\ Pushing => cbBlock.n = offered /\ offered > 0
    /\ dropped = 0 /\ writeErrors = 0 =>
          /\ \A i \in 1..Len(file) : file[i].n = i
          /\ Writing => wBlock.n = Len(file) + 1
          /\ \A i \in 1..Len(queue) : queue[i].n = Len(file) + Unwritten + i

FileIsPrefix ==
    /\ \A i \in 1..Len(file) : file[i].n = i
    /\ Len(file) \in {offered - 1, offered}
    /\ torn = 0

Verdict ==
    /\ wPc = "done" /\ summary.dropped = 0 /\ summary.writeErrors = 0
          => FileIsPrefix
    /\ result = "complete"
          => summary.dropped = 0 /\ summary.writeErrors = 0

LEMMA InitGapless == Init => Gapless /\ Verdict
  BY DEF Init, StartWith, Gapless, Verdict, Writing, Pushing

(* The sequence facts that the steps below share. *)
LEMMA SequenceSteps ==
    ASSUME TypeOK
    PROVE  /\ Len(file) \in Nat /\ Len(queue) \in Nat
           /\ Len(Append(queue, cbBlock)) = Len(queue) + 1
           /\ \A i \in 1..Len(queue) : Append(queue, cbBlock)[i] = queue[i]
           /\ Append(queue, cbBlock)[Len(queue) + 1] = cbBlock
           /\ Len(Append(file, wBlock)) = Len(file) + 1
           /\ \A i \in 1..Len(file) : Append(file, wBlock)[i] = file[i]
           /\ Append(file, wBlock)[Len(file) + 1] = wBlock
           /\ queue # <<>> =>
                 /\ Len(queue) > 0 /\ Head(queue) = queue[1]
                 /\ Len(Tail(queue)) = Len(queue) - 1
                 /\ \A i \in 1..(Len(queue) - 1) : Tail(queue)[i] = queue[i + 1]
  <1>1. queue \in Seq(Block) /\ file \in Seq(Block)
        /\ cbBlock \in Block /\ wBlock \in Block
    BY DEF TypeOK
  <1>2. /\ Len(file) \in Nat /\ Len(queue) \in Nat
        /\ Len(Append(queue, cbBlock)) = Len(queue) + 1
        /\ \A i \in 1..Len(queue) : Append(queue, cbBlock)[i] = queue[i]
        /\ Append(queue, cbBlock)[Len(queue) + 1] = cbBlock
    BY <1>1, AppendProperties, LenProperties
  <1>3. /\ Len(Append(file, wBlock)) = Len(file) + 1
        /\ \A i \in 1..Len(file) : Append(file, wBlock)[i] = file[i]
        /\ Append(file, wBlock)[Len(file) + 1] = wBlock
    BY <1>1, AppendProperties, LenProperties
  <1>4. ASSUME queue # <<>>
        PROVE  /\ Len(queue) > 0 /\ Head(queue) = queue[1]
               /\ Len(Tail(queue)) = Len(queue) - 1
               /\ \A i \in 1..(Len(queue) - 1) : Tail(queue)[i] = queue[i + 1]
    BY <1>1, <1>4, HeadTailProperties, LenProperties
  <1> QED
    BY <1>2, <1>3, <1>4

LEMMA NextGapless ==
    TypeOK /\ Phases /\ Counts /\ Gapless /\ [Next]_vars => Gapless'
  <1> SUFFICES ASSUME TypeOK, Phases, Counts, Gapless, [Next]_vars
               PROVE  Gapless'
    OBVIOUS
  <1>0. /\ dropped \in Nat /\ writeErrors \in Nat /\ offered \in Nat
        /\ Len(file) \in Nat /\ Len(queue) \in Nat
    BY SequenceSteps DEF TypeOK
  <1>1. CASE Offer
    <2>1. cbBlock'.n = offered' /\ offered' > 0
      BY <1>0, <1>1 DEF Offer
    <2> QED
      BY <1>1, <2>1 DEF Offer, Gapless, Writing, Unwritten, One,
                        wVars, poolVars
  <1>2. CASE DropAtPool
    BY <1>0, <1>2 DEF DropAtPool, Gapless, Writing, Pushing, Unwritten, wVars
  <1>3. CASE TakeFree
    BY <1>3 DEF TakeFree, Gapless, Writing, Pushing, Unwritten, wVars
  <1>4. CASE EnterChannel
    BY <1>0, <1>4 DEF EnterChannel, Gapless, Writing, Pushing, Unwritten, wVars
  <1>5. CASE TrySend
    <2>1. CASE queue' = Append(queue, cbBlock) /\ cbPc' = "count"
               /\ UNCHANGED dropped
      <3>1. /\ UNCHANGED <<file, wPc, wBlock, writeErrors>>
            /\ Pushing /\ ~Pushing' /\ Unwritten' = Unwritten
        BY <1>5, <2>1 DEF TrySend, Pushing, Unwritten, wVars
      <3> SUFFICES ASSUME dropped = 0, writeErrors = 0,
                          NEW i \in 1..(Len(queue) + 1)
                   PROVE  queue'[i].n = Len(file) + Unwritten + i
        BY <2>1, <3>1, SequenceSteps DEF Gapless, Writing
      <3>2. CASE i \in 1..Len(queue)
        BY <2>1, <3>2, SequenceSteps DEF Gapless
      <3>3. CASE i = Len(queue) + 1
        <4>1. Deciding = 1 /\ Unwritten \in 0..1
          BY <3>1 DEF Deciding, Unwritten, Pushing, One
        <4>2. offered = Len(file) + Unwritten + i
          BY <1>0, <3>3, <4>1 DEF Counts, Accounted, InFlight
        <4> QED
          BY <2>1, <3>1, <3>3, <4>2, SequenceSteps DEF Gapless
      <3> QED
        BY <1>0, <3>2, <3>3
    <2>2. CASE cbPc' = "giveback" /\ dropped' = dropped + 1
      BY <1>0, <2>2 DEF Gapless, Pushing
    <2> QED
      BY <1>5, <2>1, <2>2 DEF TrySend
  <1>6. CASE CountQueued
    BY <1>6 DEF CountQueued, Gapless, Writing, Pushing, Unwritten, wVars
  <1>7. CASE GiveBack
    BY <1>7 DEF GiveBack, Gapless, Writing, Pushing, Unwritten, wVars
  <1>8. CASE Recv
    <2>1. /\ UNCHANGED <<file, cbPc, cbBlock, offered, dropped, writeErrors>>
          /\ queue # <<>> /\ queue' = Tail(queue) /\ wBlock' = Head(queue)
          /\ Unwritten = 0 /\ Unwritten' = 1
      BY <1>8 DEF Recv, cbVars, Unwritten, One
    <2> SUFFICES ASSUME dropped = 0, writeErrors = 0
                 PROVE  /\ wBlock'.n = Len(file) + 1
                        /\ \A i \in 1..Len(queue') :
                              queue'[i].n = Len(file) + 1 + i
      BY <2>1 DEF Gapless, Pushing
    <2>2. \A i \in 1..Len(queue) : queue[i].n = Len(file) + i
      BY <1>0, <2>1 DEF Gapless
    <2>3. wBlock'.n = Len(file) + 1
      BY <1>0, <2>1, <2>2, SequenceSteps
    <2>4. ASSUME NEW i \in 1..(Len(queue) - 1)
          PROVE  queue'[i].n = Len(file) + 1 + i
      <3>1. i + 1 \in 1..Len(queue) /\ queue'[i] = queue[i + 1]
        BY <1>0, <2>1, SequenceSteps
      <3> QED
        BY <1>0, <2>2, <3>1
    <2> QED
      BY <2>1, <2>3, <2>4, SequenceSteps
  <1>9. CASE UncountQueued
    BY <1>9 DEF UncountQueued, Gapless, Writing, Pushing, Unwritten, cbVars
  <1>10. CASE Write
    <2>1. /\ UNCHANGED <<queue, cbPc, cbBlock, offered, dropped>>
          /\ Writing /\ ~Writing' /\ Unwritten = 1 /\ Unwritten' = 0
      BY <1>10 DEF Write, cbVars, Writing, Unwritten, One
    <2>2. CASE file' = Append(file, wBlock) /\ UNCHANGED writeErrors
      <3> SUFFICES ASSUME dropped = 0, writeErrors = 0
                   PROVE  /\ \A i \in 1..Len(file') : file'[i].n = i
                          /\ \A i \in 1..Len(queue) :
                                queue[i].n = Len(file') + i
        BY <2>1, <2>2 DEF Gapless, Pushing
      <3>1. /\ Len(file') = Len(file) + 1
            /\ \A i \in 1..Len(file) : file'[i] = file[i]
            /\ file'[Len(file) + 1] = wBlock
        BY <2>2, SequenceSteps
      <3>2. wBlock.n = Len(file) + 1
        BY <2>1 DEF Gapless
      <3>3. \A i \in 1..Len(file) : file[i].n = i
        BY DEF Gapless
      <3>4. \A i \in 1..Len(queue) : queue[i].n = Len(file) + 1 + i
        BY <2>1 DEF Gapless
      <3>5. ASSUME NEW i \in 1..(Len(file) + 1) PROVE file'[i].n = i
        BY <1>0, <3>1, <3>2, <3>3
      <3> QED
        BY <1>0, <3>1, <3>4, <3>5
    <2>3. CASE writeErrors' = writeErrors + 1
      BY <1>0, <2>1, <2>3 DEF Gapless, Pushing
    <2> QED
      BY <1>10, <2>2, <2>3 DEF Write
  <1>11. CASE LockPool
    BY <1>11 DEF LockPool, Gapless, Writing, Pushing, Unwritten, cbVars, poolVars
  <1>12. CASE ReturnBlock
    BY <1>12 DEF ReturnBlock, Gapless, Writing, Pushing, Unwritten, cbVars
  <1>13. CASE Report
    BY <1>13 DEF Report, Gapless, Writing, Pushing, Unwritten, cbVars, poolVars
  <1>14. CASE FinalReport
    BY <1>14 DEF FinalReport, Gapless, Writing, Pushing, Unwritten, cbVars,
                 poolVars
  <1>15. CASE Deactivate \/ CloseSender \/ JoinWriter \/ Retune
              \/ LoadPosition \/ RecordState \/ Stopped \/ UNCHANGED vars
    BY <1>15 DEF Deactivate, CloseSender, JoinWriter, Retune, LoadPosition,
       RecordState, Stopped, vars, cbVars, wVars, poolVars,
       Gapless, Writing, Pushing, Unwritten
  <1> QED
    BY <1>1, <1>2, <1>3, <1>4, <1>5, <1>6, <1>7, <1>8, <1>9, <1>10, <1>11,
       <1>12, <1>13, <1>14, <1>15 DEF Next, Callback, Writer, Finish, Control

LEMMA AlwaysGapless == Spec => []Gapless
  <1>1. TypeOK /\ Phases /\ Counts /\ Gapless /\ [Next]_vars => Gapless'
    BY NextGapless
  <1> QED
    BY InitGapless, <1>1, TypeCorrect, AlwaysPhases, AlwaysCounts, PTL DEF Spec

LEMMA NextVerdict ==
    TypeOK /\ Phases /\ Counts /\ Gapless /\ Verdict /\ [Next]_vars => Verdict'
  <1> SUFFICES ASSUME TypeOK, Phases, Counts, Gapless, Verdict, [Next]_vars
               PROVE  Verdict'
    OBVIOUS
  <1>0. /\ dropped \in Nat /\ writeErrors \in Nat /\ torn \in Nat
        /\ offered \in Nat /\ Len(file) \in Nat
    BY SequenceSteps DEF TypeOK
  <1>1. CASE FinalReport
    <2>1. /\ UNCHANGED <<file, torn, offered, result>>
          /\ summary'.dropped = dropped /\ summary'.writeErrors = writeErrors
          /\ queue = <<>> /\ Unwritten = 0 /\ wPc # "done" /\ finPc # "returned"
      BY <1>1 DEF FinalReport, cbVars, finVars, Unwritten, One, Phases
    <2>2. result' # "complete"
      BY <2>1 DEF Phases
    <2>3. ASSUME dropped = 0, writeErrors = 0 PROVE FileIsPrefix
      <3>1. Len(queue) = 0 /\ Deciding \in 0..1
        BY <2>1, EmptySeq DEF Deciding, One
      <3>2. Len(file) \in {offered - 1, offered} /\ torn = 0
        BY <1>0, <2>1, <2>3, <3>1 DEF Counts, Accounted, InFlight
      <3> QED
        BY <2>3, <3>2 DEF Gapless, FileIsPrefix
    <2> QED
      BY <2>1, <2>2, <2>3 DEF Verdict, FileIsPrefix
  <1>2. CASE JoinWriter
    BY <1>2 DEF JoinWriter, Verdict, FileIsPrefix, cbVars, wVars, Phases, TypeOK,
                Summary
  <1>3. CASE Report
    BY <1>3 DEF Report, Verdict, Phases, finVars
  <1>4. CASE Offer
    BY <1>4 DEF Offer, Verdict, Phases, Active, SenderOpen, finVars, wVars
  <1>5. CASE Write
    BY <1>5 DEF Write, Verdict, Phases, finVars
  <1>6. CASE \/ DropAtPool \/ TakeFree \/ EnterChannel \/ TrySend
             \/ CountQueued \/ GiveBack \/ Deactivate \/ CloseSender
             \/ Retune \/ LoadPosition \/ RecordState \/ Stopped
             \/ UNCHANGED vars
    <2>1. UNCHANGED <<wPc, summary, file, offered, torn, result>>
      BY <1>6 DEF DropAtPool, TakeFree, EnterChannel, TrySend, CountQueued,
         GiveBack, Deactivate, CloseSender, Retune, LoadPosition, RecordState,
         Stopped, vars, cbVars, wVars, finVars
    <2> QED
      BY <2>1 DEF Verdict, FileIsPrefix
  <1>7. CASE Recv \/ UncountQueued \/ LockPool \/ ReturnBlock
    <2>1. UNCHANGED <<summary, result>> /\ wPc' # "done"
      BY <1>7 DEF Recv, UncountQueued, LockPool, ReturnBlock, finVars
    <2> QED
      BY <2>1 DEF Verdict
  <1> QED
    BY <1>1, <1>2, <1>3, <1>4, <1>5, <1>6, <1>7
       DEF Next, Callback, Writer, Finish, Control

(* When finish returns Ok, the file is the first blocks of the recording   *)
(* with no gap and no torn write, and lacks at most the last one pushed.   *)
THEOREM CompleteTheorem == Spec => []CompleteMeansGapless
  <1>1. TypeOK /\ Phases /\ Counts /\ Gapless /\ Verdict /\ [Next]_vars
           => Verdict'
    BY NextVerdict
  <1>2. Spec => []Verdict
    BY InitGapless, <1>1, TypeCorrect, AlwaysPhases, AlwaysCounts,
       AlwaysGapless, PTL DEF Spec
  <1>3. TypeOK /\ Phases /\ Verdict => CompleteMeansGapless
    <2> SUFFICES ASSUME TypeOK, Phases, Verdict, result = "complete"
                 PROVE  /\ \A i \in DOMAIN file : file[i].n = i
                        /\ Len(file) \in {offered - 1, offered}
                        /\ torn = 0
      BY DEF CompleteMeansGapless
    <2>1. FileIsPrefix
      BY DEF Phases, Verdict
    <2>2. DOMAIN file = 1..Len(file)
      BY LenProperties DEF TypeOK
    <2> QED
      BY <2>1, <2>2 DEF FileIsPrefix
  <1> QED
    BY <1>2, <1>3, TypeCorrect, AlwaysPhases, PTL

(* When finish returns Ok, the metadata file has every settings change.    *)
THEOREM MetadataTheorem == Spec => []CompleteMeansMetadataSaved
  <1> DEFINE Saved == /\ metaErrors \in Nat
                      /\ metaErrors = 0 => saved = captures
                      /\ result = "complete" => metaErrors = 0
  <1>1. Init => Saved
    BY DEF Init, StartWith
  <1>2. Phases /\ Saved /\ [Next]_vars => Saved'
    <2> SUFFICES ASSUME Phases, Saved, [Next]_vars PROVE Saved'
      OBVIOUS
    <2>1. CASE RecordState
      <3>1. result # "complete" /\ UNCHANGED result
        BY <2>1 DEF RecordState, Phases, Active, finVars
      <3>2. CASE saved' = captures' /\ UNCHANGED metaErrors
        BY <3>1, <3>2
      <3>3. CASE metaErrors' = metaErrors + 1
        BY <3>1, <3>3
      <3> QED
        BY <2>1, <3>2, <3>3 DEF RecordState
    <2>2. CASE JoinWriter
      BY <2>2 DEF JoinWriter, ctlVars
    <2>3. CASE ~RecordState /\ ~JoinWriter
      <3>1. UNCHANGED <<metaErrors, saved, captures, result>>
        BY <2>3 DEF Next, Callback, Writer, Finish, Control, Offer, DropAtPool,
           TakeFree, EnterChannel, TrySend, CountQueued, GiveBack, Recv,
           UncountQueued, Write, LockPool, ReturnBlock, Report, FinalReport,
           Deactivate, CloseSender, Retune, LoadPosition, Stopped,
           vars, ctlVars, finVars
      <3> QED
        BY <3>1
    <2> QED
      BY <2>1, <2>2, <2>3
  <1>3. Saved => CompleteMeansMetadataSaved
    BY DEF CompleteMeansMetadataSaved
  <1> QED
    BY <1>1, <1>2, <1>3, AlwaysPhases, PTL DEF Spec

----------------------------------------------------------------------------
(* The blocks in the file, in the writer, in the channel and in the        *)
(* callback are in the order they were pushed, whatever was lost.          *)
Decided == offered - Deciding

InOrder ==
    /\ \A i \in 1..Len(file) : file[i].n \in 1..Decided
    /\ \A i \in 1..Len(queue) : queue[i].n \in 1..Decided
    /\ \A i, j \in 1..Len(file) : i < j => file[i].n < file[j].n
    /\ \A i, j \in 1..Len(queue) : i < j => queue[i].n < queue[j].n
    /\ \A i \in 1..Len(file), j \in 1..Len(queue) : file[i].n < queue[j].n
    /\ Writing => /\ wBlock.n \in 1..Decided
                  /\ \A i \in 1..Len(file) : file[i].n < wBlock.n
                  /\ \A j \in 1..Len(queue) : wBlock.n < queue[j].n

LEMMA InitInOrder == Init => InOrder
  BY DEF Init, StartWith, InOrder, Writing

LEMMA NextInOrder ==
    TypeOK /\ Gapless /\ InOrder /\ [Next]_vars => InOrder'
  <1> SUFFICES ASSUME TypeOK, Gapless, InOrder, [Next]_vars PROVE InOrder'
    OBVIOUS
  <1>0. /\ offered \in Nat /\ Len(file) \in Nat /\ Len(queue) \in Nat
        /\ Deciding \in 0..1 /\ (Deciding' = 0 \/ Deciding' = 1)
    BY SequenceSteps DEF TypeOK, Deciding, One
  <1>1. CASE Offer
    <2>1. /\ UNCHANGED <<file, queue, wBlock, wPc>> /\ Decided' = Decided
      BY <1>0, <1>1 DEF Offer, wVars, poolVars, Decided, Deciding, One
    <2> QED
      BY <2>1 DEF InOrder, Writing
  <1>2. CASE DropAtPool \/ EnterChannel
    <2>1. /\ UNCHANGED <<file, queue, wBlock, wPc>>
          /\ Decided' \in Nat /\ Decided \in Int /\ Decided <= Decided'
      <3>1. UNCHANGED <<file, queue, wBlock, wPc, offered>>
        BY <1>2 DEF DropAtPool, EnterChannel, wVars
      <3>3. Deciding = 1
        BY <1>2 DEF DropAtPool, EnterChannel, Deciding, One
      <3>2. offered > 0
        BY <1>2 DEF DropAtPool, EnterChannel, Pushing, Gapless
      <3>4. Decided = offered - 1 /\ Decided' = offered - Deciding'
        BY <3>1, <3>3 DEF Decided
      <3>5. Decided' \in Nat /\ Decided \in Int /\ Decided <= Decided'
        BY <1>0, <3>2, <3>4
      <3> QED
        BY <3>1, <3>5
    <2> QED
      BY <2>1 DEF InOrder, Writing
  <1>3. CASE TrySend
    <2>1. /\ UNCHANGED <<file, wBlock, wPc, offered>>
          /\ Deciding = 1 /\ Deciding' = 0 /\ cbBlock.n = offered
      BY <1>3 DEF TrySend, wVars, Deciding, One, Gapless, Pushing
    <2>2. Decided \in Int /\ Decided' = Decided + 1 /\ cbBlock.n = Decided + 1
      BY <1>0, <2>1 DEF Decided
    <2>3. CASE UNCHANGED queue
      BY <2>1, <2>2, <2>3 DEF InOrder, Writing
    <2>4. CASE queue' = Append(queue, cbBlock)
      <3>1. /\ Len(queue') = Len(queue) + 1
            /\ \A i \in 1..Len(queue) : queue'[i] = queue[i]
            /\ queue'[Len(queue) + 1] = cbBlock
        BY <2>4, SequenceSteps
      <3>2. cbBlock.n \in 1..Decided'
        <4>1. offered # 0
          BY <1>0, <1>3 DEF TrySend, Pushing, Gapless
        <4> QED
          BY <1>0, <2>1, <4>1 DEF Decided
      <3>3. \A i \in 1..Len(queue') : queue'[i].n \in 1..Decided'
        <4>1. \A i \in 1..Len(queue) : queue[i].n \in 1..Decided'
          BY <2>2 DEF InOrder
        <4> QED
          BY <1>0, <3>1, <3>2, <4>1
      <3>4. \A i, j \in 1..Len(queue') : i < j => queue'[i].n < queue'[j].n
        <4> SUFFICES ASSUME NEW i \in 1..(Len(queue) + 1),
                            NEW j \in 1..(Len(queue) + 1), i < j
                     PROVE  queue'[i].n < queue'[j].n
          BY <3>1
        <4>1. i \in 1..Len(queue) /\ queue'[i] = queue[i]
          BY <1>0, <3>1
        <4>2. CASE j \in 1..Len(queue)
          BY <3>1, <4>1, <4>2 DEF InOrder
        <4>3. CASE j = Len(queue) + 1
          <5>1. queue[i].n \in 1..Decided /\ queue'[j] = cbBlock
            BY <3>1, <4>1, <4>3 DEF InOrder
          <5> QED
            BY <2>2, <4>1, <5>1
        <4> QED
          BY <1>0, <4>2, <4>3
      <3>5. \A i \in 1..Len(file), j \in 1..Len(queue') :
               file[i].n < queue'[j].n
        <4> SUFFICES ASSUME NEW i \in 1..Len(file),
                            NEW j \in 1..(Len(queue) + 1)
                     PROVE  file[i].n < queue'[j].n
          BY <3>1
        <4>1. CASE j \in 1..Len(queue)
          BY <3>1, <4>1 DEF InOrder
        <4>2. CASE j = Len(queue) + 1
          <5>1. file[i].n \in 1..Decided
            BY DEF InOrder
          <5>2. queue'[j] = cbBlock
            BY <3>1, <4>2
          <5> QED
            BY <2>2, <5>1, <5>2
        <4> QED
          BY <1>0, <4>1, <4>2
      <3>6. Writing => /\ wBlock.n \in 1..Decided'
                       /\ \A j \in 1..Len(queue') : wBlock.n < queue'[j].n
        <4> SUFFICES ASSUME Writing
                     PROVE  /\ wBlock.n \in 1..Decided'
                            /\ \A j \in 1..(Len(queue) + 1) :
                                  wBlock.n < queue'[j].n
          BY <3>1
        <4>1. /\ wBlock.n \in 1..Decided
              /\ \A j \in 1..Len(queue) : wBlock.n < queue[j].n
          BY DEF InOrder
        <4> QED
          BY <1>0, <2>2, <3>1, <4>1
      <3>7. \A i \in 1..Len(file) : file[i].n \in 1..Decided'
        BY <2>2 DEF InOrder
      <3> QED
        BY <2>1, <3>3, <3>4, <3>5, <3>6, <3>7 DEF InOrder, Writing
    <2> QED
      BY <1>3, <2>3, <2>4 DEF TrySend
  <1>4. CASE Recv
    <2>1. /\ UNCHANGED <<file, cbPc, offered>> /\ Decided' = Decided
          /\ queue # <<>> /\ queue' = Tail(queue) /\ wBlock' = Head(queue)
      BY <1>4 DEF Recv, cbVars, Decided, Deciding
    <2>2. /\ Len(queue) > 0 /\ wBlock' = queue[1]
          /\ Len(queue') = Len(queue) - 1
          /\ \A i \in 1..(Len(queue) - 1) : queue'[i] = queue[i + 1]
      BY <2>1, SequenceSteps
    <2>3. \A i \in 1..(Len(queue) - 1) : i + 1 \in 1..Len(queue) /\ 1 < i + 1
      BY <1>0
    <2>4. 1 \in 1..Len(queue)
      BY <1>0, <2>2
    <2>5. \A i, j \in 1..(Len(queue) - 1) : i < j => queue'[i].n < queue'[j].n
      <3> SUFFICES ASSUME NEW i \in 1..(Len(queue) - 1),
                          NEW j \in 1..(Len(queue) - 1), i < j
                   PROVE  queue'[i].n < queue'[j].n
        OBVIOUS
      <3>1. i + 1 < j + 1 /\ queue'[i] = queue[i + 1] /\ queue'[j] = queue[j + 1]
        BY <2>2
      <3> QED
        BY <2>3, <3>1 DEF InOrder
    <2> QED
      BY <2>1, <2>2, <2>3, <2>4, <2>5 DEF InOrder
  <1>5. CASE Write
    <2>1. /\ UNCHANGED <<queue, wBlock, cbPc, offered>> /\ Decided' = Decided
          /\ Writing /\ ~Writing'
      BY <1>5 DEF Write, cbVars, Decided, Deciding, Writing
    <2>2. CASE UNCHANGED file
      BY <2>1, <2>2 DEF InOrder
    <2>3. CASE file' = Append(file, wBlock)
      <3>1. /\ Len(file') = Len(file) + 1
            /\ \A i \in 1..Len(file) : file'[i] = file[i]
            /\ file'[Len(file) + 1] = wBlock
        BY <2>3, SequenceSteps
      <3>2. \A i \in 1..Len(file') : file'[i].n \in 1..Decided
        <4>1. wBlock.n \in 1..Decided
          BY <2>1 DEF InOrder
        <4>2. \A i \in 1..Len(file) : file[i].n \in 1..Decided
          BY DEF InOrder
        <4> QED
          BY <1>0, <3>1, <4>1, <4>2
      <3>3. \A i, j \in 1..Len(file') : i < j => file'[i].n < file'[j].n
        <4> SUFFICES ASSUME NEW i \in 1..(Len(file) + 1),
                            NEW j \in 1..(Len(file) + 1), i < j
                     PROVE  file'[i].n < file'[j].n
          BY <3>1
        <4>1. i \in 1..Len(file) /\ file'[i] = file[i]
          BY <1>0, <3>1
        <4>2. CASE j \in 1..Len(file)
          BY <3>1, <4>1, <4>2 DEF InOrder
        <4>3. CASE j = Len(file) + 1
          <5>1. file[i].n < wBlock.n /\ file'[j] = wBlock
            BY <2>1, <3>1, <4>1, <4>3 DEF InOrder
          <5> QED
            BY <4>1, <5>1
        <4> QED
          BY <1>0, <4>2, <4>3
      <3>4. \A i \in 1..Len(file'), j \in 1..Len(queue) :
               file'[i].n < queue[j].n
        <4> SUFFICES ASSUME NEW i \in 1..(Len(file) + 1),
                            NEW j \in 1..Len(queue)
                     PROVE  file'[i].n < queue[j].n
          BY <3>1
        <4>1. CASE i \in 1..Len(file)
          BY <3>1, <4>1 DEF InOrder
        <4>2. CASE i = Len(file) + 1
          <5>1. wBlock.n < queue[j].n
            BY <2>1 DEF InOrder
          <5> QED
            BY <3>1, <4>2, <5>1
        <4> QED
          BY <1>0, <4>1, <4>2
      <3> QED
        BY <2>1, <3>2, <3>3, <3>4 DEF InOrder
    <2> QED
      BY <1>5, <2>2, <2>3 DEF Write
  <1>6. CASE \/ TakeFree \/ CountQueued \/ GiveBack \/ UncountQueued
             \/ LockPool \/ ReturnBlock \/ Report \/ FinalReport
             \/ Deactivate \/ CloseSender \/ JoinWriter \/ Retune
             \/ LoadPosition \/ RecordState \/ Stopped \/ UNCHANGED vars
    <2>1. /\ UNCHANGED <<file, queue, wBlock, offered>>
          /\ Deciding' = Deciding /\ (Writing' => Writing)
      BY <1>6 DEF TakeFree, CountQueued, GiveBack, UncountQueued, LockPool,
         ReturnBlock, Report, FinalReport, Deactivate, CloseSender, JoinWriter,
         Retune, LoadPosition, RecordState, Stopped, vars, cbVars, wVars,
         poolVars, Deciding, Writing, One
    <2>2. Decided' = Decided
      BY <2>1 DEF Decided
    <2> QED
      BY <2>1, <2>2 DEF InOrder
  <1> QED
    BY <1>1, <1>2, <1>3, <1>4, <1>5, <1>6
       DEF Next, Callback, Writer, Finish, Control

LEMMA AlwaysInOrder == Spec => []InOrder
  <1>1. TypeOK /\ Gapless /\ InOrder /\ [Next]_vars => InOrder'
    BY NextInOrder
  <1> QED
    BY InitInOrder, <1>1, TypeCorrect, AlwaysGapless, PTL DEF Spec

(* The data file holds blocks in the order they were received, none twice. *)
THEOREM OrderTheorem == Spec => []FileInOrder
  <1>1. TypeOK /\ InOrder => FileInOrder
    <2> SUFFICES ASSUME TypeOK, InOrder PROVE FileInOrder
      OBVIOUS
    <2>1. DOMAIN file = 1..Len(file)
      BY LenProperties DEF TypeOK
    <2> QED
      BY <2>1 DEF InOrder, FileInOrder
  <1> QED
    BY <1>1, TypeCorrect, AlwaysInOrder, PTL

----------------------------------------------------------------------------
(* The queued counter follows the channel through every wrap: it differs   *)
(* from the number of blocks in it only between a send and its count, and  *)
(* between a receive and its count.                                        *)
Depth == Len(queue) + One(wPc = "sub") - One(cbPc = "count")

LEMMA WrapUp ==
    ASSUME NEW a \in -1..(ChannelBlocks + 1)
    PROVE  ((a % Modulus) + 1) % Modulus = (a + 1) % Modulus
  <1>1. CASE a = -1
    <2>1. (a % Modulus) + 1 = Modulus
      BY <1>1, WrapFacts
    <2>2. Modulus % Modulus = 0 /\ 0 % Modulus = 0
      BY WrapFacts
    <2> QED
      BY <1>1, <2>1, <2>2
  <1>2. CASE a \in 0..(Modulus - 1)
    BY <1>2, WrapFacts
  <1> QED
    BY <1>1, <1>2

LEMMA WrapDown ==
    ASSUME NEW a \in 0..(ChannelBlocks + 1)
    PROVE  ((a % Modulus) - 1) % Modulus = (a - 1) % Modulus
  <1>1. a \in 0..(Modulus - 1)
    OBVIOUS
  <1> QED
    BY <1>1, WrapFacts

(* Apart from the two counting steps, the counter matches the channel.     *)
THEOREM QueuedTheorem == Spec => []QueuedTracksChannel
  <1>1. Init => QueuedTracksChannel
    <2>1. 0 % Modulus = 0
      BY WrapFacts
    <2> QED
      BY <2>1, EmptySeq DEF Init, StartWith, QueuedTracksChannel, One
  <1>2. TypeOK /\ QueuedTracksChannel /\ [Next]_vars => QueuedTracksChannel'
    <2> SUFFICES ASSUME TypeOK, queued = Depth % Modulus, [Next]_vars
                 PROVE  queued' = Depth' % Modulus
      BY DEF QueuedTracksChannel, Depth
    <2>0. Len(queue) \in Nat /\ Len(queue) <= ChannelBlocks
      BY SequenceSteps DEF TypeOK
    <2>1. CASE CountQueued
      <3>1. /\ queued' = (queued + 1) % Modulus
            /\ UNCHANGED <<queue, wPc>> /\ cbPc = "count" /\ cbPc' = "idle"
        BY <2>1 DEF CountQueued, wVars
      <3>2. Depth \in -1..(ChannelBlocks + 1) /\ Depth' = Depth + 1
        BY <2>0, <3>1 DEF Depth, One
      <3> QED
        BY <3>1, <3>2, WrapUp
    <2>2. CASE UncountQueued
      <3>1. /\ queued' = (queued - 1) % Modulus
            /\ UNCHANGED <<queue, cbPc>> /\ wPc = "sub" /\ wPc' = "write"
        BY <2>2 DEF UncountQueued, cbVars
      <3>2. Depth \in 0..(ChannelBlocks + 1) /\ Depth' = Depth - 1
        BY <2>0, <3>1 DEF Depth, One
      <3> QED
        BY <3>1, <3>2, WrapDown
    <2>3. CASE TrySend
      <3>1. UNCHANGED <<queued, wPc>> /\ cbPc = "send"
        BY <2>3 DEF TrySend, wVars
      <3>2. CASE queue' = Append(queue, cbBlock) /\ cbPc' = "count"
        <4>1. Len(queue') = Len(queue) + 1
          BY <3>2, SequenceSteps
        <4>2. Depth' = Depth
          BY <2>0, <3>1, <3>2, <4>1 DEF Depth, One
        <4> QED
          BY <3>1, <4>2
      <3>3. CASE UNCHANGED queue /\ cbPc' = "giveback"
        <4>1. Depth' = Depth
          BY <2>0, <3>1, <3>3 DEF Depth, One
        <4> QED
          BY <3>1, <4>1
      <3> QED
        BY <2>3, <3>2, <3>3 DEF TrySend
    <2>4. CASE Recv
      <3>1. /\ UNCHANGED <<queued, cbPc>> /\ wPc = "recv" /\ wPc' = "sub"
            /\ queue # <<>> /\ queue' = Tail(queue)
        BY <2>4 DEF Recv, cbVars
      <3>2. Len(queue') = Len(queue) - 1
        BY <3>1, SequenceSteps
      <3>3. Depth' = Depth
        BY <2>0, <3>1, <3>2 DEF Depth, One
      <3> QED
        BY <3>1, <3>3
    <2>5. CASE \/ Offer \/ DropAtPool \/ TakeFree \/ EnterChannel \/ GiveBack
               \/ Write \/ LockPool \/ ReturnBlock \/ Report \/ FinalReport
               \/ Deactivate \/ CloseSender \/ JoinWriter \/ Retune
               \/ LoadPosition \/ RecordState \/ Stopped \/ UNCHANGED vars
      <3>1. /\ UNCHANGED <<queued, queue>>
            /\ (wPc = "sub") = (wPc' = "sub")
            /\ (cbPc = "count") = (cbPc' = "count")
        BY <2>5 DEF Offer, DropAtPool, TakeFree, EnterChannel, GiveBack, Write,
           LockPool, ReturnBlock, Report, FinalReport, Deactivate, CloseSender,
           JoinWriter, Retune, LoadPosition, RecordState, Stopped, vars,
           cbVars, wVars, poolVars
      <3>2. Depth' = Depth
        BY <3>1 DEF Depth, One
      <3> QED
        BY <3>1, <3>2
    <2> QED
      BY <2>1, <2>2, <2>3, <2>4, <2>5
         DEF Next, Callback, Writer, Finish, Control
  <1> QED
    BY <1>1, <1>2, TypeCorrect, PTL DEF Spec

----------------------------------------------------------------------------
(* The recorder implements RecordingContract: it keeps some of the blocks  *)
(* pushed, in order, and judges a recording complete only when the kept    *)
(* blocks are the first ones.                                              *)
LEMMA KeptFacts ==
    ASSUME TypeOK
    PROVE  /\ DOMAIN Kept = 1..Len(file) /\ Len(Kept) = Len(file)
           /\ \A i \in 1..Len(file) : Kept[i] = file[i].n
           /\ Kept \in Seq(Nat)
  <1>1. DOMAIN file = 1..Len(file) /\ Len(file) \in Nat
    BY LenProperties DEF TypeOK
  <1>2. \A i \in 1..Len(file) : file[i].n \in Nat
    <2> SUFFICES ASSUME NEW i \in 1..Len(file) PROVE file[i].n \in Nat
      OBVIOUS
    <2>1. file[i] \in Block
      BY ElementOfSeq DEF TypeOK
    <2> QED
      BY <2>1 DEF Block
  <1> QED
    BY <1>1, <1>2 DEF Kept

THEOREM ContractTheorem == Spec => ContractKept
  <1>1. Init => Contract!Init
    BY DEF Init, StartWith, Contract!Init, Kept
  <1>2. TypeOK /\ TypeOK' /\ Phases /\ Phases' /\ InOrder
        /\ CompleteMeansGapless' /\ [Next]_vars
           => [Contract!Next]_(Contract!contractVars)
    <2> SUFFICES ASSUME TypeOK, TypeOK', Phases, Phases', InOrder,
                        CompleteMeansGapless', [Next]_vars
                 PROVE  [Contract!Next]_(Contract!contractVars)
      OBVIOUS
    <2>1. CASE Offer
      <3>1. /\ result = "none" /\ offered' = offered + 1
            /\ UNCHANGED <<file, result>>
        BY <2>1 DEF Offer, Phases, Active, SenderOpen, wVars, finVars, TypeOK
      <3>2. Kept' = Kept
        BY <3>1 DEF Kept
      <3> QED
        BY <3>1, <3>2 DEF Contract!Next, Contract!Take
    <2>2. CASE Write
      <3>1. /\ Writing /\ result = "none" /\ UNCHANGED <<offered, result>>
        BY <2>2 DEF Write, Writing, Phases, finVars, cbVars
      <3>2. CASE UNCHANGED file
        <4>1. Kept' = Kept
          BY <3>2 DEF Kept
        <4> QED
          BY <3>1, <4>1 DEF Contract!contractVars
      <3>3. CASE file' = Append(file, wBlock)
        <4>1. wBlock.n \in 1..offered
              /\ \A i \in 1..Len(file) : file[i].n < wBlock.n
          <5>1. offered \in Nat /\ Deciding \in 0..1
            BY DEF TypeOK, Deciding, One
          <5> QED
            BY <3>1, <5>1 DEF InOrder, Decided
        <4>2. \A i \in DOMAIN Kept : Kept[i] < wBlock.n
          BY <4>1, KeptFacts
        <4>3. Kept' = Append(Kept, wBlock.n)
          <5>1. /\ Len(file') = Len(file) + 1 /\ Len(file) \in Nat
                /\ \A i \in 1..Len(file) : file'[i] = file[i]
                /\ file'[Len(file) + 1] = wBlock
            BY <3>3, SequenceSteps
          <5>2. wBlock.n \in Nat
            BY <4>1
          <5>3. /\ DOMAIN file' = 1..Len(file')
            BY LenProperties DEF TypeOK
          <5>4. Kept' = [i \in 1..(Len(file) + 1) |-> file'[i].n]
            BY <5>1, <5>3 DEF Kept
          <5>5. /\ Append(Kept, wBlock.n) \in Seq(Nat)
                /\ Len(Append(Kept, wBlock.n)) = Len(file) + 1
                /\ \A i \in 1..Len(file) :
                      Append(Kept, wBlock.n)[i] = file[i].n
                /\ Append(Kept, wBlock.n)[Len(file) + 1] = wBlock.n
            BY <5>2, KeptFacts, AppendProperties, LenProperties
          <5>6. /\ Kept' \in Seq(Nat) /\ Len(Kept') = Len(file) + 1
            <6>1. \A i \in 1..(Len(file) + 1) : file'[i].n \in Nat
              BY <5>1, <5>2, KeptFacts
            <6> QED
              BY <5>1, <5>4, <6>1
          <5>7. \A i \in 1..(Len(file) + 1) :
                   Kept'[i] = Append(Kept, wBlock.n)[i]
            BY <5>1, <5>4, <5>5
          <5> QED
            BY <5>5, <5>6, <5>7, SeqEqual
        <4> QED
          BY <3>1, <4>1, <4>2, <4>3 DEF Contract!Next, Contract!Keep
      <3> QED
        BY <2>2, <3>2, <3>3 DEF Write
    <2>3. CASE JoinWriter
      <3>1. /\ result = "none" /\ UNCHANGED <<file, offered>>
            /\ result' \in {"complete", "incomplete"}
        BY <2>3 DEF JoinWriter, Phases, wVars, cbVars, TypeOK
      <3>2. Kept' = Kept
        BY <3>1 DEF Kept
      <3>3. ASSUME result' = "complete" PROVE Contract!Whole
        <4>1. /\ \A i \in DOMAIN file : file[i].n = i
              /\ Len(file) \in {offered - 1, offered}
          BY <3>1, <3>3 DEF CompleteMeansGapless
        <4>2. DOMAIN file = 1..Len(file)
          BY LenProperties DEF TypeOK
        <4> QED
          BY <4>1, <4>2, KeptFacts DEF Contract!Whole
      <3> QED
        BY <3>1, <3>2, <3>3 DEF Contract!Next, Contract!Judge
    <2>4. CASE ~Offer /\ ~Write /\ ~JoinWriter
      <3>1. UNCHANGED <<file, offered, result>>
        BY <2>4 DEF Next, Callback, Writer, Finish, Control, DropAtPool,
           TakeFree, EnterChannel, TrySend, CountQueued, GiveBack, Recv,
           UncountQueued, LockPool, ReturnBlock, Report, FinalReport,
           Deactivate, CloseSender, Retune, LoadPosition, RecordState, Stopped,
           vars, cbVars, wVars, finVars
      <3>2. Kept' = Kept
        BY <3>1 DEF Kept
      <3> QED
        BY <3>1, <3>2 DEF Contract!contractVars
    <2> QED
      BY <2>1, <2>2, <2>3, <2>4
  <1> QED
    BY <1>1, <1>2, TypeCorrect, AlwaysPhases, AlwaysInOrder,
       CompleteTheorem, PTL DEF Spec, ContractKept, Contract!Spec

----------------------------------------------------------------------------
(* The metadata is readable at every moment.  Boundaries are taken from    *)
(* samples_written, which the writer only raises and only to its count of  *)
(* bytes in the file; between reading the position and recording it, the   *)
(* position only falls behind.                                             *)
Boundaries ==
    /\ CapturesOrdered
    /\ samples <= bytes
    /\ \A i \in 1..Len(captures) : captures[i].start <= samples
    /\ ctlPc = "loaded" =>
          /\ ctlStart <= samples
          /\ \A i \in 1..Len(captures) : captures[i].start <= ctlStart

LEMMA InitBoundaries == Init => Boundaries
  BY DEF Init, StartWith, Boundaries, CapturesOrdered

LEMMA NextBoundaries ==
    TypeOK /\ Counts /\ Counts' /\ Boundaries /\ [Next]_vars => Boundaries'
  <1> SUFFICES ASSUME TypeOK, Counts, Counts', Boundaries, [Next]_vars
               PROVE  Boundaries'
    OBVIOUS
  <1>0. /\ bytes = Len(file) /\ bytes' = Len(file') /\ bytes \in Nat
        /\ samples \in Nat /\ ctlStart \in Nat
        /\ captures \in Seq(Capture) /\ saved \in Seq(Capture)
        /\ Len(captures) \in Nat \ {0} /\ Len(saved) \in Nat
        /\ \A i \in 1..Len(captures) : captures[i].start \in Nat
    <2>1. /\ captures \in Seq(Capture) /\ captures # <<>>
          /\ saved \in Seq(Capture)
      BY DEF TypeOK
    <2>2. \A i \in 1..Len(captures) : captures[i].start \in Nat
      <3> SUFFICES ASSUME NEW i \in 1..Len(captures)
                   PROVE  captures[i].start \in Nat
        OBVIOUS
      <3>1. captures[i] \in Capture
        BY <2>1, ElementOfSeq
      <3> QED
        BY <3>1 DEF Capture
    <2> QED
      BY <2>1, <2>2, HeadTailProperties, LenProperties DEF Counts, TypeOK
  <1>1. CASE Write
    <2>1. /\ bytes' \in {bytes, bytes + 1}
          /\ UNCHANGED <<samples, captures, saved, ctlPc, ctlStart>>
      BY <1>1 DEF Write, ctlVars
    <2> QED
      BY <1>0, <2>1 DEF Boundaries, CapturesOrdered
  <1>2. CASE Report
    <2>1. /\ samples' = bytes
          /\ UNCHANGED <<bytes, file, captures, saved, ctlPc, ctlStart>>
      BY <1>2 DEF Report, ctlVars
    <2> QED
      BY <1>0, <2>1 DEF Boundaries, CapturesOrdered
  <1>3. CASE LoadPosition
    BY <1>0, <1>3 DEF LoadPosition, Boundaries, CapturesOrdered, wVars
  <1>4. CASE RecordState
    <2> DEFINE c == [start |-> ctlStart, tune |-> ctlTune]
    <2>1. /\ ctlPc = "loaded" /\ ctlPc' = "idle"
          /\ UNCHANGED <<samples, bytes, file>>
          /\ saved' = captures' \/ UNCHANGED saved
      BY <1>4 DEF RecordState, wVars
    <2>2. CASE UNCHANGED captures
      BY <1>0, <2>1, <2>2 DEF Boundaries, CapturesOrdered
    <2>3. CASE captures' = Append(captures, c)
      <3>1. c \in Capture /\ c.start = ctlStart
        BY DEF TypeOK, Capture
      <3>2. /\ Len(captures') = Len(captures) + 1
            /\ \A i \in 1..Len(captures) : captures'[i] = captures[i]
            /\ captures'[Len(captures) + 1].start = ctlStart
        BY <1>0, <2>3, <3>1, AppendProperties, LenProperties
      <3>3. \A i \in 1..Len(captures') :
               /\ captures'[i].start <= ctlStart
               /\ captures'[i].start <= samples
               /\ captures'[i].start <= Len(file)
        <4>1. ctlStart <= samples /\ samples <= Len(file)
          BY <1>0, <2>1 DEF Boundaries
        <4>2. \A i \in 1..Len(captures) : captures'[i].start <= ctlStart
          BY <2>1, <3>2 DEF Boundaries
        <4>3. \A i \in 1..Len(captures') : captures'[i].start \in Nat
          BY <1>0, <3>2
        <4> QED
          BY <1>0, <3>2, <4>1, <4>2, <4>3
      <3>4. \A i, j \in 1..Len(captures') :
               i < j => captures'[i].start <= captures'[j].start
        <4> SUFFICES ASSUME NEW i \in 1..(Len(captures) + 1),
                            NEW j \in 1..(Len(captures) + 1), i < j
                     PROVE  captures'[i].start <= captures'[j].start
          BY <3>2
        <4>1. i \in 1..Len(captures) /\ captures'[i] = captures[i]
          BY <1>0, <3>2
        <4>2. CASE j \in 1..Len(captures)
          BY <3>2, <4>1, <4>2 DEF Boundaries, CapturesOrdered
        <4>3. CASE j = Len(captures) + 1
          <5>1. i \in 1..Len(captures')
            BY <3>2
          <5>2. captures'[i].start <= ctlStart /\ captures'[j].start = ctlStart
            BY <3>2, <3>3, <4>3, <5>1
          <5> QED
            BY <5>2
        <4>4. j \in 1..Len(captures) \/ j = Len(captures) + 1
          <5>1. Len(captures) \in Nat
            BY <1>0
          <5> QED
            BY <5>1
        <4> QED
          BY <4>2, <4>3, <4>4
      <3>5. /\ Len(saved') \in 1..Len(captures')
            /\ \A i \in 1..Len(saved') : saved'[i] = captures'[i]
        BY <1>0, <2>1, <3>2 DEF Boundaries, CapturesOrdered
      <3> QED
        BY <2>1, <3>3, <3>4, <3>5 DEF Boundaries, CapturesOrdered
    <2> QED
      BY <1>4, <2>2, <2>3 DEF RecordState
  <1>5. CASE ~Write /\ ~Report /\ ~LoadPosition /\ ~RecordState
    <2>1. /\ UNCHANGED <<samples, bytes, file, captures, saved, ctlStart>>
          /\ ctlPc' = "loaded" => ctlPc = "loaded"
      BY <1>5 DEF Next, Callback, Writer, Finish, Control, Offer, DropAtPool,
         TakeFree, EnterChannel, TrySend, CountQueued, GiveBack, Recv,
         UncountQueued, LockPool, ReturnBlock, FinalReport, Deactivate,
         CloseSender, JoinWriter, Retune, Stopped, vars, wVars, ctlVars
    <2> QED
      BY <2>1 DEF Boundaries, CapturesOrdered
  <1> QED
    BY <1>1, <1>2, <1>3, <1>4, <1>5

(* Wherever the process is killed, the metadata file holds the captures up *)
(* to some change, in order, at positions that are in the data file.       *)
THEOREM CapturesTheorem == Spec => []CapturesOrdered
  <1>1. TypeOK /\ Counts /\ Counts' /\ Boundaries /\ [Next]_vars => Boundaries'
    BY NextBoundaries
  <1>2. Boundaries => CapturesOrdered
    BY DEF Boundaries
  <1> QED
    BY InitBoundaries, <1>1, <1>2, TypeCorrect, AlwaysCounts, PTL DEF Spec
=============================================================================
