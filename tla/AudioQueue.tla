------------------------------ MODULE AudioQueue ------------------------------
(***************************************************************************)
(* The sample queue of one receiver in the browser's audio worklet:        *)
(* web/src/audio-queue.ts.  A queue is a record; its operations are        *)
(* operators.  A sample is identified by its position in the receiver's    *)
(* output.  The step 48000/sampleRate is the fraction StepNum/StepDen and  *)
(* the queue's fraction is counted in StepDen-ths: the rounding of         *)
(* floating-point numbers is left out.                                     *)
(***************************************************************************)
EXTENDS Integers, Sequences

CONSTANTS
    Capacity,          \* data.length: 7680 in the program
    Prime,             \* samples that start the sound: 2880
    StepNum, StepDen   \* samples consumed for each sample put out

NoEpoch == 0

New == [data |-> <<>>, fraction |-> 0, primed |-> FALSE,
        epoch |-> NoEpoch, sequence |-> 0,
        underruns |-> 0, overruns |-> 0, discontinuities |-> 0]

Cleared(q) == [q EXCEPT !.data = <<>>, !.fraction = 0, !.primed = FALSE]

Continues(q, frame) ==
    \/ q.epoch = NoEpoch
    \/ frame.epoch = q.epoch /\ frame.sequence = q.sequence + 1

Noticed(q, frame) ==
    IF Continues(q, frame) THEN q
    ELSE [Cleared(q) EXCEPT !.discontinuities = @ + 1]

\* Faulty variant of WithRoom: the queue is full and takes the frame.
WithRoomAlways(q, frame) == q

\* A frame that does not fit empties the queue.
WithRoom(q, frame) ==
    IF Len(q.data) + Len(frame.samples) <= Capacity THEN q
    ELSE [Cleared(q) EXCEPT !.overruns = @ + 1]

Push(q, frame) ==
    LET ready == WithRoom(Noticed(q, frame), frame)
        start == IF Len(frame.samples) > Capacity
                 THEN Len(frame.samples) - Capacity ELSE 0
        data == ready.data \o SubSeq(frame.samples, start + 1, Len(frame.samples))
    IN  [ready EXCEPT !.data = data,
                      !.primed = @ \/ Len(data) >= Prime,
                      !.epoch = frame.epoch, !.sequence = frame.sequence]

\* Math.max(2, Math.ceil(step) + 1)
Needed ==
    LET ceiling == (StepNum + StepDen - 1) \div StepDen
    IN  IF ceiling + 1 > 2 THEN ceiling + 1 ELSE 2

Sounds(q) == q.primed /\ Len(q.data) >= Needed

Starve(q) == [q EXCEPT !.underruns = @ + 1, !.primed = FALSE]

\* What is left of the fraction, after a faulty variant that forgets it.
Whole(phase) == 0
Remainder(phase) == phase % StepDen

Advance(q) ==
    LET phase == q.fraction + StepNum
    IN  [q EXCEPT !.data = SubSeq(@, (phase \div StepDen) + 1, Len(@)),
                  !.fraction = Remainder(phase)]
=============================================================================
