----------------------------- MODULE ReceiverDsp -----------------------------
(***************************************************************************)
(* The signal path of one virtual receiver: the halving stages and the     *)
(* channel filter of crates/rf-dsp/src/channel.rs, the sideband detector   *)
(* of demod.rs, and the resampler, squelch and gate of audio.rs, driven    *)
(* block by block as VfoProcessor::process of rf-engine/src/vfo.rs does.   *)
(*                                                                         *)
(* A sample is its number in the capture, counted from 1 since the channel *)
(* was built; 0 is the silence a delay line starts with.  Samples pass the *)
(* path one by one here and stage by stage in the code: no stage looks     *)
(* ahead, and only the squelch knows of blocks.  The resampler's phase is  *)
(* exact, a multiple of one over the decimation, and is counted in that    *)
(* unit.                                                                   *)
(***************************************************************************)
EXTENDS Integers, Sequences

CONSTANTS
    CaptureRates,  \* sample rates of the capture
    WantedRates,   \* max(4 * bandwidth, 48000): rates a channel must keep
    AudioRate,     \* AUDIO_RATE
    StageTaps, ChannelTaps, DetectorTaps, AudioTaps, \* lengths of the delay lines
    Levels,        \* powers of a block, in units of the hysteresis of 3 dB
    Thresholds,    \* squelch settings
    Hold, Ramp,    \* samples the squelch is held; steps of the gate
    BlockSizes,    \* samples of a block
    MaxInput       \* bound: samples fed to one channel

ASSUME RatesAssumption ==
    /\ CaptureRates \subseteq Nat \ {0} /\ WantedRates \subseteq Nat \ {0}
    /\ AudioRate \in Nat \ {0}
\* Ssb::new: "a bounded odd length and even midpoint".
ASSUME TapsAssumption ==
    /\ {StageTaps, ChannelTaps, DetectorTaps, AudioTaps} \subseteq Nat \ {0}
    /\ DetectorTaps % 2 = 1
ASSUME SquelchAssumption ==
    Levels \subseteq Int /\ Thresholds \subseteq Int /\ {Hold, Ramp} \subseteq Nat \ {0}
ASSUME BlockAssumption == BlockSizes \subseteq Nat \ {0} /\ MaxInput \in Nat

VARIABLES
    rate, wanted,         \* what the channel was built for
    firs,                 \* Channelizer.stages, then Channelizer.filter
    detector, resampler,  \* the delay lines of Ssb and AudioPipeline
    phase,                \* AudioPipeline.phase
    fed, outputs,         \* samples in and out since the channel was built (history)
    left,                 \* samples of the block still to come
    power, above,         \* channel_power_dbfs, and the squelch's verdict on it
    audible,              \* neither muted nor left out of a solo
    open, hold, gate,     \* squelch_open, hold, gate in steps of its ramp
    opened, shut          \* outputs since the squelch opened, and since one that was
                          \* open and audible (history)

lineVars == <<rate, wanted, firs, detector, resampler, phase, fed, outputs>>
squelchVars == <<power, above, audible, open, hold, gate, opened, shut>>
channelVars == <<lineVars, squelchVars, left>>

----------------------------------------------------------------------------
(* Delay lines.  Fir::push advances the cursor and steps back before each   *)
(* tap it reads; Ssb and AudioPipeline read first and advance at the end.   *)

Line(taps, decimation) ==
    [delay |-> [i \in 0..(taps - 1) |-> 0], taps |-> taps, cursor |-> 0,
     decimation |-> decimation, phase |-> 0]

Push(line, sample) ==
    [line EXCEPT !.delay[line.cursor] = sample,
                 !.cursor = (@ + 1) % line.taps,
                 !.phase = (@ + 1) % line.decimation]

Fires(line) == line.phase + 1 = line.decimation

\* The sample each tap meets, the first tap first.
Window(line) == [i \in 1..line.taps |-> line.delay[(line.cursor - i) % line.taps]]

Behind(line, taps) ==
    LET latest == (line.cursor - 1) % line.taps
    IN  line.delay[(latest + line.taps - taps) % line.taps]

\* Faulty variant of InPhase: half of an odd length is rounded up.
InPhaseLate(line) == Behind(line, (line.taps + 1) \div 2)

\* The sample whose real part Ssb adds to the filtered imaginary parts.
InPhase(line) == Behind(line, line.taps \div 2)

----------------------------------------------------------------------------
(* Building a channel. *)

\* Channelizer::new halves the rate, as a fraction, while half of it is enough.
Power[k \in Nat] == IF k = 0 THEN 1 ELSE 2 * Power[k - 1]

Halvings(r, w) ==
    CHOOSE k \in 0..r : r < w * Power[k + 1] /\ (k = 0 \/ r >= w * Power[k])

\* estimated_work halves it as an integer, rounding down.
Estimated(r, w) ==
    LET halve[n \in Nat] == IF n \div 2 >= w THEN 1 + halve[n \div 2] ELSE 0
    IN  halve[r]

Decimation == Power[Len(firs) - 1]

Stages(r, w) == [k \in 1..Halvings(r, w) |-> Line(StageTaps, 2)]

Build(r, w) ==
    /\ rate' = r /\ wanted' = w
    /\ firs' = Append(Stages(r, w), Line(ChannelTaps, 1))
    /\ detector' = Line(DetectorTaps, 1) /\ resampler' = Line(AudioTaps, 1)
    /\ phase' = 0 /\ fed' = 0 /\ outputs' = 0
    /\ open' = FALSE /\ hold' = 0 /\ gate' = 0 /\ opened' = 0 /\ shut' = Ramp

ChannelInit ==
    /\ rate \in CaptureRates /\ wanted \in WantedRates
    /\ firs = Append(Stages(rate, wanted), Line(ChannelTaps, 1))
    /\ detector = Line(DetectorTaps, 1) /\ resampler = Line(AudioTaps, 1)
    /\ phase = 0 /\ fed = 0 /\ outputs = 0 /\ left = 0
    /\ power \in Levels /\ above = FALSE /\ audible = TRUE
    /\ open = FALSE /\ hold = 0 /\ gate = 0 /\ opened = 0 /\ shut = Ramp

----------------------------------------------------------------------------
(* VfoProcessor::process. *)

Idle == left = 0 /\ phase < rate

\* A retune, an edit, a gap or a pause: the channel is built anew.  The power in the
\* registry stays.
Rebuild ==
    /\ Idle /\ fed > 0
    /\ \E r \in CaptureRates, w \in WantedRates : Build(r, w)
    /\ UNCHANGED <<left, power, above, audible>>

Opens(p, threshold) == p >= threshold + IF open THEN 0 ELSE 1

\* The block's power is measured if the channel puts out a sample; then the squelch,
\* if there is one, judges the block.
StartBlock ==
    /\ Idle
    /\ \E count \in BlockSizes :
          /\ fed + count <= MaxInput /\ left' = count
          /\ power' \in IF (fed + count) \div Decimation > fed \div Decimation
                        THEN Levels ELSE {power}
    /\ above' \in {TRUE} \cup {Opens(power', t) : t \in Thresholds}
    /\ hold' = IF above' THEN Hold ELSE hold
    /\ audible' \in BOOLEAN
    /\ UNCHANGED <<lineVars, open, gate, opened, shut>>

\* One sample enters the first stage; each stage that fires feeds the next one.
Sample ==
    /\ left > 0 /\ phase < rate
    /\ left' = left - 1 /\ fed' = fed + 1
    /\ LET Reached(s) == \A t \in 1..(s - 1) : Fires(firs[t])
           Heard == Reached(Len(firs) + 1)
       IN  /\ firs' = [s \in DOMAIN firs |-> IF Reached(s) THEN Push(firs[s], fed + 1)
                                             ELSE firs[s]]
           /\ detector' = IF Heard THEN Push(detector, fed + 1) ELSE detector
           /\ resampler' = IF Heard THEN Push(resampler, fed + 1) ELSE resampler
           /\ phase' = IF Heard THEN phase + AudioRate * Decimation ELSE phase
    /\ UNCHANGED <<rate, wanted, outputs, squelchVars>>

\* Faulty variant of Resample: what is beyond the output's instant is forgotten.
ResampleAnew == phase' = 0

Resample == phase' = phase - rate

\* Faulty variant of Squelch: a block below the threshold closes at once.
SquelchAtOnce == hold' = 0 /\ open' = above

\* The hold runs down by outputs of blocks that are below.
Squelch ==
    /\ hold' = IF above \/ hold = 0 THEN hold ELSE hold - 1
    /\ open' = (above \/ hold' > 0)

\* One sample of audio.
Output ==
    /\ phase >= rate
    /\ Resample /\ outputs' = outputs + 1
    /\ Squelch
    /\ LET heard == open' /\ audible
       IN  /\ gate' = IF heard THEN (IF gate < Ramp THEN gate + 1 ELSE gate)
                      ELSE (IF gate > 0 THEN gate - 1 ELSE gate)
           /\ shut' = IF heard THEN 0 ELSE IF shut < Ramp THEN shut + 1 ELSE shut
    /\ opened' = IF ~open' THEN 0 ELSE IF opened < Hold THEN opened + 1 ELSE opened
    /\ UNCHANGED <<rate, wanted, firs, detector, resampler, fed, left, power, above,
                   audible>>

ChannelNext == Rebuild \/ StartBlock \/ Sample \/ Output

ChannelSpec == ChannelInit /\ [][ChannelNext]_channelVars
----------------------------------------------------------------------------
(* Properties. *)

IsLine(line, decimations) ==
    /\ line.decimation \in decimations /\ line.phase \in 0..(line.decimation - 1)
    /\ line.cursor \in 0..(line.taps - 1)
    /\ line.delay \in [0..(line.taps - 1) -> 0..MaxInput]

\* Every variable holds a value of its type; the gate stays on its ramp.
ChannelTypeOK ==
    /\ rate \in CaptureRates /\ wanted \in WantedRates
    /\ \A s \in DOMAIN firs : IsLine(firs[s], {1, 2})
    /\ IsLine(detector, {1}) /\ IsLine(resampler, {1})
    /\ phase \in 0..(rate + AudioRate * Decimation - 1)
    /\ fed \in 0..MaxInput /\ outputs \in Nat /\ left \in 0..(MaxInput - fed)
    /\ power \in Levels /\ {above, audible, open} \subseteq BOOLEAN
    /\ hold \in 0..Hold /\ gate \in 0..Ramp /\ opened \in 0..Hold /\ shut \in 0..Ramp

\* The latest multiple of the spacing, and those before it, back into the silence.
Latest(taps, every) ==
    [i \in 1..taps |-> LET n == (fed \div every - (i - 1)) * every
                       IN  IF n > 0 THEN n ELSE 0]

\* vfo.rs test, channel.rs: block boundaries preserve filter state.  However the
\* capture is cut into blocks, every filter meets the latest samples of its own rate,
\* the newest with its first tap, and the sideband detector adds the real part of the
\* sample under the middle of its taps.
FiltersSeeLatest ==
    /\ \A s \in DOMAIN firs : Window(firs[s]) = Latest(firs[s].taps, Power[s - 1])
    /\ Window(detector) = Latest(detector.taps, Decimation)
    /\ Window(resampler) = Latest(resampler.taps, Decimation)
    /\ InPhase(detector) = Window(detector)[(detector.taps + 1) \div 2]

\* docs/audio.md: "resampled to exactly 48,000".  Output k stands for instant k times the
\* ratio of the rates, never off by a fraction that was dropped or carried twice, and never
\* later than the outputs the last sample brought; and the channel has the stages its
\* admission was computed with.
NeverDrifts ==
    /\ phase = AudioRate * Decimation * (fed \div Decimation) - rate * outputs
    /\ phase \in 0..(rate + AudioRate * Decimation - 1)
    /\ Len(firs) - 1 = Estimated(rate, wanted)

\* docs/audio.md: "3 dB hysteresis and a 100 ms hold".  Whatever the blocks, their powers
\* and the thresholds do, a squelch that opened does not close within the hold (one
\* output less when the block that was above had none itself), and a receiver that is
\* closed or muted for the length of the ramp is silent.
SquelchHolds ==
    [][outputs' = outputs + 1 =>
          /\ open /\ ~open' => opened >= Hold - 1
          /\ shut' = Ramp => gate' = 0]_channelVars
=============================================================================
