------------------------- MODULE VirtualReceiver_proofs -------------------------
(***************************************************************************)
(* Proofs about the two halves of a virtual receiver.                      *)
(*                                                                         *)
(* ReceiverDsp, for every hold and ramp, every set of thresholds and       *)
(* powers, and every way to cut the capture into blocks: the squelch       *)
(* judges blocks and the hold counts outputs.  While the squelch is open,  *)
(* the outputs since it opened and the rest of the hold make up at least   *)
(* the whole hold, whatever blocks without an output come in between;      *)
(* steps of the gate and outputs since it was last to rise never exceed    *)
(* the ramp.                                                               *)
(*                                                                         *)
(* The signal path, for every rate and every length of the lines: the      *)
(* phase of stage s is bit s of the number of samples fed, so that stage s *)
(* takes in every sample whose number is a multiple of a power of two, and *)
(* each line holds the latest of those behind its cursor (ChainInv).       *)
(* Powers and halvings are recursive functions; that they exist is shown   *)
(* by tables for initial segments and a least counterexample.              *)
(*                                                                         *)
(* ReceiverBank, for any sets of frequencies, bandwidths and rates, any    *)
(* budget and any number of receivers, edits and retunes: a pass publishes *)
(* over edits it has not seen.  EditsStick rests on publish comparing      *)
(* configurations, so that what it writes never has another one than what  *)
(* it replaces.  BudgetKept rests on the budget being at once what was not *)
(* spent and a natural number.  That nobody admitted is suspended compares *)
(* two sums, of the registry against WorkBudget and of what the pass still *)
(* has to serve against what it has left (AdmitInv); the sums come from a  *)
(* fold over finite sets, and the lemmas about it are proved by taking a   *)
(* least counterexample.                                                   *)
(***************************************************************************)
EXTENDS ReceiverBank, ReceiverDsp, FiniteSetTheorems, SequenceTheorems,
        WellFoundedInduction, TLAPS

----------------------------------------------------------------------------
(* Sums over finite sets, for the admission: MapThenSumSet takes one element after the   *)
(* other in the order of CHOOSE.                                                         *)

\* Every nonempty set of natural numbers has a least element.
LEMMA LeastElement ==
    ASSUME NEW S \in SUBSET Nat, S # {}
    PROVE  \E x \in S : \A y \in S : x <= y
<1>1. PICK x \in S : \A y \in S : ~(<<y, x>> \in OpToRel(<, Nat))
  BY WFMin, NatLessThanWellFounded
<1>2. ASSUME NEW y \in S PROVE x <= y
  <2>1. <<y, x>> \in Nat \X Nat /\ <<y, x>>[1] = y /\ <<y, x>>[2] = x
    OBVIOUS
  <2>2. ~(y < x)
    BY <1>1, <2>1 DEF OpToRel
  <2>3. QED
    BY <2>2
<1>3. QED
  BY <1>2

\* What holds of a set if it holds of its proper subsets holds of every finite set.
LEMMA BySubsets ==
    ASSUME NEW S, IsFiniteSet(S), NEW B,
           \A s \in SUBSET S : (\A t \in SUBSET s : t # s => t \in B) => s \in B
    PROVE  S \in B
<1> SUFFICES ASSUME S \notin B PROVE FALSE
  OBVIOUS
<1> DEFINE Sizes == {Cardinality(s) : s \in (SUBSET S) \ B}
<1>1. \A s \in SUBSET S : IsFiniteSet(s) /\ Cardinality(s) \in Nat
  BY FS_Subset, FS_CardinalityType
<1>2. Sizes \in SUBSET Nat /\ Sizes # {}
  BY <1>1
<1>3. PICK n \in Sizes : \A m \in Sizes : n <= m
  <2> HIDE DEF Sizes
  <2>1. QED
    BY <1>2, LeastElement
<1>4. ASSUME NEW m \in Sizes PROVE ~(m < n)
  <2>1. m \in Nat /\ n \in Nat /\ n <= m
    BY <1>2, <1>3
  <2> HIDE DEF Sizes
  <2>2. QED
    BY <2>1
<1>5. PICK s \in (SUBSET S) \ B : Cardinality(s) = n
  OBVIOUS
<1>6. ASSUME NEW t \in SUBSET s, t # s PROVE t \in B
  <2>1. Cardinality(t) <= Cardinality(s) /\ Cardinality(t) # Cardinality(s)
    BY <1>1, <1>6, FS_Subset
  <2>2. Cardinality(t) < n
    BY <1>1, <1>5, <2>1
  <2>3. QED
    BY <1>4, <2>2
<1>7. QED
  BY <1>6

One(s) == CHOOSE x \in s : TRUE

\* MapThenSumSet's table of the sums over the subsets of S.
Sums(it, f, S) ==
    it = [s \in SUBSET S |-> IF s = {} THEN 0 ELSE f[One(s)] + it[s \ {One(s)}]]

SumOver(f, S) == (CHOOSE it : Sums(it, f, S))[S]

LEMMA OneFacts == ASSUME NEW s, s # {} PROVE One(s) \in s
  BY DEF One

LEMMA SameSums ==
    ASSUME NEW it, NEW f, NEW S, Sums(it, f, S), NEW jt, NEW g, NEW T, Sums(jt, g, T),
           NEW u \in (SUBSET S) \cap (SUBSET T), IsFiniteSet(u), \A x \in u : f[x] = g[x]
    PROVE  it[u] = jt[u]
<1> DEFINE B == {s \in SUBSET u : it[s] = jt[s]}
<1>1. ASSUME NEW s \in SUBSET u, \A t \in SUBSET s : t # s => t \in B
      PROVE  s \in B
  <2>1. /\ it[s] = IF s = {} THEN 0 ELSE f[One(s)] + it[s \ {One(s)}]
        /\ jt[s] = IF s = {} THEN 0 ELSE g[One(s)] + jt[s \ {One(s)}]
    <3>1. s \in SUBSET S /\ s \in SUBSET T
      OBVIOUS
    <3>2. QED
      BY <3>1 DEF Sums
  <2>2. CASE s = {}
    BY <2>1, <2>2
  <2>3. CASE s # {}
    <3>1. One(s) \in s
      BY <2>3, OneFacts
    <3>2. s \ {One(s)} \in B /\ f[One(s)] = g[One(s)]
      BY <1>1, <3>1
    <3>3. QED
      BY <2>1, <2>3, <3>2
  <2>4. QED
    BY <2>2, <2>3
<1> HIDE DEF B
<1>2. u \in B
  BY <1>1, BySubsets
<1>3. QED
  BY <1>2 DEF B

LEMMA SumsExist ==
    ASSUME NEW f, NEW S, IsFiniteSet(S)
    PROVE  \E it : Sums(it, f, S)
<1> DEFINE B == {s \in SUBSET S : \E it : Sums(it, f, s)}
<1>1. ASSUME NEW s \in SUBSET S, \A t \in SUBSET s : t # s => t \in B
      PROVE  s \in B
  <2>1. ASSUME NEW t \in SUBSET s, t # s PROVE Sums(CHOOSE it : Sums(it, f, t), f, t)
    BY <1>1, <2>1
  <2>2. ASSUME NEW t \in SUBSET s, t # s
        PROVE  SumOver(f, t) = IF t = {} THEN 0 ELSE f[One(t)] + SumOver(f, t \ {One(t)})
    <3> DEFINE it == CHOOSE it : Sums(it, f, t)
               v == t \ {One(t)}
               jt == CHOOSE jt : Sums(jt, f, v)
    <3>1. Sums(it, f, t)
      BY <2>1, <2>2
    <3>2. it[t] = IF t = {} THEN 0 ELSE f[One(t)] + it[v]
      BY <3>1 DEF Sums
    <3>3. CASE t = {}
      BY <3>2, <3>3 DEF SumOver
    <3>4. CASE t # {}
      <4>1. v \in SUBSET s /\ v # s /\ v \in SUBSET t
        BY <2>2, <3>4, OneFacts
      <4>2. Sums(jt, f, v)
        BY <2>1, <4>1
      <4>3. IsFiniteSet(v)
        BY <4>1, FS_Subset
      <4>4. it[v] = jt[v]
        <5> HIDE DEF it, jt, v
        <5>1. QED
          BY <3>1, <4>1, <4>2, <4>3, SameSums
      <4>5. QED
        BY <3>2, <3>4, <4>4 DEF SumOver
    <3>5. QED
      BY <3>3, <3>4
  <2> DEFINE entry(t) == IF t = {} THEN 0 ELSE f[One(t)] + SumOver(f, t \ {One(t)})
             all == [t \in SUBSET s |-> entry(t)]
  <2>3. ASSUME NEW t \in SUBSET s, t # {}
        PROVE  all[t \ {One(t)}] = SumOver(f, t \ {One(t)})
    <3>1. t \ {One(t)} \in SUBSET s /\ t \ {One(t)} # s
      BY <2>3, OneFacts
    <3>2. QED
      BY <2>2, <3>1
  <2>4. all = [t \in SUBSET s |-> IF t = {} THEN 0 ELSE f[One(t)] + all[t \ {One(t)}]]
    <3>1. \A t \in SUBSET s :
              entry(t) = IF t = {} THEN 0 ELSE f[One(t)] + all[t \ {One(t)}]
      BY <2>3
    <3> HIDE DEF entry
    <3>2. QED
      BY <3>1
  <2> HIDE DEF all
  <2>5. Sums(all, f, s)
    BY <2>4 DEF Sums
  <2>6. QED
    BY <2>5
<1> HIDE DEF B
<1>2. S \in B
  BY <1>1, BySubsets
<1>3. QED
  BY <1>2 DEF B

LEMMA SumNext ==
    ASSUME NEW f, NEW S, IsFiniteSet(S)
    PROVE  /\ SumOver(f, {}) = 0
           /\ S # {} => SumOver(f, S) = f[One(S)] + SumOver(f, S \ {One(S)})
<1>1. ASSUME NEW T, IsFiniteSet(T) PROVE Sums(CHOOSE it : Sums(it, f, T), f, T)
  BY <1>1, SumsExist
<1>2. SumOver(f, {}) = 0
  <2>1. IsFiniteSet({})
    BY FS_EmptySet
  <2>2. QED
    BY <1>1, <2>1 DEF SumOver, Sums
<1>3. ASSUME S # {} PROVE SumOver(f, S) = f[One(S)] + SumOver(f, S \ {One(S)})
  <2> DEFINE it == CHOOSE it : Sums(it, f, S)
             v == S \ {One(S)}
             jt == CHOOSE jt : Sums(jt, f, v)
  <2>1. v \in SUBSET S /\ IsFiniteSet(v)
    BY FS_Subset
  <2>2. Sums(it, f, S) /\ Sums(jt, f, v)
    BY <1>1, <2>1
  <2>3. it[S] = f[One(S)] + it[v]
    BY <1>3, <2>2 DEF Sums
  <2>4. it[v] = jt[v]
    <3> HIDE DEF it, jt, v
    <3>1. QED
      BY <2>1, <2>2, SameSums
  <2>5. QED
    BY <2>3, <2>4 DEF SumOver
<1>4. QED
  BY <1>2, <1>3

LEMMA SumType ==
    ASSUME NEW f, NEW S, IsFiniteSet(S), \A x \in S : f[x] \in Nat
    PROVE  SumOver(f, S) \in Nat
<1> DEFINE B == {s \in SUBSET S : SumOver(f, s) \in Nat}
<1>1. ASSUME NEW s \in SUBSET S, \A t \in SUBSET s : t # s => t \in B
      PROVE  s \in B
  <2>1. IsFiniteSet(s)
    BY FS_Subset
  <2>2. CASE s = {}
    <3>1. SumOver(f, s) = 0
      BY <2>1, <2>2, SumNext
    <3>2. QED
      BY <3>1
  <2>3. CASE s # {}
    <3>1. One(s) \in s /\ s \ {One(s)} \in B
      BY <1>1, <2>3, OneFacts
    <3>2. f[One(s)] \in Nat /\ SumOver(f, s \ {One(s)}) \in Nat
      BY <3>1
    <3>3. SumOver(f, s) = f[One(s)] + SumOver(f, s \ {One(s)})
      BY <2>1, <2>3, SumNext
    <3>4. QED
      BY <3>2, <3>3
  <2>4. QED
    BY <2>2, <2>3
<1> HIDE DEF B
<1>2. S \in B
  BY <1>1, BySubsets
<1>3. QED
  BY <1>2 DEF B

\* The order of the summands does not matter.
LEMMA SumWithout ==
    ASSUME NEW f, NEW S, IsFiniteSet(S), \A y \in S : f[y] \in Nat, NEW x \in S
    PROVE  SumOver(f, S) = f[x] + SumOver(f, S \ {x})
<1> DEFINE B == {s \in SUBSET S : \A y \in s : SumOver(f, s) = f[y] + SumOver(f, s \ {y})}
<1>1. ASSUME NEW s \in SUBSET S, \A t \in SUBSET s : t # s => t \in B
      PROVE  s \in B
  <2> SUFFICES ASSUME NEW y \in s PROVE SumOver(f, s) = f[y] + SumOver(f, s \ {y})
    OBVIOUS
  <2> DEFINE z == One(s)
             rest == (s \ {y}) \ {z}
  <2>1. z \in s
    BY OneFacts
  <2>2. ASSUME NEW t \in SUBSET s PROVE IsFiniteSet(t) /\ SumOver(f, t) \in Nat
    <3>1. IsFiniteSet(t) /\ \A w \in t : f[w] \in Nat
      BY FS_Subset
    <3>2. QED
      BY <3>1, SumType
  <2>3. SumOver(f, s) = f[z] + SumOver(f, s \ {z})
    BY <2>2, SumNext
  <2>4. CASE y = z
    BY <2>3, <2>4
  <2>5. CASE y # z
    <3>1. s \ {z} \in B /\ s \ {y} \in B /\ y \in s \ {z} /\ z \in s \ {y}
      BY <1>1, <2>1, <2>5
    <3>2. (s \ {z}) \ {y} = rest
      OBVIOUS
    <3>3. /\ SumOver(f, s \ {z}) = f[y] + SumOver(f, rest)
          /\ SumOver(f, s \ {y}) = f[z] + SumOver(f, rest)
      BY <3>1, <3>2
    <3>4. f[y] \in Nat /\ f[z] \in Nat /\ SumOver(f, rest) \in Nat
      BY <2>1, <2>2
    <3> HIDE DEF z, rest
    <3>5. QED
      BY <2>3, <3>3, <3>4
  <2>6. QED
    BY <2>4, <2>5
<1> HIDE DEF B
<1>2. S \in B
  BY <1>1, BySubsets
<1>3. QED
  BY <1>2 DEF B

LEMMA SameSum ==
    ASSUME NEW f, NEW g, NEW S, IsFiniteSet(S), \A x \in S : f[x] = g[x]
    PROVE  SumOver(f, S) = SumOver(g, S)
<1> DEFINE it == CHOOSE it : Sums(it, f, S)
           jt == CHOOSE jt : Sums(jt, g, S)
<1>1. Sums(it, f, S) /\ Sums(jt, g, S)
  BY SumsExist
<1> HIDE DEF it, jt
<1>2. it[S] = jt[S]
  BY <1>1, SameSums
<1>3. QED
  BY <1>2 DEF SumOver, it, jt

----------------------------------------------------------------------------
(* ReceiverDsp: the squelch. *)

USE DEF Resample, Squelch

Ranges ==
    /\ rate \in Nat \ {0} /\ outputs \in Nat
    /\ above \in BOOLEAN /\ open \in BOOLEAN
    /\ hold \in 0..Hold /\ opened \in 0..Hold /\ gate \in 0..Ramp /\ shut \in 0..Ramp

SquelchInv ==
    /\ Ranges
    /\ gate + shut <= Ramp
    /\ open => opened + hold >= Hold
    /\ ~open => hold \in {0, Hold}
    /\ above /\ (left > 0 \/ phase >= rate) => hold = Hold

LEMMA HoldAndRamp == Hold \in Nat \ {0} /\ Ramp \in Nat \ {0}
  BY SquelchAssumption

\* A channel as it is built.
LEMMA FreshSquelchInv ==
    ASSUME rate \in Nat \ {0}, outputs = 0, above \in BOOLEAN, left = 0, phase = 0,
           open = FALSE, hold = 0, gate = 0, opened = 0, shut = Ramp
    PROVE  SquelchInv
<1>1. ~(left > 0 \/ phase >= rate)
  OBVIOUS
<1>2. Ranges
  <2>1. open \in BOOLEAN
    OBVIOUS
  <2>2. /\ hold \in 0..Hold /\ opened \in 0..Hold /\ gate \in 0..Ramp /\ shut \in 0..Ramp
        /\ outputs \in Nat
    BY HoldAndRamp
  <2>3. QED
    BY <2>1, <2>2 DEF Ranges
<1>3. gate + shut <= Ramp
  BY HoldAndRamp
<1>4. QED
  BY <1>1, <1>2, <1>3 DEF SquelchInv

LEMMA InitSquelchInv == ChannelInit => SquelchInv
<1> SUFFICES ASSUME ChannelInit PROVE SquelchInv
  OBVIOUS
<1>1. rate \in Nat \ {0} /\ above \in BOOLEAN
  BY RatesAssumption DEF ChannelInit
<1>2. QED
  BY <1>1, FreshSquelchInv DEF ChannelInit

LEMMA RebuildSquelchInv == SquelchInv /\ Rebuild => SquelchInv'
<1> SUFFICES ASSUME SquelchInv, Rebuild PROVE SquelchInv'
  OBVIOUS
<1>1. rate' \in Nat \ {0} /\ phase' = 0 /\ outputs' = 0 /\ left' = 0
  BY RatesAssumption DEF Rebuild, Build, Idle
<1>2. /\ open' = FALSE /\ hold' = 0 /\ gate' = 0 /\ opened' = 0 /\ shut' = Ramp
      /\ above' \in BOOLEAN
  BY DEF Rebuild, Build, SquelchInv, Ranges
<1>3. ~(left' > 0 \/ phase' >= rate')
  BY <1>1
<1>4. Ranges'
  <2>1. open' \in BOOLEAN
    BY <1>2
  <2>2. /\ hold' \in 0..Hold /\ opened' \in 0..Hold /\ gate' \in 0..Ramp
        /\ shut' \in 0..Ramp /\ outputs' \in Nat
    BY <1>1, <1>2, HoldAndRamp
  <2>3. QED
    BY <1>1, <1>2, <2>1, <2>2 DEF Ranges
<1>5. (gate + shut <= Ramp)'
  BY <1>2, HoldAndRamp
<1>6. QED
  BY <1>2, <1>3, <1>4, <1>5 DEF SquelchInv

LEMMA BlockSquelchInv == SquelchInv /\ StartBlock => SquelchInv'
<1> SUFFICES ASSUME SquelchInv, StartBlock PROVE SquelchInv'
  OBVIOUS
<1>1. above' \in BOOLEAN
  <2>1. \A t \in Thresholds : Opens(power', t) \in BOOLEAN
    BY DEF Opens
  <2>2. QED
    BY <2>1 DEF StartBlock
<1>2. /\ hold' = IF above' THEN Hold ELSE hold
      /\ UNCHANGED <<rate, outputs, phase, open, gate, opened, shut>>
  BY DEF StartBlock, lineVars
<1>3. hold' \in {hold, Hold} /\ (above' => hold' = Hold)
  BY <1>2
<1>4. Ranges'
  BY <1>1, <1>2, <1>3, HoldAndRamp DEF SquelchInv, Ranges
<1>5. (open => opened + hold >= Hold)'
  BY <1>2, <1>3, HoldAndRamp DEF SquelchInv, Ranges
<1>6. (~open => hold \in {0, Hold})'
  BY <1>2, <1>3 DEF SquelchInv
<1>7. QED
  BY <1>2, <1>3, <1>4, <1>5, <1>6 DEF SquelchInv

LEMMA SampleSquelchInv == SquelchInv /\ Sample => SquelchInv'
  BY DEF Sample, squelchVars, SquelchInv, Ranges

\* What an output does to hold and gate.
LEMMA OutputSquelch ==
    ASSUME SquelchInv, Output
    PROVE  /\ SquelchInv'
           /\ open /\ ~open' => opened >= Hold - 1
           /\ shut' = Ramp => gate' = 0
<1>1. /\ phase >= rate /\ outputs' = outputs + 1
      /\ hold' = IF above \/ hold = 0 THEN hold ELSE hold - 1
      /\ open' = (above \/ hold' > 0)
      /\ opened' = IF ~open' THEN 0 ELSE IF opened < Hold THEN opened + 1 ELSE opened
      /\ UNCHANGED <<rate, left, above>>
  BY DEF Output
<1>2. Ranges
  BY DEF SquelchInv
<1>3. above => hold = Hold
  BY <1>1 DEF SquelchInv
<1>4. /\ hold' \in 0..Hold /\ opened' \in 0..Hold
      /\ open' => opened' + hold' >= Hold
      /\ ~open' => hold' = 0
      /\ open /\ ~open' => opened >= Hold - 1
  <2>1. hold \in 0..Hold /\ opened \in 0..Hold /\ Hold \in Nat \ {0}
    BY <1>2, HoldAndRamp DEF Ranges
  <2>2. /\ open => opened + hold >= Hold
        /\ ~open => hold \in {0, Hold}
    BY DEF SquelchInv
  <2>3. CASE above
    <3>1. hold' = Hold /\ hold' > 0 /\ open'
      <4>1. hold' = Hold /\ open'
        BY <1>1, <1>3, <2>3
      <4>2. QED
        BY <2>1, <4>1
    <3>2. opened' = IF opened < Hold THEN opened + 1 ELSE opened
      BY <1>1, <3>1
    <3>3. QED
      BY <2>1, <3>1, <3>2
  <2>4. CASE ~above
    <3>1. open' <=> hold' > 0
      BY <1>1, <2>4
    <3>2. hold' = IF hold = 0 THEN 0 ELSE hold - 1
      BY <1>1, <2>4
    <3>3. CASE hold' > 0
      <4>1. opened' = IF opened < Hold THEN opened + 1 ELSE opened
        BY <1>1, <3>1, <3>3
      <4>2. QED
        BY <2>1, <2>2, <3>1, <3>2, <3>3, <4>1
    <3>4. CASE ~(hold' > 0)
      <4>1. opened' = 0 /\ hold' = 0
        BY <1>1, <2>1, <3>1, <3>2, <3>4
      <4>2. QED
        BY <2>1, <2>2, <3>1, <3>2, <3>4, <4>1
    <3>5. QED
      BY <3>3, <3>4
  <2>5. QED
    BY <2>3, <2>4
<1>5. /\ gate' \in 0..Ramp /\ shut' \in 0..Ramp /\ gate' + shut' <= Ramp
  <2>1. CASE open' /\ audible
    BY <1>2, <2>1, HoldAndRamp DEF Output, SquelchInv, Ranges
  <2>2. CASE ~(open' /\ audible)
    <3>1. /\ gate' = IF gate > 0 THEN gate - 1 ELSE gate
          /\ shut' = IF shut < Ramp THEN shut + 1 ELSE shut
      BY <2>2 DEF Output
    <3>2. QED
      BY <1>2, <3>1, HoldAndRamp DEF SquelchInv, Ranges
  <2>3. QED
    BY <2>1, <2>2
<1>6. SquelchInv'
  <2>1. Ranges'
    <3>1. open' \in BOOLEAN
      BY <1>1
    <3>2. rate' \in Nat \ {0} /\ outputs' \in Nat /\ above' \in BOOLEAN
      BY <1>1, <1>2 DEF Ranges
    <3>3. QED
      BY <1>4, <1>5, <3>1, <3>2 DEF Ranges
  <2>2. above' => hold' = Hold
    BY <1>1, <1>3
  <2>3. QED
    BY <1>4, <1>5, <2>1, <2>2 DEF SquelchInv
<1>7. QED
  BY <1>4, <1>5, <1>6

LEMMA NextSquelchInv == SquelchInv /\ [ChannelNext]_channelVars => SquelchInv'
<1>1. SquelchInv /\ UNCHANGED channelVars => SquelchInv'
  BY DEF channelVars, lineVars, squelchVars, SquelchInv, Ranges
<1>2. QED
  BY <1>1, RebuildSquelchInv, BlockSquelchInv, SampleSquelchInv, OutputSquelch DEF ChannelNext

\* docs/audio.md: "3 dB hysteresis and a 100 ms hold".  A squelch that opened does not
\* close within the hold, and a receiver closed or muted for the ramp is silent
\* (AudioPipeline::process).
THEOREM SquelchTheorem == ChannelSpec => SquelchHolds
<1> DEFINE P == outputs' = outputs + 1 =>
                  /\ open /\ ~open' => opened >= Hold - 1
                  /\ shut' = Ramp => gate' = 0
<1>1. SquelchInv /\ [ChannelNext]_channelVars => [P]_channelVars
  <2> SUFFICES ASSUME SquelchInv, ChannelNext, outputs' = outputs + 1
               PROVE  /\ open /\ ~open' => opened >= Hold - 1
                      /\ shut' = Ramp => gate' = 0
    OBVIOUS
  <2>1. outputs \in Nat
    BY DEF SquelchInv, Ranges
  <2>2. outputs' # outputs /\ outputs' # 0
    BY <2>1
  <2>3. ~Rebuild
    BY <2>2 DEF Rebuild, Build
  <2>4. ~StartBlock /\ ~Sample
    BY <2>2 DEF StartBlock, Sample, lineVars
  <2>5. QED
    BY <2>3, <2>4, OutputSquelch DEF ChannelNext
<1>2. ChannelSpec => []SquelchInv
  BY InitSquelchInv, NextSquelchInv, PTL DEF ChannelSpec
<1>3. QED
  BY <1>1, <1>2, PTL DEF ChannelSpec, SquelchHolds

----------------------------------------------------------------------------
(* Induction over a set of numbers. *)

LEMMA ByNumbers ==
    ASSUME NEW S \in SUBSET Nat, 0 \in S, \A n \in Nat : n \in S => n + 1 \in S
    PROVE  S = Nat
<1> SUFFICES ASSUME Nat \ S # {} PROVE FALSE
  OBVIOUS
<1>1. PICK n \in Nat \ S : \A m \in Nat \ S : n <= m
  BY LeastElement
<1>2. n - 1 \in Nat /\ n - 1 \notin S
  BY <1>1
<1>3. QED
  BY <1>1, <1>2

\* A table of the powers up to n, and the number it has for n.
Powers(t, n) == \A k \in 0..n : t[k] = IF k = 0 THEN 1 ELSE 2 * t[k - 1]

LEMMA SamePowers ==
    ASSUME NEW n \in Nat, NEW m \in n..(n + 1), NEW t, NEW u, Powers(t, n), Powers(u, m)
    PROVE  \A k \in 0..n : t[k] = u[k]
<1> DEFINE S == {k \in Nat : k <= n => t[k] = u[k]}
<1>1. 0 \in S
  <2>1. 0 \in 0..n /\ 0 \in 0..m
    OBVIOUS
  <2>2. QED
    BY <2>1 DEF Powers
<1>2. ASSUME NEW k \in Nat, k \in S PROVE k + 1 \in S
  <2>1. SUFFICES ASSUME k + 1 <= n PROVE t[k + 1] = u[k + 1]
    OBVIOUS
  <2>2. k + 1 \in 0..n /\ k + 1 \in 0..m /\ k + 1 # 0 /\ (k + 1) - 1 = k
    BY <2>1
  <2>3. t[k] = u[k]
    BY <1>2, <2>1
  <2>4. QED
    BY <2>2, <2>3 DEF Powers
<1> HIDE DEF S
<1>3. S = Nat
  BY <1>1, <1>2, ByNumbers DEF S
<1>4. QED
  BY <1>3 DEF S

LEMMA PowersExist == ASSUME NEW n \in Nat PROVE \E t : Powers(t, n)
<1> DEFINE S == {k \in Nat : \E t : Powers(t, k)}
<1>1. 0 \in S
  <2>1. Powers([k \in 0..0 |-> 1], 0)
    BY DEF Powers
  <2>2. QED
    BY <2>1
<1>2. ASSUME NEW k \in Nat, k \in S PROVE k + 1 \in S
  <2>1. PICK t : Powers(t, k)
    BY <1>2
  <2> DEFINE u == [i \in 0..(k + 1) |-> IF i = k + 1 THEN 2 * t[k] ELSE t[i]]
  <2>2. ASSUME NEW i \in 0..(k + 1) PROVE u[i] = IF i = 0 THEN 1 ELSE 2 * u[i - 1]
    <3>1. CASE i = k + 1
      BY <3>1
    <3>2. CASE i # k + 1
      <4>1. i \in 0..k
        BY <3>2
      <4>2. t[i] = IF i = 0 THEN 1 ELSE 2 * t[i - 1]
        BY <2>1, <4>1 DEF Powers
      <4>3. u[i] = t[i] /\ (i # 0 => u[i - 1] = t[i - 1])
        BY <4>1
      <4>4. QED
        BY <4>2, <4>3
    <3>3. QED
      BY <3>1, <3>2
  <2> HIDE DEF u
  <2>3. Powers(u, k + 1)
    BY <2>2 DEF Powers
  <2>4. QED
    BY <2>3
<1> HIDE DEF S
<1>3. S = Nat
  BY <1>1, <1>2, ByNumbers DEF S
<1>4. QED
  BY <1>3 DEF S

\* The recursive definition has the value it says.
LEMMA PowerNext == \A k \in Nat : Power[k] = IF k = 0 THEN 1 ELSE 2 * Power[k - 1]
<1> DEFINE T(n) == CHOOSE t : Powers(t, n)
           P == [n \in Nat |-> T(n)[n]]
<1>1. \A n \in Nat : Powers(T(n), n)
  BY PowersExist
<1>2. ASSUME NEW n \in Nat PROVE T(n)[n] = IF n = 0 THEN 1 ELSE 2 * P[n - 1]
  <2>1. T(n)[n] = IF n = 0 THEN 1 ELSE 2 * T(n)[n - 1]
    <3>1. n \in 0..n
      OBVIOUS
    <3> HIDE DEF T
    <3>2. QED
      BY <1>1, <3>1 DEF Powers
  <2>2. ASSUME n # 0 PROVE T(n)[n - 1] = P[n - 1]
    <3>1. n - 1 \in Nat /\ n \in (n - 1)..((n - 1) + 1) /\ n - 1 \in 0..(n - 1)
      BY <2>2
    <3>2. T(n - 1)[n - 1] = T(n)[n - 1]
      <4> HIDE DEF T
      <4>1. QED
        BY <1>1, <3>1, SamePowers
    <3>3. QED
      BY <3>1, <3>2
  <2>3. QED
    BY <2>1, <2>2
<1>3. P = [n \in Nat |-> IF n = 0 THEN 1 ELSE 2 * P[n - 1]]
  <2>1. \A n \in Nat : T(n)[n] = IF n = 0 THEN 1 ELSE 2 * P[n - 1]
    BY <1>2
  <2> DEFINE R == [n \in Nat |-> IF n = 0 THEN 1 ELSE 2 * P[n - 1]]
  <2> HIDE DEF T
  <2>2. P = [n \in Nat |-> T(n)[n]] /\ R = [n \in Nat |-> IF n = 0 THEN 1 ELSE 2 * P[n - 1]]
    OBVIOUS
  <2> HIDE DEF P, R
  <2>3. P = R
    BY <2>1, <2>2
  <2>4. QED
    BY <2>2, <2>3
<1> HIDE DEF P
<1>4. Power = [n \in Nat |-> IF n = 0 THEN 1 ELSE 2 * Power[n - 1]]
  BY <1>3 DEF Power
<1>5. QED
  BY <1>4

LEMMA PowerFacts ==
    /\ Power[0] = 1
    /\ \A k \in Nat : Power[k] \in Nat \ {0} /\ Power[k + 1] = 2 * Power[k] /\ Power[k] > k
<1>1. ASSUME NEW k \in Nat PROVE Power[k + 1] = 2 * Power[k]
  <2>1. k + 1 \in Nat /\ k + 1 # 0 /\ (k + 1) - 1 = k
    OBVIOUS
  <2>2. QED
    BY <2>1, PowerNext
<1>2. Power[0] = 1
  BY PowerNext
<1> DEFINE S == {k \in Nat : Power[k] \in Nat \ {0} /\ Power[k] > k}
<1>3. 0 \in S
  BY <1>2
<1>4. \A k \in Nat : k \in S => k + 1 \in S
  BY <1>1
<1> HIDE DEF S
<1>5. S = Nat
  BY <1>3, <1>4, ByNumbers DEF S
<1>6. QED
  BY <1>1, <1>2, <1>5 DEF S

----------------------------------------------------------------------------
(* Quotients and remainders. *)

LEMMA Quotient ==
    ASSUME NEW n \in Nat \ {0}, NEW x \in Nat
    PROVE  x % n \in 0..(n - 1) /\ x \div n \in Nat /\ x = n * (x \div n) + (x % n)
  OBVIOUS

LEMMA QuotientIs ==
    ASSUME NEW n \in Nat \ {0}, NEW q \in Int, NEW r \in 0..(n - 1), NEW x \in Int, x = n * q + r
    PROVE  x % n = r /\ x \div n = q
  OBVIOUS

LEMMA Multiple ==
    ASSUME NEW n \in Nat \ {0}, NEW q \in Int
    PROVE  (n * q) % n = 0 /\ (n * q) \div n = q
<1>1. n * q = n * q + 0 /\ 0 \in 0..(n - 1) /\ n * q \in Int
  OBVIOUS
<1>2. QED
  BY <1>1, QuotientIs

LEMMA NextQuotient ==
    ASSUME NEW n \in Nat \ {0}, NEW x \in Nat
    PROVE  /\ (x + 1) \div n = IF (x + 1) % n = 0 THEN (x \div n) + 1 ELSE x \div n
           /\ (x + 1) % n = 0 => ((x \div n) + 1) * n = x + 1
<1> DEFINE q == x \div n
           r == x % n
<1>1. q \in Nat /\ r \in 0..(n - 1) /\ x = n * q + r
  BY Quotient
<1> HIDE DEF q, r
<1>2. CASE r = n - 1
  <2>1. x + 1 = n * (q + 1) /\ q + 1 \in Int
    BY <1>1, <1>2
  <2>2. (x + 1) % n = 0 /\ (x + 1) \div n = q + 1
    BY <2>1, Multiple
  <2>3. (q + 1) * n = x + 1
    BY <1>1, <2>1
  <2>4. QED
    BY <2>2, <2>3 DEF q
<1>3. CASE r # n - 1
  <2>1. x + 1 = n * q + (r + 1) /\ r + 1 \in 0..(n - 1)
    BY <1>1, <1>3
  <2>2. (x + 1) % n = r + 1 /\ (x + 1) \div n = q
    BY <1>1, <2>1, QuotientIs
  <2>3. r + 1 # 0
    BY <1>1
  <2>4. QED
    BY <2>2, <2>3 DEF q
<1>4. QED
  BY <1>2, <1>3

\* A number is divisible by 2 n if it is by n and the quotient is even.
LEMMA HalfDivides ==
    ASSUME NEW n \in Nat \ {0}, NEW x \in Nat
    PROVE  (x + 1) % (2 * n) = 0 <=> (x + 1) % n = 0 /\ (x \div n) % 2 = 1
<1> DEFINE q == x \div n
           r == x % n
           h == q \div 2
           b == q % 2
<1>1. q \in Nat /\ r \in 0..(n - 1) /\ x = n * q + r
  BY Quotient
<1>2. h \in Nat /\ b \in {0, 1} /\ q = 2 * h + b
  BY <1>1
<1>3. (x + 1) % n = 0 <=> r = n - 1
  <2>1. r = n - 1 => x + 1 = n * (q + 1) + 0
    BY <1>1
  <2>2. r # n - 1 => x + 1 = n * q + (r + 1) /\ r + 1 \in 0..(n - 1) /\ r + 1 # 0
    BY <1>1
  <2> HIDE DEF q, r
  <2>3. QED
    BY <1>1, <2>1, <2>2, QuotientIs
<1> HIDE DEF q, r, h, b
<1>4. 2 * n \in Nat \ {0}
  OBVIOUS
<1>5. n * q = (2 * n) * h + n * b
  BY <1>1, <1>2
<1>6. CASE r = n - 1 /\ b = 1
  <2>1. x + 1 = (2 * n) * (h + 1) /\ h + 1 \in Int
    BY <1>1, <1>2, <1>5, <1>6
  <2>2. (x + 1) % (2 * n) = 0
    BY <1>4, <2>1, Multiple
  <2>3. QED
    BY <1>3, <1>6, <2>2 DEF q, b
<1>7. CASE ~(r = n - 1 /\ b = 1)
  <2> DEFINE s == n * b + r + 1
  <2>1. s \in 1..(2 * n - 1)
    <3>1. n * b = IF b = 0 THEN 0 ELSE n
      BY <1>2
    <3>2. QED
      BY <1>1, <1>2, <1>7, <3>1
  <2>2. x + 1 = (2 * n) * h + s
    <3>1. n * q \in Nat /\ n * b \in Nat /\ (2 * n) * h \in Nat
      BY <1>1, <1>2
    <3>2. QED
      BY <1>1, <1>5, <3>1
  <2> HIDE DEF s
  <2>3. (x + 1) % (2 * n) = s
    <3> DEFINE m == 2 * n
    <3>1. m \in Nat \ {0} /\ s \in 0..(m - 1) /\ x + 1 = m * h + s /\ x + 1 \in Int
          /\ h \in Int
      BY <1>2, <2>1, <2>2
    <3> HIDE DEF m
    <3>2. (x + 1) % m = s
      BY <3>1, QuotientIs
    <3>3. QED
      BY <3>2 DEF m
  <2>4. QED
    BY <1>3, <1>7, <2>1, <2>3 DEF q, b
<1>8. QED
  BY <1>6, <1>7

LEMMA CursorStep ==
    ASSUME NEW n \in Nat \ {0}, NEW c \in 0..(n - 1)
    PROVE  (c + 1) % n = IF c + 1 = n THEN 0 ELSE c + 1
<1>1. c + 1 = n => c + 1 = n * 1 + 0
  OBVIOUS
<1>2. c + 1 # n => c + 1 = n * 0 + (c + 1) /\ c + 1 \in 0..(n - 1)
  OBVIOUS
<1>3. 0 \in 0..(n - 1) /\ c + 1 \in Int
  OBVIOUS
<1>4. QED
  BY <1>1, <1>2, <1>3, QuotientIs

LEMMA CursorBack ==
    ASSUME NEW n \in Nat \ {0}, NEW c \in 0..(n - 1), NEW i \in 1..n
    PROVE  (c - i) % n = IF i <= c THEN c - i ELSE c - i + n
<1>1. i <= c => c - i = n * 0 + (c - i) /\ c - i \in 0..(n - 1)
  OBVIOUS
<1>2. ~(i <= c) => c - i = n * (-1) + (c - i + n) /\ c - i + n \in 0..(n - 1)
  OBVIOUS
<1>3. c - i \in Int
  OBVIOUS
<1>4. QED
  BY <1>1, <1>2, <1>3, QuotientIs

----------------------------------------------------------------------------
(* Halvings. *)

\* Channelizer::new: k halvings of r are as many as leave the wanted rate w.
Halves(r, w, k) ==
    k \in 0..r /\ r < w * Power[k + 1] /\ (k = 0 \/ r >= w * Power[k])

LEMMA PowerGrows ==
    ASSUME NEW j \in Nat, NEW k \in Nat, j <= k
    PROVE  Power[j] <= Power[k]
<1> DEFINE S == {i \in Nat : j <= i => Power[j] <= Power[i]}
<1>1. 0 \in S
  <2>1. j <= 0 => j = 0
    OBVIOUS
  <2>2. QED
    BY <2>1, PowerFacts
<1>2. ASSUME NEW i \in Nat, i \in S PROVE i + 1 \in S
  <2>1. Power[i] \in Nat /\ Power[i + 1] = 2 * Power[i] /\ Power[j] \in Nat
    BY PowerFacts
  <2>2. CASE j <= i
    BY <1>2, <2>1, <2>2
  <2>3. CASE ~(j <= i)
    <3>1. j <= i + 1 => j = i + 1
      BY <2>3
    <3>2. QED
      BY <2>1, <3>1
  <2>4. QED
    BY <2>2, <2>3
<1> HIDE DEF S
<1>3. S = Nat
  BY <1>1, <1>2, ByNumbers DEF S
<1>4. QED
  BY <1>3 DEF S

LEMMA TimesGrows ==
    ASSUME NEW w \in Nat, NEW a \in Nat, NEW b \in Nat, a <= b
    PROVE  w * a <= w * b
  OBVIOUS

LEMMA HalvesOnce ==
    ASSUME NEW r \in Nat, NEW w \in Nat \ {0}, NEW j, NEW k, Halves(r, w, j), Halves(r, w, k)
    PROVE  j <= k
<1>1. j \in Nat /\ k \in Nat
  BY DEF Halves
<1>2. SUFFICES ASSUME k + 1 <= j PROVE FALSE
  BY <1>1
<1>3. Power[k + 1] <= Power[j] /\ Power[k + 1] \in Nat /\ Power[j] \in Nat
  BY <1>1, <1>2, PowerGrows, PowerFacts
<1>4. w * Power[k + 1] <= w * Power[j] /\ w * Power[k + 1] \in Nat /\ w * Power[j] \in Nat
  BY <1>3, TimesGrows
<1>5. r < w * Power[k + 1] /\ r >= w * Power[j]
  BY <1>1, <1>2 DEF Halves
<1>6. QED
  BY <1>4, <1>5

LEMMA HalvingsFacts ==
    ASSUME NEW r \in Nat, NEW w \in Nat \ {0}
    PROVE  Halves(r, w, Halvings(r, w))
<1> DEFINE S == {k \in Nat : r < w * Power[k + 1]}
<1>1. r \in S
  <2>1. Power[r + 1] \in Nat /\ Power[r + 1] > r + 1
    BY PowerFacts
  <2>2. 1 <= w /\ w \in Nat
    OBVIOUS
  <2>3. Power[r + 1] * 1 <= Power[r + 1] * w
    BY <2>1, <2>2, TimesGrows
  <2>4. QED
    BY <2>1, <2>3
<1>2. PICK k \in S : \A j \in S : k <= j
  BY <1>1, LeastElement
<1>3. k \in 0..r /\ r < w * Power[k + 1]
  BY <1>1, <1>2
<1>4. k = 0 \/ r >= w * Power[k]
  <2>1. SUFFICES ASSUME k # 0 PROVE r >= w * Power[k]
    OBVIOUS
  <2>2. k - 1 \in Nat /\ (k - 1) + 1 = k /\ ~(k <= k - 1)
    BY <1>3, <2>1
  <2>3. k - 1 \notin S
    BY <1>2, <2>2
  <2>4. w * Power[k] \in Nat
    BY <1>3, PowerFacts
  <2>5. QED
    BY <2>2, <2>3, <2>4
<1>5. Halves(r, w, k)
  BY <1>3, <1>4 DEF Halves
<1>6. Halvings(r, w) = CHOOSE i \in 0..r :
                           r < w * Power[i + 1] /\ (i = 0 \/ r >= w * Power[i])
  BY DEF Halvings
<1> HIDE DEF S
<1>7. QED
  BY <1>3, <1>4, <1>6 DEF Halves

LEMMA HalvingsAre ==
    ASSUME NEW r \in Nat, NEW w \in Nat \ {0}, NEW k, Halves(r, w, k)
    PROVE  Halvings(r, w) = k
<1>1. Halves(r, w, Halvings(r, w))
  BY HalvingsFacts
<1>2. Halvings(r, w) <= k /\ k <= Halvings(r, w)
  BY <1>1, HalvesOnce
<1>3. Halvings(r, w) \in Nat /\ k \in Nat
  BY <1>1 DEF Halves
<1>4. QED
  BY <1>2, <1>3

\* One halving of an integer, rounded down, is one halving of the fraction.
LEMMA HalvingsNext ==
    ASSUME NEW r \in Nat, NEW w \in Nat \ {0}
    PROVE  Halvings(r, w) = IF r \div 2 >= w THEN 1 + Halvings(r \div 2, w) ELSE 0
<1> DEFINE h == r \div 2
<1>1. h \in Nat /\ 2 * h <= r /\ r <= 2 * h + 1
  OBVIOUS
<1> HIDE DEF h
<1>2. CASE h >= w
  <2> DEFINE k == Halvings(h, w)
  <2>1. Halves(h, w, k)
    BY <1>1, HalvingsFacts
  <2> HIDE DEF k
  <2>2. k \in Nat /\ k <= h /\ k + 1 \in Nat /\ (k + 1) + 1 \in Nat
    BY <1>1, <2>1 DEF Halves
  <2> DEFINE p == Power[k]
             a == w * p
  <2>3. /\ p \in Nat /\ Power[k + 1] = 2 * p /\ Power[(k + 1) + 1] = 2 * (2 * p)
    BY <2>2, PowerFacts
  <2>4. a \in Nat /\ w * Power[k + 1] = 2 * a /\ w * Power[(k + 1) + 1] = 4 * a
    BY <2>3
  <2> HIDE DEF p, a
  <2>5. h < 2 * a
    BY <2>1, <2>4 DEF Halves
  <2>6. h >= a
    <3>1. CASE k = 0
      <4>1. p = 1 /\ a = w
        BY <3>1, PowerFacts DEF p, a
      <4>2. QED
        BY <1>2, <4>1
    <3>2. CASE k # 0
      BY <2>1, <3>2 DEF Halves, a, p
    <3>3. QED
      BY <3>1, <3>2
  <2>7. r < 4 * a /\ r >= 2 * a
    BY <1>1, <2>4, <2>5, <2>6
  <2>8. k + 1 \in 0..r
    BY <1>1, <1>2, <2>2
  <2>9. Halves(r, w, k + 1)
    BY <2>4, <2>7, <2>8 DEF Halves
  <2>10. Halvings(r, w) = k + 1
    BY <2>9, HalvingsAre
  <2>11. QED
    BY <1>2, <2>2, <2>10 DEF k, h
<1>3. CASE ~(h >= w)
  <2>1. Power[0 + 1] = 2
    BY PowerFacts
  <2>2. r < w * Power[0 + 1]
    BY <1>1, <1>3, <2>1
  <2>3. Halves(r, w, 0)
    BY <2>2 DEF Halves
  <2>4. Halvings(r, w) = 0
    BY <2>3, HalvingsAre
  <2>5. QED
    BY <1>3, <2>4 DEF h
<1>4. QED
  BY <1>2, <1>3

\* estimated_work counts as many stages as Channelizer::new builds.
LEMMA EstimatedIsHalvings ==
    ASSUME NEW r \in Nat, NEW w \in Nat \ {0}
    PROVE  Estimated(r, w) = Halvings(r, w)
<1> DEFINE Rec(f) == f = [n \in Nat |-> IF n \div 2 >= w THEN 1 + f[n \div 2] ELSE 0]
           g == [n \in Nat |-> Halvings(n, w)]
           e == CHOOSE f : Rec(f)
<1>1. Rec(g)
  <2>1. ASSUME NEW n \in Nat
        PROVE  Halvings(n, w) = IF n \div 2 >= w THEN 1 + g[n \div 2] ELSE 0
    <3>1. n \div 2 \in Nat
      OBVIOUS
    <3>2. g[n \div 2] = Halvings(n \div 2, w)
      BY <3>1
    <3>3. QED
      BY <3>2, HalvingsNext
  <2> DEFINE G == [n \in Nat |-> IF n \div 2 >= w THEN 1 + g[n \div 2] ELSE 0]
  <2>2. \A n \in Nat : g[n] = G[n]
    BY <2>1
  <2>3. g = G
    <3>1. \A n \in Nat : Halvings(n, w) = IF n \div 2 >= w THEN 1 + g[n \div 2] ELSE 0
      BY <2>1
    <3>2. QED
      BY <3>1
  <2>4. QED
    BY <2>3
<1>2. Rec(e)
  <2> HIDE DEF Rec, g
  <2>1. QED
    BY <1>1
<1>3. Estimated(r, w) = e[r]
  BY DEF Estimated
<1> HIDE DEF e
<1>4. \A n \in Nat : e[n] = IF n \div 2 >= w THEN 1 + e[n \div 2] ELSE 0
  BY <1>2
<1> DEFINE B == {n \in Nat : e[n] # Halvings(n, w)}
<1>5. B = {}
  <2>1. SUFFICES ASSUME B # {} PROVE FALSE
    OBVIOUS
  <2>2. PICK n \in B : \A m \in B : n <= m
    BY <2>1, LeastElement
  <2> DEFINE m == n \div 2
  <2>3. n \in Nat /\ m \in Nat /\ 2 * m <= n
    BY <2>2
  <2>4. /\ e[n] = IF m >= w THEN 1 + e[m] ELSE 0
        /\ Halvings(n, w) = IF m >= w THEN 1 + Halvings(m, w) ELSE 0
    BY <1>4, <2>3, HalvingsNext
  <2> HIDE DEF m
  <2>5. CASE m >= w
    <3>1. m < n
      BY <2>3, <2>5
    <3>2. m \notin B
      BY <2>2, <2>3, <3>1
    <3>3. e[m] = Halvings(m, w)
      BY <2>3, <3>2
    <3>4. QED
      BY <2>2, <2>4, <2>5, <3>3
  <2>6. CASE ~(m >= w)
    BY <2>2, <2>4, <2>6
  <2>7. QED
    BY <2>5, <2>6
<1>6. QED
  BY <1>3, <1>5

----------------------------------------------------------------------------
(* Delay lines. *)

LineOf(taps, decimation) ==
    [delay : [0..(taps - 1) -> 0..MaxInput], taps : {taps}, cursor : 0..(taps - 1),
     decimation : {decimation}, phase : 0..(decimation - 1)]

\* The i-th latest multiple of the spacing among n samples.
Nth(i, every, n) ==
    LET m == (n \div every - (i - 1)) * every IN IF m > 0 THEN m ELSE 0

\* After n samples of the capture, a line that gets one in so many has counted them and
\* holds the latest.
Follows(line, taps, decimation, every, n) ==
    /\ line \in LineOf(taps, decimation)
    /\ line.phase = (n \div every) % decimation
    /\ \A i \in 1..taps : line.delay[(line.cursor - i) % taps] = Nth(i, every, n)

LEMMA FreshFollows ==
    ASSUME NEW taps \in Nat \ {0}, NEW decimation \in {1, 2}, NEW every \in Nat \ {0}
    PROVE  Follows(Line(taps, decimation), taps, decimation, every, 0)
<1> DEFINE line == Line(taps, decimation)
<1>1. line \in LineOf(taps, decimation)
  BY BlockAssumption DEF Line, LineOf
<1>2. 0 \div every = 0
  <2>1. 0 = every * 0 + 0 /\ 0 \in 0..(every - 1) /\ 0 \in Int
    OBVIOUS
  <2>2. QED
    BY <2>1, QuotientIs
<1>3. line.phase = (0 \div every) % decimation
  BY <1>2 DEF Line
<1>4. ASSUME NEW i \in 1..taps
      PROVE  line.delay[(line.cursor - i) % taps] = Nth(i, every, 0)
  <2>1. (0 - i) % taps = 0 - i + taps
    <3>1. 0 \in 0..(taps - 1) /\ ~(i <= 0)
      OBVIOUS
    <3>2. QED
      BY <3>1, CursorBack
  <2>2. (0 - (i - 1)) * every <= 0
    OBVIOUS
  <2>3. 0 - i + taps \in 0..(taps - 1)
    OBVIOUS
  <2>4. line.delay[(line.cursor - i) % taps] = 0
    BY <2>1, <2>3 DEF Line
  <2>5. Nth(i, every, 0) = 0
    BY <1>2, <2>2 DEF Nth
  <2>6. QED
    BY <2>4, <2>5
<1>5. QED
  BY <1>1, <1>3, <1>4 DEF Follows

LEMMA PushFollows ==
    ASSUME NEW taps \in Nat \ {0}, NEW decimation \in {1, 2}, NEW every \in Nat \ {0},
           NEW n \in Nat, n + 1 <= MaxInput, (n + 1) % every = 0,
           NEW line, Follows(line, taps, decimation, every, n)
    PROVE  Follows(Push(line, n + 1), taps, decimation, every, n + 1)
<1> DEFINE new == Push(line, n + 1)
           q == n \div every
<1>1. q \in Nat /\ (n + 1) \div every = q + 1 /\ (q + 1) * every = n + 1
  BY Quotient, NextQuotient
<1> HIDE DEF q
<1>2. /\ line \in LineOf(taps, decimation) /\ line.taps = taps
      /\ line.decimation = decimation /\ line.cursor \in 0..(taps - 1)
      /\ line.delay \in [0..(taps - 1) -> 0..MaxInput]
      /\ line.phase = q % decimation
  BY DEF Follows, LineOf, q
<1>3. (line.cursor + 1) % taps = IF line.cursor + 1 = taps THEN 0 ELSE line.cursor + 1
  BY <1>2, CursorStep
<1>4. (line.phase + 1) % decimation = (q + 1) % decimation
      /\ (q + 1) % decimation \in 0..(decimation - 1)
  <2>1. CASE decimation = 1
    BY <1>1, <1>2, <2>1
  <2>2. CASE decimation = 2
    BY <1>1, <1>2, <2>2
  <2>3. QED
    BY <2>1, <2>2
<1>5. new = [line EXCEPT !.delay = [line.delay EXCEPT ![line.cursor] = n + 1],
                         !.cursor = (line.cursor + 1) % taps,
                         !.phase = (line.phase + 1) % decimation]
  BY <1>2 DEF Push, LineOf
<1> HIDE DEF new
<1>6. n + 1 \in 0..MaxInput /\ (line.cursor + 1) % taps \in 0..(taps - 1)
  BY <1>2, <1>3, BlockAssumption
<1>7. [line.delay EXCEPT ![line.cursor] = n + 1] \in [0..(taps - 1) -> 0..MaxInput]
  BY <1>2, <1>6
<1>8. /\ new \in LineOf(taps, decimation)
      /\ new.delay = [line.delay EXCEPT ![line.cursor] = n + 1]
      /\ new.cursor = (line.cursor + 1) % taps
      /\ new.phase = (q + 1) % decimation
  BY <1>2, <1>4, <1>5, <1>6, <1>7 DEF LineOf
<1>9. ASSUME NEW i \in 1..taps
      PROVE  new.delay[(new.cursor - i) % taps] = Nth(i, every, n + 1)
  <2> DEFINE c == line.cursor
  <2>1. c \in 0..(taps - 1)
    BY <1>2
  <2>2. new.cursor \in 0..(taps - 1) /\ new.cursor = IF c + 1 = taps THEN 0 ELSE c + 1
    BY <1>3, <1>6, <1>8
  <2>3. (new.cursor - i) % taps = IF i <= new.cursor THEN new.cursor - i
                                  ELSE new.cursor - i + taps
    BY <2>2, CursorBack
  <2> HIDE DEF c
  <2>4. CASE i = 1
    <3>1. (new.cursor - i) % taps = c
      BY <2>1, <2>2, <2>3, <2>4
    <3>2. new.delay[c] = n + 1
      BY <1>2, <1>8, <2>1 DEF c
    <3>3. Nth(i, every, n + 1) = n + 1
      <4>1. ((n + 1) \div every - (i - 1)) * every = n + 1
        BY <1>1, <2>4
      <4>2. QED
        BY <4>1 DEF Nth
    <3>4. QED
      BY <3>1, <3>2, <3>3
  <2>5. CASE i # 1
    <3> DEFINE j == i - 1
               k == (c - j) % taps
    <3>1. j \in 1..taps /\ j < taps
      BY <2>5
    <3>2. k = IF j <= c THEN c - j ELSE c - j + taps
      BY <2>1, <3>1, CursorBack
    <3>3. (new.cursor - i) % taps = k
      BY <2>1, <2>2, <2>3, <3>1, <3>2
    <3>4. k \in 0..(taps - 1) /\ k # c
      BY <2>1, <3>1, <3>2
    <3> HIDE DEF k
    <3>5. new.delay[k] = line.delay[k]
      BY <1>2, <1>8, <3>4 DEF c
    <3>6. line.delay[k] = Nth(j, every, n)
      BY <3>1 DEF Follows, k, c
    <3>7. Nth(j, every, n) = Nth(i, every, n + 1)
      <4>1. (n + 1) \div every - (i - 1) = n \div every - (j - 1)
        BY <1>1 DEF q
      <4> HIDE DEF j
      <4>2. QED
        BY <4>1 DEF Nth
    <3>8. QED
      BY <3>3, <3>5, <3>6, <3>7
  <2>6. QED
    BY <2>4, <2>5
<1>10. QED
  BY <1>1, <1>8, <1>9 DEF Follows, new

LEMMA KeepFollows ==
    ASSUME NEW taps, NEW decimation, NEW every \in Nat \ {0},
           NEW n \in Nat, (n + 1) % every # 0,
           NEW line, Follows(line, taps, decimation, every, n)
    PROVE  Follows(line, taps, decimation, every, n + 1)
<1>1. (n + 1) \div every = n \div every
  BY NextQuotient
<1>2. QED
  BY <1>1 DEF Follows, Nth

LEMMA WindowIsLatest ==
    ASSUME NEW line, NEW taps, NEW decimation, NEW every,
           Follows(line, taps, decimation, every, fed)
    PROVE  line.taps = taps /\ Window(line) = Latest(line.taps, every)
<1>1. line.taps = taps
  BY DEF Follows, LineOf
<1>2. \A i \in 1..taps : line.delay[(line.cursor - i) % taps] = Nth(i, every, fed)
  BY DEF Follows
<1>3. Latest(taps, every) = [i \in 1..taps |-> Nth(i, every, fed)]
  BY DEF Latest, Nth
<1>4. Window(line) = [i \in 1..taps |-> line.delay[(line.cursor - i) % taps]]
  BY <1>1 DEF Window
<1>5. QED
  BY <1>1, <1>2, <1>3, <1>4

\* The sample that Ssb adds is the one under the middle of an odd number of taps.
LEMMA MiddleTap ==
    ASSUME NEW taps \in Nat \ {0}, taps % 2 = 1, NEW line \in LineOf(taps, 1)
    PROVE  InPhase(line) = Window(line)[(taps + 1) \div 2]
<1> DEFINE h == taps \div 2
           c == line.cursor
           latest == (c - 1) % taps
<1>1. h \in Nat /\ taps = 2 * h + 1 /\ (taps + 1) \div 2 = h + 1
  OBVIOUS
<1>2. c \in 0..(taps - 1) /\ line.taps = taps
  BY DEF LineOf
<1> HIDE DEF h, c
<1>3. latest = IF 1 <= c THEN c - 1 ELSE c - 1 + taps
  <2>1. 1 \in 1..taps
    OBVIOUS
  <2>2. QED
    BY <1>2, <2>1, CursorBack
<1>4. (c - (h + 1)) % taps = IF h + 1 <= c THEN c - (h + 1) ELSE c - (h + 1) + taps
  <2>1. h + 1 \in 1..taps
    BY <1>1
  <2>2. QED
    BY <1>2, <2>1, CursorBack
<1> HIDE DEF latest
<1>5. (latest + taps - h) % taps = (c - (h + 1)) % taps
  <2> DEFINE x == latest + taps - h
             r == IF h + 1 <= c THEN c - (h + 1) ELSE c - (h + 1) + taps
  <2>1. r \in 0..(taps - 1) /\ x \in Int
    BY <1>1, <1>2, <1>3
  <2>2. x = taps * 0 + r \/ x = taps * 1 + r
    BY <1>1, <1>2, <1>3
  <2> HIDE DEF x, r
  <2>3. x % taps = r
    <3>1. 0 \in Int /\ 1 \in Int
      OBVIOUS
    <3>2. QED
      BY <2>1, <2>2, <3>1, QuotientIs
  <2>4. QED
    BY <1>4, <2>3 DEF x, r
<1>6. InPhase(line) = line.delay[(latest + taps - h) % taps]
  BY <1>2 DEF InPhase, Behind, latest, h, c
<1>7. Window(line)[h + 1] = line.delay[(c - (h + 1)) % taps]
  <2>1. h + 1 \in 1..taps
    BY <1>1
  <2>2. QED
    BY <1>2, <2>1 DEF Window, c
<1>8. QED
  BY <1>1, <1>5, <1>6, <1>7
----------------------------------------------------------------------------
(* The chain of stages. *)

Fir(s, length) == IF s < length THEN [taps |-> StageTaps, decimation |-> 2]
                  ELSE [taps |-> ChannelTaps, decimation |-> 1]

Chained(chain, length, n) ==
    /\ DOMAIN chain = 1..length /\ chain \in Seq(LineOf(StageTaps, 2) \cup LineOf(ChannelTaps, 1))
    /\ \A s \in 1..length :
          Follows(chain[s], Fir(s, length).taps, Fir(s, length).decimation,
                  Power[s - 1], n)

ChainInv ==
    /\ rate \in CaptureRates /\ wanted \in WantedRates
    /\ fed \in 0..MaxInput /\ left \in 0..(MaxInput - fed)
    /\ Len(firs) = Halvings(rate, wanted) + 1
    /\ Chained(firs, Len(firs), fed)
    /\ Follows(detector, DetectorTaps, 1, Decimation, fed)
    /\ Follows(resampler, AudioTaps, 1, Decimation, fed)
    /\ phase = AudioRate * Decimation * (fed \div Decimation) - rate * outputs
    /\ phase \in 0..(rate + AudioRate * Decimation - 1)
    /\ outputs \in Nat /\ power \in Levels /\ audible \in BOOLEAN

LEMMA TapsFacts ==
    /\ StageTaps \in Nat \ {0} /\ ChannelTaps \in Nat \ {0} /\ DetectorTaps \in Nat \ {0}
    /\ AudioTaps \in Nat \ {0} /\ DetectorTaps % 2 = 1 /\ MaxInput \in Nat
    /\ AudioRate \in Nat \ {0}
  BY TapsAssumption, BlockAssumption, RatesAssumption

LEMMA FirFacts ==
    ASSUME NEW s, NEW length
    PROVE  Fir(s, length).taps \in Nat \ {0} /\ Fir(s, length).decimation \in {1, 2}
  BY TapsFacts DEF Fir

\* A channel as it is built.
LEMMA BuiltChain ==
    ASSUME NEW r \in CaptureRates, NEW w \in WantedRates, NEW chain,
           chain = Append(Stages(r, w), Line(ChannelTaps, 1))
    PROVE  Len(chain) = Halvings(r, w) + 1 /\ Chained(chain, Len(chain), 0)
<1> DEFINE h == Halvings(r, w)
           S == LineOf(StageTaps, 2) \cup LineOf(ChannelTaps, 1)
<1>1. h \in Nat
  BY HalvingsFacts, RatesAssumption DEF Halves
<1>2. Line(StageTaps, 2) \in S /\ Line(ChannelTaps, 1) \in S
  BY TapsFacts, PowerFacts, FreshFollows DEF Follows
<1>3. Stages(r, w) = [k \in 1..h |-> Line(StageTaps, 2)]
  BY DEF Stages
<1> HIDE DEF h, S
<1>4. Stages(r, w) \in Seq(S) /\ Len(Stages(r, w)) = h
  BY <1>1, <1>2, <1>3
<1>5. /\ chain \in Seq(S) /\ Len(chain) = h + 1 /\ DOMAIN chain = 1..(h + 1)
      /\ \A s \in 1..h : chain[s] = Line(StageTaps, 2)
      /\ chain[h + 1] = Line(ChannelTaps, 1)
  BY <1>1, <1>2, <1>3, <1>4, AppendProperties
<1>6. ASSUME NEW s \in 1..(h + 1)
      PROVE  Follows(chain[s], Fir(s, h + 1).taps, Fir(s, h + 1).decimation,
                     Power[s - 1], 0)
  <2>1. Power[s - 1] \in Nat \ {0}
    <3>1. s - 1 \in Nat
      BY <1>1
    <3>2. QED
      BY <3>1, PowerFacts
  <2>2. chain[s] = Line(Fir(s, h + 1).taps, Fir(s, h + 1).decimation)
    <3>1. CASE s <= h
      <4>1. s \in 1..h /\ s < h + 1
        BY <1>1, <3>1
      <4>2. QED
        BY <1>5, <4>1 DEF Fir
    <3>2. CASE ~(s <= h)
      <4>1. s = h + 1 /\ ~(s < h + 1)
        BY <1>1, <3>2
      <4>2. QED
        BY <1>5, <4>1 DEF Fir
    <3>3. QED
      BY <3>1, <3>2
  <2>3. QED
    BY <2>1, <2>2, FirFacts, FreshFollows
<1>7. QED
  BY <1>5, <1>6 DEF Chained, h, S

LEMMA BuiltLines ==
    ASSUME NEW r \in CaptureRates, NEW w \in WantedRates, NEW chain,
           chain = Append(Stages(r, w), Line(ChannelTaps, 1)),
           NEW d, d = Power[Len(chain) - 1]
    PROVE  /\ Follows(Line(DetectorTaps, 1), DetectorTaps, 1, d, 0)
           /\ Follows(Line(AudioTaps, 1), AudioTaps, 1, d, 0)
           /\ 0 = AudioRate * d * (0 \div d) - r * 0
           /\ 0 \in 0..(r + AudioRate * d - 1)
           /\ 0 \in 0..MaxInput /\ 0 \in 0..(MaxInput - 0)
<1>1. r \in Nat \ {0} /\ w \in Nat \ {0}
  BY RatesAssumption
<1>2. d \in Nat \ {0}
  <2>1. Len(chain) = Halvings(r, w) + 1
    BY BuiltChain
  <2>2. Halvings(r, w) \in Nat
    BY <1>1, HalvingsFacts DEF Halves
  <2>3. Len(chain) - 1 = Halvings(r, w)
    BY <2>1, <2>2
  <2>4. QED
    BY <2>2, <2>3, PowerFacts
<1>3. 0 \div d = 0
  <2>1. 0 = d * 0 + 0 /\ 0 \in 0..(d - 1) /\ 0 \in Int
    BY <1>2
  <2>2. QED
    BY <1>2, <2>1, QuotientIs
<1>4. AudioRate * d \in Nat \ {0}
  BY <1>2, TapsFacts
<1>5. /\ Follows(Line(DetectorTaps, 1), DetectorTaps, 1, d, 0)
      /\ Follows(Line(AudioTaps, 1), AudioTaps, 1, d, 0)
  BY <1>2, TapsFacts, FreshFollows
<1>6. 0 = AudioRate * d * (0 \div d) - r * 0 /\ 0 \in 0..(r + AudioRate * d - 1)
  BY <1>1, <1>3, <1>4
<1>7. QED
  BY <1>5, <1>6, TapsFacts

LEMMA InitChainInv == ChannelInit => ChainInv
<1> SUFFICES ASSUME ChannelInit PROVE ChainInv
  OBVIOUS
<1>1. /\ rate \in CaptureRates /\ wanted \in WantedRates
      /\ firs = Append(Stages(rate, wanted), Line(ChannelTaps, 1))
      /\ detector = Line(DetectorTaps, 1) /\ resampler = Line(AudioTaps, 1)
      /\ phase = 0 /\ fed = 0 /\ outputs = 0 /\ left = 0
      /\ power \in Levels /\ audible \in BOOLEAN
  BY DEF ChannelInit
<1>2. /\ Len(firs) = Halvings(rate, wanted) + 1 /\ Chained(firs, Len(firs), 0)
  BY <1>1, BuiltChain
<1>3. QED
  BY <1>1, <1>2, BuiltLines DEF ChainInv, Decimation

LEMMA RebuildChainInv == ChainInv /\ Rebuild => ChainInv'
<1> SUFFICES ASSUME ChainInv, Rebuild PROVE ChainInv'
  OBVIOUS
<1>1. PICK r \in CaptureRates, w \in WantedRates : Build(r, w)
  BY DEF Rebuild
<1>2. /\ rate' \in CaptureRates /\ wanted' \in WantedRates
      /\ firs' = Append(Stages(rate', wanted'), Line(ChannelTaps, 1))
      /\ detector' = Line(DetectorTaps, 1) /\ resampler' = Line(AudioTaps, 1)
      /\ phase' = 0 /\ fed' = 0 /\ outputs' = 0
  BY <1>1 DEF Build
<1>3. left' = 0 /\ power' \in Levels /\ audible' \in BOOLEAN
  BY DEF Rebuild, Idle, ChainInv
<1>4. /\ Len(firs') = Halvings(rate', wanted') + 1 /\ Chained(firs', Len(firs'), 0)
  BY <1>2, BuiltChain
<1>5. QED
  BY <1>2, <1>3, <1>4, BuiltLines DEF ChainInv, Decimation

----------------------------------------------------------------------------
(* The steps of a channel. *)

LEMMA ChainFacts ==
    ASSUME ChainInv
    PROVE  /\ rate \in Nat \ {0} /\ wanted \in Nat \ {0} /\ fed \in Nat /\ phase \in Nat
           /\ Len(firs) \in Nat \ {0} /\ Decimation \in Nat \ {0}
           /\ AudioRate * Decimation \in Nat \ {0}
           /\ \A s \in 1..Len(firs) : s - 1 \in Nat /\ Power[s - 1] \in Nat \ {0}
<1>1. rate \in Nat \ {0} /\ wanted \in Nat \ {0}
  BY RatesAssumption DEF ChainInv
<1>2. Halvings(rate, wanted) \in Nat
  BY <1>1, HalvingsFacts DEF Halves
<1>3. Len(firs) \in Nat \ {0} /\ Len(firs) - 1 \in Nat
  BY <1>2 DEF ChainInv
<1>4. Decimation \in Nat \ {0}
  BY <1>3, PowerFacts DEF Decimation
<1>5. AudioRate * Decimation \in Nat \ {0}
  BY <1>4, TapsFacts
<1>6. fed \in Nat /\ phase \in Nat
  BY <1>1, <1>5 DEF ChainInv
<1>7. \A s \in 1..Len(firs) : s - 1 \in Nat
  BY <1>3
<1>8. QED
  BY <1>1, <1>3, <1>4, <1>5, <1>6, <1>7, PowerFacts

\* A sample reaches the stage it divides: the phases of the stages before are the bits
\* of the number of samples.
LEMMA ReachedIs ==
    ASSUME ChainInv, NEW s \in 0..(Len(firs) - 1)
    PROVE  (\A t \in 1..s : Fires(firs[t])) <=> (fed + 1) % Power[s] = 0
<1> DEFINE S == {i \in Nat : i < Len(firs) =>
                     ((\A t \in 1..i : Fires(firs[t])) <=> (fed + 1) % Power[i] = 0)}
<1>1. fed \in Nat /\ Len(firs) \in Nat \ {0}
  BY ChainFacts
<1>2. 0 \in S
  <2>1. Power[0] = 1 /\ (fed + 1) % 1 = 0
    BY <1>1, PowerFacts
  <2>2. QED
    BY <2>1
<1>3. ASSUME NEW i \in Nat, i \in S PROVE i + 1 \in S
  <2>1. SUFFICES ASSUME i + 1 < Len(firs)
                 PROVE  (\A t \in 1..(i + 1) : Fires(firs[t]))
                            <=> (fed + 1) % Power[i + 1] = 0
    OBVIOUS
  <2>2. (\A t \in 1..i : Fires(firs[t])) <=> (fed + 1) % Power[i] = 0
    BY <1>1, <1>3, <2>1
  <2>3. Power[i] \in Nat \ {0} /\ Power[i + 1] = 2 * Power[i]
    BY PowerFacts
  <2>4. firs[i + 1].phase = (fed \div Power[i]) % 2 /\ firs[i + 1].decimation = 2
    <3>1. i + 1 \in 1..Len(firs) /\ (i + 1) - 1 = i
      BY <1>1, <2>1
    <3>2. Follows(firs[i + 1], StageTaps, 2, Power[i], fed)
      <4>1. Fir(i + 1, Len(firs)).taps = StageTaps /\ Fir(i + 1, Len(firs)).decimation = 2
        BY <2>1 DEF Fir
      <4>2. QED
        BY <3>1, <4>1 DEF ChainInv, Chained
    <3>3. QED
      BY <3>2 DEF Follows, LineOf
  <2>5. Fires(firs[i + 1]) <=> (fed \div Power[i]) % 2 = 1
    <3>1. fed \div Power[i] \in Nat
      BY <1>1, <2>3, Quotient
    <3>2. (fed \div Power[i]) % 2 \in {0, 1}
      BY <3>1
    <3>3. QED
      BY <2>4, <3>2 DEF Fires
  <2>6. (fed + 1) % Power[i + 1] = 0 <=>
            (fed + 1) % Power[i] = 0 /\ (fed \div Power[i]) % 2 = 1
    BY <1>1, <2>3, HalfDivides
  <2>7. (\A t \in 1..(i + 1) : Fires(firs[t])) <=>
            (\A t \in 1..i : Fires(firs[t])) /\ Fires(firs[i + 1])
    <3>1. 1..(i + 1) = (1..i) \cup {i + 1}
      OBVIOUS
    <3>2. QED
      BY <3>1
  <2>8. QED
    BY <2>2, <2>5, <2>6, <2>7
<1> HIDE DEF S
<1>4. S = Nat
  BY <1>2, <1>3, ByNumbers DEF S
<1>5. s \in Nat /\ s < Len(firs)
  BY <1>1
<1>6. QED
  BY <1>4, <1>5 DEF S

\* A line that a sample reaches takes it, another one stays behind by less than its spacing.
LEMMA LineFollows ==
    ASSUME NEW taps \in Nat \ {0}, NEW decimation \in {1, 2}, NEW every \in Nat \ {0},
           NEW n \in Nat, n + 1 <= MaxInput, NEW line, NEW new,
           Follows(line, taps, decimation, every, n),
           new = IF (n + 1) % every = 0 THEN Push(line, n + 1) ELSE line
    PROVE  Follows(new, taps, decimation, every, n + 1)
  BY PushFollows, KeepFollows

LEMMA SampleChainInv == ChainInv /\ Sample => ChainInv'
<1> SUFFICES ASSUME ChainInv, Sample PROVE ChainInv'
  OBVIOUS
<1> DEFINE Reached(s) == \A t \in 1..(s - 1) : Fires(firs[t])
           Sounded == (fed + 1) % Decimation = 0
<1>1. /\ rate \in Nat \ {0} /\ fed \in Nat /\ phase \in Nat /\ Len(firs) \in Nat \ {0}
      /\ Decimation \in Nat \ {0} /\ AudioRate * Decimation \in Nat \ {0}
      /\ \A s \in 1..Len(firs) : s - 1 \in Nat /\ Power[s - 1] \in Nat \ {0}
  BY ChainFacts
<1>2. \A s \in 1..Len(firs) : Reached(s) <=> (fed + 1) % Power[s - 1] = 0
  <2>1. \A s \in 1..Len(firs) : s - 1 \in 0..(Len(firs) - 1)
    BY <1>1
  <2>2. QED
    BY <2>1, ReachedIs
<1>3. Reached(Len(firs) + 1) <=> Sounded
  <2>1. Len(firs) \in 1..Len(firs) /\ (Len(firs) + 1) - 1 = Len(firs)
        /\ 1..Len(firs) = (1..(Len(firs) - 1)) \cup {Len(firs)}
    BY <1>1
  <2>2. firs[Len(firs)].phase = 0 /\ firs[Len(firs)].decimation = 1
    <3>1. Follows(firs[Len(firs)], ChannelTaps, 1, Power[Len(firs) - 1], fed)
      <4>1. ~(Len(firs) < Len(firs))
        BY <1>1
      <4>2. Fir(Len(firs), Len(firs)).taps = ChannelTaps
            /\ Fir(Len(firs), Len(firs)).decimation = 1
        BY <4>1 DEF Fir
      <4>3. QED
        BY <2>1, <4>2 DEF ChainInv, Chained
    <3>2. QED
      BY <3>1 DEF Follows, LineOf
  <2>3. Fires(firs[Len(firs)])
    BY <2>2 DEF Fires
  <2>4. Reached(Len(firs) + 1) <=> Reached(Len(firs))
    BY <2>1, <2>3
  <2>5. QED
    BY <1>2, <2>1, <2>4 DEF Decimation
<1>4. /\ left > 0 /\ phase < rate /\ left' = left - 1 /\ fed' = fed + 1
      /\ firs' = [s \in DOMAIN firs |-> IF Reached(s) THEN Push(firs[s], fed + 1)
                                        ELSE firs[s]]
      /\ detector' = IF Reached(Len(firs) + 1) THEN Push(detector, fed + 1) ELSE detector
      /\ resampler' = IF Reached(Len(firs) + 1) THEN Push(resampler, fed + 1)
                      ELSE resampler
      /\ phase' = IF Reached(Len(firs) + 1) THEN phase + AudioRate * Decimation ELSE phase
      /\ UNCHANGED <<rate, wanted, outputs, power, audible>>
  BY DEF Sample, squelchVars
<1> HIDE DEF Reached
<1>5. fed' \in 0..MaxInput /\ left' \in 0..(MaxInput - fed') /\ fed + 1 <= MaxInput
  BY <1>1, <1>4, TapsFacts DEF ChainInv
<1>6. DOMAIN firs = 1..Len(firs) /\ DOMAIN firs' = 1..Len(firs)
  BY <1>4 DEF ChainInv, Chained
<1>7. ASSUME NEW s \in 1..Len(firs)
      PROVE  Follows(firs'[s], Fir(s, Len(firs)).taps, Fir(s, Len(firs)).decimation,
                     Power[s - 1], fed + 1)
  <2>1. firs'[s] = IF (fed + 1) % Power[s - 1] = 0 THEN Push(firs[s], fed + 1)
                   ELSE firs[s]
    BY <1>2, <1>4, <1>6
  <2>2. Follows(firs[s], Fir(s, Len(firs)).taps, Fir(s, Len(firs)).decimation,
                Power[s - 1], fed)
    BY DEF ChainInv, Chained
  <2>3. QED
    BY <1>1, <1>5, <2>1, <2>2, FirFacts, LineFollows
<1>8. firs' \in Seq(LineOf(StageTaps, 2) \cup LineOf(ChannelTaps, 1))
      /\ Len(firs') = Len(firs)
  <2>1. \A s \in 1..Len(firs) :
           firs'[s] \in LineOf(StageTaps, 2) \cup LineOf(ChannelTaps, 1)
    BY <1>7 DEF Follows, Fir
  <2>2. firs' = [s \in 1..Len(firs) |-> firs'[s]]
    BY <1>4, <1>6
  <2>3. QED
    BY <1>1, <2>1, <2>2
<1>9. Chained(firs', Len(firs'), fed')
  BY <1>4, <1>6, <1>7, <1>8 DEF Chained
<1>10. Decimation' = Decimation
  BY <1>8 DEF Decimation
<1>11. /\ Follows(detector', DetectorTaps, 1, Decimation, fed + 1)
       /\ Follows(resampler', AudioTaps, 1, Decimation, fed + 1)
  BY <1>1, <1>3, <1>4, <1>5, TapsFacts, LineFollows DEF ChainInv
<1>12. /\ phase' = AudioRate * Decimation * (fed' \div Decimation) - rate * outputs
       /\ phase' \in 0..(rate + AudioRate * Decimation - 1)
  <2> DEFINE a == AudioRate * Decimation
             q == fed \div Decimation
             d == rate * outputs
  <2>1. a \in Nat \ {0} /\ q \in Nat /\ phase = a * q - d
    BY <1>1, Quotient DEF ChainInv
  <2>2. fed' \div Decimation = IF Sounded THEN q + 1 ELSE q
    BY <1>1, <1>4, NextQuotient
  <2>3. phase' = IF Sounded THEN phase + a ELSE phase
    BY <1>3, <1>4
  <2> HIDE DEF a, q, Sounded
  <2>4. a * (q + 1) = a * q + a /\ a * q \in Nat
    BY <2>1
  <2>5. d \in Int
    BY <1>1, <2>1, <2>4 DEF ChainInv
  <2> HIDE DEF d
  <2>6. phase' = a * (fed' \div Decimation) - d
    BY <1>1, <2>1, <2>2, <2>3, <2>4, <2>5
  <2>7. phase' \in 0..(rate + a - 1)
    BY <1>1, <1>4, <2>1, <2>3
  <2>8. QED
    BY <2>6, <2>7 DEF a, d
<1>13. QED
  BY <1>4, <1>5, <1>8, <1>9, <1>10, <1>11, <1>12 DEF ChainInv

LEMMA BlockChainInv == ChainInv /\ StartBlock => ChainInv'
<1> SUFFICES ASSUME ChainInv, StartBlock PROVE ChainInv'
  OBVIOUS
<1>1. PICK count \in BlockSizes :
          /\ fed + count <= MaxInput /\ left' = count
          /\ power' \in IF (fed + count) \div Decimation > fed \div Decimation
                        THEN Levels ELSE {power}
  BY DEF StartBlock
<1>2. UNCHANGED lineVars /\ audible' \in BOOLEAN
  BY DEF StartBlock
<1>3. left' \in 0..(MaxInput - fed)
  <2>1. count \in Nat /\ fed \in Nat /\ MaxInput \in Nat
    BY ChainFacts, BlockAssumption
  <2>2. QED
    BY <1>1, <2>1
<1>4. power' \in Levels
  BY <1>1 DEF ChainInv
<1>5. QED
  BY <1>2, <1>3, <1>4 DEF ChainInv, lineVars, Decimation

LEMMA OutputChainInv == ChainInv /\ Output => ChainInv'
<1> SUFFICES ASSUME ChainInv, Output PROVE ChainInv'
  OBVIOUS
<1>1. /\ phase >= rate /\ phase' = phase - rate /\ outputs' = outputs + 1
      /\ UNCHANGED <<rate, wanted, firs, detector, resampler, fed, left, power, audible>>
  BY DEF Output, Resample
<1> DEFINE a == AudioRate * Decimation
           q == fed \div Decimation
<1>2. rate \in Nat \ {0} /\ a \in Nat \ {0} /\ q \in Nat /\ outputs \in Nat /\ phase \in Nat
  BY ChainFacts, Quotient DEF ChainInv
<1>3. a * q \in Nat /\ rate * (outputs + 1) = rate * outputs + rate /\ rate * outputs \in Nat
  BY <1>2
<1>4. phase = a * q - rate * outputs /\ phase \in 0..(rate + a - 1)
  BY DEF ChainInv
<1> HIDE DEF a, q
<1>5. phase' = a * q - rate * outputs' /\ phase' \in 0..(rate + a - 1)
  BY <1>1, <1>2, <1>3, <1>4
<1>6. outputs' \in Nat
  BY <1>1, <1>2
<1>7. QED
  BY <1>1, <1>5, <1>6 DEF ChainInv, Decimation, a, q

LEMMA NextChainInv == ChainInv /\ [ChannelNext]_channelVars => ChainInv'
<1>1. ChainInv /\ UNCHANGED channelVars => ChainInv'
  BY DEF channelVars, lineVars, squelchVars, ChainInv, Decimation
<1>2. QED
  BY <1>1, RebuildChainInv, BlockChainInv, SampleChainInv, OutputChainInv DEF ChannelNext

LEMMA IsLineOf ==
    ASSUME NEW taps, NEW decimation \in Nat, NEW line \in LineOf(taps, decimation)
    PROVE  IsLine(line, {decimation})
  BY DEF IsLine, LineOf

\* Every variable of a channel keeps its type: lines hold samples of the capture, cursors and
\* phases stay in their ranges, however the capture is cut and whenever it is rebuilt
\* (Fir::push, Ssb::process, AudioPipeline::process).
THEOREM ChannelTypeCorrect == ChannelSpec => []ChannelTypeOK
<1>1. ChainInv /\ Ranges => ChannelTypeOK
  <2> SUFFICES ASSUME ChainInv, Ranges PROVE ChannelTypeOK
    OBVIOUS
  <2>1. ASSUME NEW s \in DOMAIN firs PROVE IsLine(firs[s], {1, 2})
    <3>1. /\ firs[s] \in LineOf(Fir(s, Len(firs)).taps, Fir(s, Len(firs)).decimation)
          /\ Fir(s, Len(firs)).decimation \in {1, 2}
      BY <2>1, FirFacts DEF ChainInv, Chained, Follows
    <3>2. IsLine(firs[s], {Fir(s, Len(firs)).decimation})
      BY <3>1, IsLineOf
    <3>3. QED
      BY <3>1, <3>2 DEF IsLine
  <2>2. IsLine(detector, {1}) /\ IsLine(resampler, {1})
    BY IsLineOf DEF ChainInv, Follows
  <2>3. {above, audible, open} \subseteq BOOLEAN
    BY DEF ChainInv, Ranges
  <2>4. QED
    BY <2>1, <2>2, <2>3 DEF ChainInv, Ranges, ChannelTypeOK
<1>2. QED
  BY <1>1, InitChainInv, NextChainInv, InitSquelchInv, NextSquelchInv, PTL
     DEF ChannelSpec, SquelchInv

\* However the capture is cut into blocks, every filter of the path meets the latest samples
\* of its own rate, the newest with its first tap, and Ssb adds the real part of the sample
\* under its middle tap (channel.rs, demod.rs, audio.rs).
THEOREM FiltersTheorem == ChannelSpec => []FiltersSeeLatest
<1>1. ChainInv => FiltersSeeLatest
  <2> SUFFICES ASSUME ChainInv PROVE FiltersSeeLatest
    OBVIOUS
  <2>1. ASSUME NEW s \in DOMAIN firs
        PROVE  Window(firs[s]) = Latest(firs[s].taps, Power[s - 1])
    BY <2>1, WindowIsLatest DEF ChainInv, Chained
  <2>2. /\ Window(detector) = Latest(detector.taps, Decimation)
        /\ Window(resampler) = Latest(resampler.taps, Decimation)
    BY WindowIsLatest DEF ChainInv
  <2>3. InPhase(detector) = Window(detector)[(detector.taps + 1) \div 2]
    <3>1. detector \in LineOf(DetectorTaps, 1) /\ detector.taps = DetectorTaps
      BY DEF ChainInv, Follows, LineOf
    <3>2. QED
      BY <3>1, TapsFacts, MiddleTap
  <2>4. QED
    BY <2>1, <2>2, <2>3 DEF FiltersSeeLatest
<1>2. QED
  BY <1>1, InitChainInv, NextChainInv, PTL DEF ChannelSpec

\* Output k stands for instant k times the ratio of the rates, and Channelizer::new builds as
\* many halving stages as estimated_work, which rounds down, admits.
THEOREM RateTheorem == ChannelSpec => []NeverDrifts
<1>1. ChainInv => NeverDrifts
  <2> SUFFICES ASSUME ChainInv PROVE NeverDrifts
    OBVIOUS
  <2>1. rate \in Nat /\ wanted \in Nat \ {0}
    BY ChainFacts
  <2>2. Estimated(rate, wanted) = Halvings(rate, wanted)
    BY <2>1, EstimatedIsHalvings
  <2>3. Halvings(rate, wanted) \in Nat
    BY <2>1, HalvingsFacts DEF Halves
  <2>4. Len(firs) - 1 = Estimated(rate, wanted)
    BY <2>2, <2>3 DEF ChainInv
  <2>5. QED
    BY <2>4 DEF ChainInv, NeverDrifts
<1>2. QED
  BY <1>1, InitChainInv, NextChainInv, PTL DEF ChannelSpec
----------------------------------------------------------------------------
(* ReceiverBank. *)

USE ValuesAssumption, BoundAssumption
USE DEF NextId

----------------------------------------------------------------------------
(* Operators. *)

LEMMA MinFacts ==
    ASSUME NEW S \in SUBSET Nat, S # {}
    PROVE  Min(S) \in S
  BY LeastElement DEF Min

LEMMA WorkFacts ==
    ASSUME NEW config \in Configs, NEW c \in Captures
    PROVE  Work(c.rate, config) \in Nat
<1>1. c.rate \in Nat /\ config.bandwidth \in Nat
  BY DEF Configs, Captures
<1>2. QED
  BY <1>1 DEF Work

\* Nothing fits into the settings of hardware that is not opened.
LEMMA FitsFacts ==
    ASSUME NEW config \in Configs, NEW c \in Captures \cup {Closed}, Fits(config, c)
    PROVE  c \in Captures
<1>1. config.frequency \in Nat /\ config.bandwidth \in Nat \ {0}
  BY DEF Configs
<1>2. CASE c = Closed
  <2>1. c.center = 0 /\ c.rate = 0
    BY <1>2 DEF Closed
  <2>2. 2 * config.frequency + config.bandwidth <= 0
    BY <1>1, <2>1 DEF Fits
  <2>3. QED
    BY <1>1, <2>2
<1>3. QED
  BY <1>2

\* Absent and Closed are no captures; a block comes with settings of one.
LEMMA SourceFacts ==
    TypeOK => /\ Reported \in Captures \cup {Closed}
              /\ Heard # Absent => Heard \in Captures
<1>1. Absent \notin Captures /\ Closed \notin Captures /\ Absent # Closed
  BY DEF Absent, Closed, Captures
<1>2. QED
  BY <1>1 DEF TypeOK, Reported, Heard

----------------------------------------------------------------------------
(* Types, and the edits. *)

\* A table of receivers: the registry, or what the pass still has of its copy.
Table(t) == t = [i \in DOMAIN t |-> t[i]] /\ \A i \in DOMAIN t : t[i] \in Receiver

BankInv ==
    /\ TypeOK /\ EditsStick
    /\ Table(registry) /\ Table(batch) /\ asked = [i \in DOMAIN asked |-> asked[i]]
    /\ spent \in Nat /\ spent <= WorkBudget

LEMMA InitBankInv == Init => BankInv
<1> SUFFICES ASSUME Init PROVE BankInv
  OBVIOUS
<1>1. DOMAIN Empty = {} /\ Empty = [i \in DOMAIN Empty |-> Empty[i]]
  BY DEF Empty
<1>2. /\ hardware \in BOOLEAN /\ streaming \in BOOLEAN
      /\ (streaming => hardware /\ device \in Captures)
  <2>1. Absent \notin Captures
    BY DEF Absent, Captures
  <2>2. QED
    BY <2>1 DEF Init
<1>3. QED
  BY <1>1, <1>2 DEF Init, BankInv, TypeOK, EditsStick, Table

\* put: the request's configuration is stored and remembered together.
LEMMA PutBankInv ==
    ASSUME BankInv, NEW i, NEW config \in Configs, NEW others, Put(i, config, others),
           i \in 1..(next' - 1), next' \in {next, next + 1},
            next' \in 1..(MaxReceivers + 1),
           UNCHANGED <<sourceVars, hCapture, edits, passVars>>
    PROVE  BankInv'
<1> DEFINE entry == [config |-> config, suspended |-> FALSE,
                     processed |-> IF i \in DOMAIN registry
                                   THEN registry[i].processed ELSE 0]
<1>1. entry \in Receiver /\ entry.config = config
  <2>1. i \in DOMAIN registry => registry[i].processed \in 0..MaxProcessed
    BY DEF BankInv, TypeOK, Receiver
  <2>2. QED
    BY <2>1 DEF Receiver
<1>2. /\ registry' = [j \in DOMAIN registry \cup {i} |->
                         IF j # i THEN registry[j] ELSE entry]
      /\ asked' = [j \in DOMAIN asked \cup {i} |-> IF j = i THEN config ELSE asked[j]]
      /\ hPc' = "idle"
  BY DEF Put
<1> HIDE DEF entry
<1>3. /\ DOMAIN registry' = DOMAIN registry \cup {i}
      /\ DOMAIN asked' = DOMAIN asked \cup {i}
      /\ registry'[i] = entry /\ asked'[i] = config
      /\ \A j \in DOMAIN registry : j # i =>
            registry'[j] = registry[j] /\ asked'[j] = asked[j]
  BY <1>2 DEF BankInv, TypeOK
<1>4. Table(registry') /\ asked' = [j \in DOMAIN asked' |-> asked'[j]]
  BY <1>1, <1>2, <1>3 DEF BankInv, Table
<1>5. EditsStick'
  BY <1>1, <1>3 DEF BankInv, EditsStick
<1>6. TypeOK'
  <2>1. DOMAIN registry' \subseteq 1..(next' - 1)
    BY <1>3 DEF BankInv, TypeOK
  <2>2. used' \subseteq Captures
    BY FitsFacts DEF Put, Admitted, BankInv, TypeOK
  <2>3. QED
    BY <1>2, <1>3, <1>4, <2>1, <2>2 DEF BankInv, TypeOK, sourceVars, passVars, Table
<1>7. QED
  BY <1>4, <1>5, <1>6 DEF BankInv, passVars

LEMMA RemoveBankInv == BankInv /\ RemoveVfo => BankInv'
<1> SUFFICES ASSUME BankInv, RemoveVfo PROVE BankInv'
  OBVIOUS
<1>1. PICK i \in DOMAIN registry :
          /\ registry' = [j \in DOMAIN registry \ {i} |-> registry[j]]
          /\ asked' = [j \in DOMAIN registry \ {i} |-> asked[j]]
  BY DEF RemoveVfo, Restrict
<1>2. Table(registry') /\ EditsStick' /\ asked' = [j \in DOMAIN asked' |-> asked'[j]]
  BY <1>1 DEF BankInv, Table, EditsStick, TypeOK
<1>3. /\ DOMAIN registry' \subseteq DOMAIN registry /\ DOMAIN asked' = DOMAIN registry'
      /\ edits' = edits + 1 /\ edits < MaxEdits
      /\ UNCHANGED <<sourceVars, next, hPc, hCapture, passVars, used>>
  BY <1>1 DEF RemoveVfo
<1>4. TypeOK'
  BY <1>2, <1>3 DEF BankInv, TypeOK, sourceVars, passVars, Table
<1>5. QED
  BY <1>2, <1>3, <1>4 DEF BankInv, passVars

----------------------------------------------------------------------------
(* The pass. *)

\* publish replaces a receiver by one of the same configuration.
LEMMA PublishFacts ==
    ASSUME BankInv, NEW i, NEW receiver \in Receiver, Publish(i, receiver)
    PROVE  /\ DOMAIN registry' = DOMAIN registry /\ Table(registry')
           /\ \A j \in DOMAIN registry : registry'[j].config = registry[j].config
<1>1. registry' = [j \in DOMAIN registry |->
                      IF j = i /\ registry[j].config = receiver.config
                      THEN receiver ELSE registry[j]]
  BY DEF Publish
<1>2. QED
  BY <1>1 DEF BankInv, Table

LEMMA ServeBankInv == BankInv /\ Serve => BankInv'
<1> SUFFICES ASSUME BankInv, Serve PROVE BankInv'
  OBVIOUS
<1> DEFINE i == Min(DOMAIN batch)
<1>1. DOMAIN batch \in SUBSET Ids /\ DOMAIN batch # {}
  BY DEF BankInv, TypeOK, Serve, Empty, Table
<1>2. i \in DOMAIN batch /\ i \in Ids
  BY <1>1, MinFacts DEF Ids
<1>3. batch[i] \in Receiver
  BY <1>2 DEF BankInv, TypeOK
<1>4. /\ Suspend(i) \/ Channelize(i) \/ Silence(i)
      /\ batch' = [j \in DOMAIN batch \ {i} |-> batch[j]]
      /\ UNCHANGED <<sourceVars, next, asked, hPc, hCapture, edits, pass, passCapture,
                     used>>
  BY DEF Serve, Restrict, handlerVars
<1> HIDE DEF i
<1>5. /\ \E receiver \in Receiver : Publish(i, receiver)
      /\ channels' \subseteq Ids
      /\ spent' \in Nat /\ spent' <= WorkBudget /\ budget' = WorkBudget - spent'
  <2>1. spent \in Nat /\ spent <= WorkBudget /\ budget = WorkBudget - spent
        /\ channels \subseteq Ids
    BY DEF BankInv, TypeOK
  <2>2. CASE Suspend(i)
    <3>1. [batch[i] EXCEPT !.suspended = TRUE] \in Receiver
      BY <1>3 DEF Receiver
    <3>2. QED
      BY <2>1, <2>2, <3>1 DEF Suspend
  <2>3. CASE Channelize(i)
    <3> DEFINE cost == Work(passCapture.rate, batch[i].config)
    <3>1. cost \in Nat /\ cost <= budget
      BY <1>3, <2>3, WorkFacts DEF Channelize, Affordable, BankInv, TypeOK, Receiver
    <3>2. budget' = budget - cost /\ spent' = spent + cost
      BY <2>3 DEF Channelize
    <3> HIDE DEF cost
    <3>3. spent' \in Nat /\ spent' <= WorkBudget /\ budget' = WorkBudget - spent'
      BY <2>1, <3>1, <3>2
    <3>4. Measured(batch[i]) \in Receiver
      <4>1. batch[i].processed \in 0..MaxProcessed
        BY <1>3 DEF Receiver
      <4>2. (IF batch[i].processed < MaxProcessed THEN batch[i].processed + 1
             ELSE batch[i].processed) \in 0..MaxProcessed
        BY <4>1
      <4>3. QED
        BY <1>3, <4>2 DEF Measured, Receiver
    <3>5. QED
      BY <1>2, <2>1, <2>3, <3>3, <3>4 DEF Channelize
  <2>4. CASE Silence(i)
    BY <1>3, <2>1, <2>4 DEF Silence
  <2>5. QED
    BY <1>4, <2>2, <2>3, <2>4
<1>6. /\ DOMAIN registry' = DOMAIN registry /\ Table(registry')
      /\ \A j \in DOMAIN registry : registry'[j].config = registry[j].config
  BY <1>5, PublishFacts
<1>7. EditsStick'
  BY <1>4, <1>6 DEF BankInv, EditsStick
<1>8. Table(batch') /\ DOMAIN batch' \subseteq DOMAIN batch
  BY <1>4 DEF BankInv, Table
<1>9. TypeOK'
  BY <1>4, <1>5, <1>6, <1>8 DEF BankInv, TypeOK, Table, sourceVars
<1>10. QED
  BY <1>4, <1>5, <1>6, <1>7, <1>8, <1>9 DEF BankInv

----------------------------------------------------------------------------
LEMMA NextBankInv == BankInv /\ [Next]_vars => BankInv'
<1> SUFFICES ASSUME BankInv, [Next]_vars PROVE BankInv'
  OBVIOUS
<1> USE DEF BankInv, TypeOK, EditsStick, Table
<1>0. /\ Reported \in Captures \cup {Closed}
      /\ Heard # Absent => Heard \in Captures
  BY SourceFacts
<1>1. CASE SourceChange
  <2>1. /\ mock' \in Captures /\ file' \in Captures \cup {Absent}
        /\ device' \in Captures \cup {Closed, Absent}
        /\ hardware' \in BOOLEAN /\ streaming' \in BOOLEAN
        /\ streaming' => hardware' /\ device' \in Captures
    <3>1. CASE Tune
      BY <3>1 DEF Tune
    <3>2. CASE PlaybackLoad
      BY <3>2 DEF PlaybackLoad
    <3>3. CASE PlaybackClear
      BY <3>3 DEF PlaybackClear
    <3>4. CASE Retune
      BY <3>4 DEF Retune
    <3>5. CASE StopStream
      BY <3>5 DEF StopStream
    <3>6. QED
      BY <1>1, <3>1, <3>2, <3>3, <3>4, <3>5 DEF SourceChange
  <2>2. Change
    BY <1>1 DEF SourceChange, Tune, PlaybackLoad, PlaybackClear, Retune, StopStream
  <2>3. QED
    BY <2>1, <2>2 DEF Change, registryVars, handlerVars, passVars
<1>14. CASE TakeStream
  BY <1>14 DEF TakeStream, registryVars, handlerVars
<1>2. CASE Snapshot
  BY <1>0, <1>2 DEF Snapshot, sourceVars, registryVars, passVars
<1>3. CASE AddVfo
  <2>1. PICK config \in Configs : Put(next, config, DOMAIN registry)
    BY <1>3 DEF AddVfo
  <2>2. /\ next \in 1..(next' - 1) /\ next' = next + 1
        /\ next' \in 1..(MaxReceivers + 1)
    BY <1>3 DEF AddVfo, Ids
  <2>3. QED
    BY <1>3, <2>1, <2>2, PutBankInv DEF AddVfo
<1>4. CASE UpdateVfo
  <2>1. PICK i \in DOMAIN registry, config \in Configs :
            Put(i, config, DOMAIN registry \ {i})
    BY <1>4 DEF UpdateVfo
  <2>2. i \in 1..(next' - 1) /\ next' = next /\ next' \in 1..(MaxReceivers + 1)
    BY <1>4 DEF UpdateVfo
  <2>3. QED
    BY <1>4, <2>1, <2>2, PutBankInv DEF UpdateVfo
<1>5. CASE GiveUp
  BY <1>5 DEF GiveUp, sourceVars, registryVars, passVars
<1>6. CASE RemoveVfo
  BY <1>6, RemoveBankInv
<1>7. CASE BeginBlock
  BY <1>0, <1>7 DEF BeginBlock, sourceVars, registryVars, handlerVars, Ids
<1>8. CASE Pause
  BY <1>8 DEF Pause, sourceVars, registryVars, handlerVars, Ids
<1>9. CASE Reset
  BY <1>9 DEF Reset, sourceVars, registryVars, handlerVars
<1>10. CASE Serve
  BY <1>10, ServeBankInv
<1>11. CASE EndPass
  BY <1>11 DEF EndPass, sourceVars, registryVars, handlerVars
<1>12. CASE UNCHANGED vars
  BY <1>12 DEF vars, sourceVars, registryVars, handlerVars, passVars
<1>13. QED
  BY <1>1, <1>2, <1>3, <1>4, <1>5, <1>6, <1>7, <1>8, <1>9, <1>10, <1>11, <1>12, <1>14
     DEF Next, Edit

\* Registry, copies and channels keep their types; the budget of the pass is what it has
\* not spent, and every ID is below the next one.
THEOREM TypeCorrect == Spec => []TypeOK
<1>1. BankInv => TypeOK
  BY DEF BankInv
<1>2. QED
  BY <1>1, InitBankInv, NextBankInv, PTL DEF Spec

\* A PATCH answered with success is not undone by the block that was being processed
\* with the former configuration (VfoBank::publish).
THEOREM EditsTheorem == Spec => []EditsStick
<1>1. BankInv => EditsStick
  BY DEF BankInv
<1>2. QED
  BY <1>1, InitBankInv, NextBankInv, PTL DEF Spec

----------------------------------------------------------------------------
(* What admission promises, for as long as admission and pass go by one capture. *)

\* put's sum is one.
LEMMA TotalWorkIsSum ==
    ASSUME NEW f, NEW r, NEW S, IsFiniteSet(S),
           \A i \in S : f[i] = Work(r, registry[i].config)
    PROVE  TotalWork(r, S) = SumOver(f, S)
<1> DEFINE Here(it) == it = [s \in SUBSET S |->
                IF s = {} THEN 0
                ELSE Work(r, registry[CHOOSE x \in s : TRUE].config)
                         + it[s \ {CHOOSE x \in s : TRUE}]]
           it == CHOOSE it : Here(it)
           jt == CHOOSE jt : Sums(jt, f, S)
<1>1. TotalWork(r, S) = it[S]
  BY DEF TotalWork, MapThenSumSet, MapThenFoldSet
<1>2. ASSUME NEW kt PROVE Here(kt) <=> Sums(kt, f, S)
  <2>1. \A s \in SUBSET S :
           (IF s = {} THEN 0
            ELSE Work(r, registry[CHOOSE x \in s : TRUE].config)
                         + kt[s \ {CHOOSE x \in s : TRUE}])
           = IF s = {} THEN 0 ELSE f[One(s)] + kt[s \ {One(s)}]
    <3>1. \A s \in SUBSET S : s # {} => One(s) \in S
      BY OneFacts
    <3>2. \A s : One(s) = CHOOSE x \in s : TRUE
      BY DEF One
    <3>3. ASSUME NEW s \in SUBSET S, s # {}
          PROVE  Work(r, registry[CHOOSE x \in s : TRUE].config) = f[One(s)]
      <4>1. One(s) \in S
        BY <3>1, <3>3
      <4>2. QED
        BY <3>2, <4>1
    <3>4. QED
      BY <3>3 DEF One
  <2>2. QED
    BY <2>1 DEF Sums
<1>3. Sums(jt, f, S)
  BY SumsExist
<1>4. Here(it)
  <2>1. Here(jt)
    BY <1>2, <1>3
  <2> HIDE DEF Here, jt
  <2>2. QED
    BY <2>1
<1>5. Sums(it, f, S)
  BY <1>2, <1>4
<1> HIDE DEF it, jt, Here
<1>6. it[S] = jt[S]
  BY <1>3, <1>5, SameSums
<1>7. QED
  BY <1>1, <1>6 DEF SumOver, jt

\* The work of a table of receivers.
Loads(t, r) == [i \in DOMAIN t |-> Work(r, t[i].config)]
Cost(t, r) == SumOver(Loads(t, r), DOMAIN t)

Without(t, i) == [j \in DOMAIN t \ {i} |-> t[j]]

\* Receivers that the capture has room for and that nobody suspended.
Kept(t, c) == \A i \in DOMAIN t : ~t[i].suspended /\ Fits(t[i].config, c)

\* As long as no other capture than c was used, what c has room for is what there is.
AdmitInv ==
    /\ pass = "block" => passCapture \in used
    /\ \A c \in Captures : used \subseteq {c} =>
           /\ Kept(registry, c) /\ Cost(registry, c.rate) <= WorkBudget
           /\ Kept(batch, c) /\ (pass = "block" => Cost(batch, c.rate) <= budget)

Receivers(t) == IsFiniteSet(DOMAIN t) /\ \A i \in DOMAIN t : t[i] \in Receiver

LEMMA LoadFacts ==
    ASSUME NEW t, Receivers(t), NEW c \in Captures
    PROVE  /\ \A i \in DOMAIN t : Work(c.rate, t[i].config) \in Nat
           /\ Cost(t, c.rate) \in Nat
<1>1. \A i \in DOMAIN t : Work(c.rate, t[i].config) \in Nat
  <2>1. \A i \in DOMAIN t : t[i].config \in Configs
    BY DEF Receivers, Receiver
  <2>2. QED
    BY <2>1, WorkFacts
<1>2. \A i \in DOMAIN t : Loads(t, c.rate)[i] \in Nat
  BY <1>1 DEF Loads
<1>3. Cost(t, c.rate) \in Nat
  BY <1>2, SumType DEF Cost, Receivers
<1>4. QED
  BY <1>1, <1>3

\* The work of the receivers is that of one of them and that of the others.
LEMMA CostWithout ==
    ASSUME NEW t, Receivers(t), NEW c \in Captures, NEW i \in DOMAIN t
    PROVE  /\ Cost(t, c.rate) = Work(c.rate, t[i].config) + Cost(Without(t, i), c.rate)
           /\ Work(c.rate, t[i].config) \in Nat /\ Cost(Without(t, i), c.rate) \in Nat
           /\ Receivers(Without(t, i)) /\ DOMAIN Without(t, i) = DOMAIN t \ {i}
<1>1. /\ DOMAIN Without(t, i) = DOMAIN t \ {i}
      /\ \A j \in DOMAIN t \ {i} : Without(t, i)[j] = t[j]
  BY DEF Without
<1>2. Receivers(Without(t, i))
  <2>1. IsFiniteSet(DOMAIN t \ {i})
    BY FS_Subset DEF Receivers
  <2>2. QED
    BY <1>1, <2>1 DEF Receivers
<1>3. \A j \in DOMAIN t : Loads(t, c.rate)[j] \in Nat
  BY LoadFacts DEF Loads
<1>4. SumOver(Loads(t, c.rate), DOMAIN t)
          = Loads(t, c.rate)[i] + SumOver(Loads(t, c.rate), DOMAIN t \ {i})
  BY <1>3, SumWithout DEF Receivers
<1>5. SumOver(Loads(t, c.rate), DOMAIN t \ {i})
          = SumOver(Loads(Without(t, i), c.rate), DOMAIN t \ {i})
  <2>1. \A j \in DOMAIN t \ {i} : Loads(t, c.rate)[j] = Loads(Without(t, i), c.rate)[j]
    BY <1>1 DEF Loads
  <2>2. IsFiniteSet(DOMAIN t \ {i})
    BY <1>1, <1>2 DEF Receivers
  <2>3. QED
    BY <2>1, <2>2, SameSum
<1>6. Loads(t, c.rate)[i] = Work(c.rate, t[i].config)
  BY DEF Loads
<1>7. QED
  BY <1>1, <1>2, <1>4, <1>5, <1>6, LoadFacts DEF Cost

LEMMA SameCost ==
    ASSUME NEW t, Receivers(t), NEW u, DOMAIN u = DOMAIN t,
           \A i \in DOMAIN t : u[i].config = t[i].config, NEW r
    PROVE  Cost(u, r) = Cost(t, r)
<1>1. \A i \in DOMAIN t : Loads(u, r)[i] = Loads(t, r)[i]
  BY DEF Loads
<1>2. QED
  BY <1>1, SameSum DEF Cost, Receivers

LEMMA TotalWorkIsCost ==
    ASSUME NEW t, Receivers(t), \A i \in DOMAIN t : registry[i].config = t[i].config,
           NEW r
    PROVE  TotalWork(r, DOMAIN t) = Cost(t, r)
<1>1. \A i \in DOMAIN t : Loads(t, r)[i] = Work(r, registry[i].config)
  BY DEF Loads
<1>2. QED
  BY <1>1, TotalWorkIsSum DEF Cost, Receivers

LEMMA TableFacts ==
    BankInv => /\ Receivers(registry) /\ Receivers(batch) /\ Ids \subseteq Nat
               /\ WorkBudget \in Nat
<1> SUFFICES ASSUME BankInv PROVE /\ Receivers(registry) /\ Receivers(batch)
                                  /\ Ids \subseteq Nat /\ WorkBudget \in Nat
  OBVIOUS
<1>1. DOMAIN registry \subseteq Ids /\ DOMAIN batch \subseteq Ids /\ Ids \subseteq Nat
  BY DEF BankInv, TypeOK, Ids
<1>2. IsFiniteSet(Ids)
  BY FS_Interval DEF Ids
<1>3. IsFiniteSet(DOMAIN registry) /\ IsFiniteSet(DOMAIN batch)
  BY <1>1, <1>2, FS_Subset
<1>4. QED
  BY <1>1, <1>3 DEF BankInv, TypeOK, Receivers

LEMMA EmptyCost == ASSUME NEW r PROVE Cost(Empty, r) = 0
<1>1. DOMAIN Empty = {} /\ IsFiniteSet({})
  BY FS_EmptySet DEF Empty
<1>2. SumOver(Loads(Empty, r), {}) = 0
  BY <1>1, SumNext
<1>3. QED
  BY <1>1, <1>2 DEF Cost

LEMMA InitAdmitInv == Init => AdmitInv
<1> SUFFICES ASSUME Init PROVE AdmitInv
  OBVIOUS
<1>1. DOMAIN Empty = {}
  BY DEF Empty
<1>2. /\ \A c \in Captures : Cost(registry, c.rate) = 0
      /\ WorkBudget \in Nat
  BY EmptyCost DEF Init
<1>3. QED
  BY <1>1, <1>2 DEF Init, AdmitInv, Kept

\* put: the new configuration finds room beside the others.
LEMMA PutAdmitInv ==
    ASSUME BankInv, AdmitInv, NEW i, NEW config \in Configs,
           Put(i, config, DOMAIN registry \ {i}), Receivers(registry'),
           UNCHANGED passVars
    PROVE  AdmitInv'
<1>0. Receivers(registry) /\ WorkBudget \in Nat /\ used' = used \cup {hCapture}
  BY TableFacts DEF Put
<1>a. ASSUME NEW c \in Captures, used' \subseteq {c}
      PROVE  /\ Kept(registry', c) /\ Cost(registry', c.rate) <= WorkBudget
             /\ Kept(batch', c) /\ (pass' = "block" => Cost(batch', c.rate) <= budget')
  <2>0. used \subseteq {c} /\ hCapture = c
    BY <1>0, <1>a
  <2>1. PICK t : t = registry'
    OBVIOUS
  <2>2. /\ Kept(registry, c) /\ Kept(batch, c)
        /\ pass = "block" => Cost(batch, c.rate) <= budget
    BY <2>0 DEF AdmitInv
  <2>3. PICK others : others = [j \in DOMAIN registry \ {i} |-> registry[j]]
    OBVIOUS
  <2>4. /\ DOMAIN t = DOMAIN registry \cup {i} /\ t[i].config = config /\ ~t[i].suspended
        /\ \A j \in DOMAIN registry \ {i} : t[j] = registry[j]
        /\ Fits(config, c)
        /\ TotalWork(c.rate, DOMAIN registry \ {i}) + Work(c.rate, config) <= WorkBudget
    BY <2>0, <2>1 DEF Put, Admitted
  <2>5. /\ DOMAIN others = DOMAIN registry \ {i} /\ Receivers(others)
        /\ \A j \in DOMAIN others : registry[j].config = others[j].config
    <3>1. IsFiniteSet(DOMAIN registry \ {i})
      BY <1>0, FS_Subset DEF Receivers
    <3>2. QED
      BY <1>0, <2>3, <3>1 DEF Receivers
  <2>6. TotalWork(c.rate, DOMAIN others) = Cost(others, c.rate)
    BY <2>5, TotalWorkIsCost
  <2>7. Without(t, i) = others
    <3>1. DOMAIN t \ {i} = DOMAIN registry \ {i}
      BY <2>4
    <3>2. QED
      BY <2>3, <2>4, <3>1 DEF Without
  <2>8. /\ Cost(t, c.rate) = Work(c.rate, config) + Cost(others, c.rate)
        /\ Work(c.rate, config) \in Nat /\ Cost(others, c.rate) \in Nat
    BY <2>1, <2>4, <2>7, CostWithout
  <2>9. Cost(t, c.rate) <= WorkBudget
    BY <1>0, <2>4, <2>5, <2>6, <2>8
  <2>10. Kept(t, c)
    BY <2>2, <2>4 DEF Kept
  <2>11. QED
    BY <2>1, <2>2, <2>9, <2>10 DEF passVars
<1>b. (pass = "block" => passCapture \in used)'
  BY <1>0 DEF AdmitInv, passVars
<1>c. QED
  BY <1>a, <1>b DEF AdmitInv

LEMMA RemoveAdmitInv == BankInv /\ AdmitInv /\ RemoveVfo => AdmitInv'
<1> SUFFICES ASSUME BankInv, AdmitInv, RemoveVfo PROVE AdmitInv'
  OBVIOUS
<1>0. Receivers(registry) /\ WorkBudget \in Nat
  BY TableFacts
<1>1. PICK i \in DOMAIN registry : registry' = [j \in DOMAIN registry \ {i} |-> registry[j]]
  BY DEF RemoveVfo, Restrict
<1>2. PICK t : t = registry
  OBVIOUS
<1>3. registry' = Without(t, i)
  BY <1>1, <1>2 DEF Without
<1>4. UNCHANGED <<passVars, used>>
  BY DEF RemoveVfo
<1>5. ASSUME NEW c \in Captures, used \subseteq {c}
      PROVE  /\ Kept(registry', c) /\ Cost(registry', c.rate) <= WorkBudget
             /\ Kept(batch, c) /\ (pass = "block" => Cost(batch, c.rate) <= budget)
  <2>1. /\ Cost(t, c.rate) = Work(c.rate, t[i].config) + Cost(Without(t, i), c.rate)
        /\ Work(c.rate, t[i].config) \in Nat /\ Cost(Without(t, i), c.rate) \in Nat
    <3>1. Receivers(t) /\ i \in DOMAIN t
      BY <1>0, <1>1, <1>2
    <3>2. QED
      BY <3>1, CostWithout
  <2>2. Cost(t, c.rate) <= WorkBudget /\ Kept(t, c)
    BY <1>2, <1>5 DEF AdmitInv
  <2>3. Cost(t, c.rate) \in Nat
    BY <2>1
  <2>4. Cost(registry', c.rate) <= WorkBudget
    BY <1>0, <1>3, <2>1, <2>2, <2>3
  <2>5. Kept(registry', c)
    BY <1>1, <1>2, <2>2 DEF Kept
  <2>6. QED
    BY <1>5, <2>4, <2>5 DEF AdmitInv
<1>6. QED
  BY <1>4, <1>5 DEF AdmitInv, passVars

\* While one capture is used, the pass suspends nobody: every copy fits, and what is left
\* of the budget is enough for the copies that are left.
LEMMA ServeAdmitInv == BankInv /\ AdmitInv /\ Serve => AdmitInv'
<1> SUFFICES ASSUME BankInv, AdmitInv, Serve PROVE AdmitInv'
  OBVIOUS
<1>0. /\ Receivers(registry) /\ Receivers(batch) /\ Ids \subseteq Nat
      /\ WorkBudget \in Nat
  BY TableFacts
<1>a. DOMAIN batch \in SUBSET Nat /\ DOMAIN batch # {}
  BY <1>0 DEF BankInv, TypeOK, Serve, Empty, Table
<1>1. PICK i \in DOMAIN batch :
          /\ Suspend(i) \/ Channelize(i) \/ Silence(i)
          /\ batch' = [j \in DOMAIN batch \ {i} |-> batch[j]]
          /\ UNCHANGED <<pass, passCapture, used>>
  <2>1. Min(DOMAIN batch) \in DOMAIN batch
    BY <1>a, MinFacts
  <2>2. QED
    BY <2>1 DEF Serve, Restrict
<1>2. PICK t : t = batch
  OBVIOUS
<1>3. batch' = Without(t, i) /\ i \in DOMAIN t /\ Receivers(t)
  BY <1>0, <1>1, <1>2 DEF Without
<1>b. ASSUME NEW c \in Captures, used \subseteq {c}
      PROVE  /\ Kept(registry', c) /\ Cost(registry', c.rate) <= WorkBudget
             /\ Kept(batch', c) /\ (pass = "block" => Cost(batch', c.rate) <= budget')
  <2>0. /\ Kept(registry, c) /\ Cost(registry, c.rate) <= WorkBudget
        /\ Kept(t, c) /\ (pass = "block" => Cost(t, c.rate) <= budget)
    BY <1>2, <1>b DEF AdmitInv
  <2>5. /\ Cost(t, c.rate) = Work(c.rate, t[i].config) + Cost(Without(t, i), c.rate)
        /\ Work(c.rate, t[i].config) \in Nat /\ Cost(Without(t, i), c.rate) \in Nat
    BY <1>3, CostWithout
  <2>6. ~t[i].suspended /\ Fits(t[i].config, c) /\ t[i] \in Receiver
    BY <1>3, <2>0 DEF Kept, Receivers
  <2>7. budget \in Int /\ (pass = "block" => passCapture = c)
    BY <1>0, <1>b DEF BankInv, TypeOK, AdmitInv
  <2>8. pass = "block" => Affordable(t[i].config)
    <3>1. pass = "block" => Work(c.rate, t[i].config) <= budget
      BY <2>0, <2>5, <2>7
    <3>2. QED
      BY <2>6, <2>7, <3>1 DEF Affordable
  <2>9. PICK receiver : /\ Publish(i, receiver) /\ receiver.config = t[i].config
                        /\ ~receiver.suspended
    <3>1. CASE Suspend(i)
      BY <1>2, <2>8, <3>1 DEF Suspend
    <3>2. CASE Channelize(i)
      <4>1. Publish(i, Measured(t[i]))
        BY <1>2, <3>2 DEF Channelize
      <4>2. Measured(t[i]).config = t[i].config /\ ~Measured(t[i]).suspended
        BY <2>6 DEF Measured, Receiver
      <4>3. QED
        BY <4>1, <4>2
    <3>3. CASE Silence(i)
      BY <1>2, <2>6, <3>3 DEF Silence
    <3>4. QED
      BY <1>1, <3>1, <3>2, <3>3
  <2>10. /\ DOMAIN registry' = DOMAIN registry
         /\ \A j \in DOMAIN registry :
               \/ registry'[j] = registry[j]
               \/ registry'[j] = receiver /\ registry[j].config = receiver.config
    BY <2>9 DEF Publish
  <2>11. Kept(registry', c)
    BY <2>0, <2>6, <2>9, <2>10 DEF Kept
  <2>12. Cost(registry', c.rate) <= WorkBudget
    <3>1. \A j \in DOMAIN registry : registry'[j].config = registry[j].config
      BY <2>10
    <3>2. PICK u : u = registry
      OBVIOUS
    <3>3. PICK v : v = registry'
      OBVIOUS
    <3>4. Cost(v, c.rate) = Cost(u, c.rate)
      BY <1>0, <2>10, <3>1, <3>2, <3>3, SameCost
    <3>5. QED
      BY <2>0, <3>2, <3>3, <3>4
  <2>13. Kept(batch', c)
    BY <1>1, <1>2, <2>0 DEF Kept
  <2>14. pass = "block" => Cost(batch', c.rate) <= budget'
    <3>1. SUFFICES ASSUME pass = "block" PROVE Cost(batch', c.rate) <= budget'
      OBVIOUS
    <3>2. Cost(t, c.rate) <= budget
      BY <2>0, <3>1
    <3>3. Channelize(i)
      BY <1>1, <1>2, <2>8, <3>1 DEF Suspend, Silence
    <3>4. budget' = budget - Work(c.rate, t[i].config)
      BY <1>2, <2>7, <3>1, <3>3 DEF Channelize
    <3>5. QED
      BY <1>3, <2>5, <2>7, <3>2, <3>4
  <2>15. QED
    BY <2>11, <2>12, <2>13, <2>14
<1>4. QED
  BY <1>1, <1>b DEF AdmitInv

LEMMA NextAdmitInv == BankInv /\ AdmitInv /\ [Next]_vars => AdmitInv'
<1> SUFFICES ASSUME BankInv, AdmitInv, [Next]_vars PROVE AdmitInv'
  OBVIOUS
<1>0. BankInv' /\ WorkBudget \in Nat
  BY NextBankInv DEF BankInv, TypeOK
<1>a. Receivers(registry)'
  BY <1>0, TableFacts, PTL
<1>1. CASE AddVfo
  <2>1. PICK config \in Configs : Put(next, config, DOMAIN registry)
    BY <1>1 DEF AddVfo
  <2>2. PICK i : i = next
    OBVIOUS
  <2>3. DOMAIN registry = DOMAIN registry \ {i}
    <3>1. DOMAIN registry \subseteq 1..(next - 1) /\ next \in Nat
      BY DEF BankInv, TypeOK
    <3>2. i \notin DOMAIN registry
      BY <2>2, <3>1
    <3>3. QED
      BY <3>2
  <2>4. UNCHANGED passVars
    BY <1>1 DEF AddVfo
  <2>5. QED
    BY <1>a, <2>1, <2>2, <2>3, <2>4, PutAdmitInv
<1>2. CASE UpdateVfo
  <2>1. PICK i \in DOMAIN registry, config \in Configs :
            Put(i, config, DOMAIN registry \ {i})
    BY <1>2 DEF UpdateVfo
  <2>2. UNCHANGED passVars
    BY <1>2 DEF UpdateVfo
  <2>3. QED
    BY <1>a, <2>1, <2>2, PutAdmitInv
<1>3. CASE RemoveVfo
  BY <1>3, RemoveAdmitInv
<1>4. CASE BeginBlock
  <2>1. /\ pass' = "block" /\ batch' = registry /\ passCapture' = Heard
        /\ budget' = WorkBudget /\ used' = used \cup {Heard} /\ registry' = registry
    BY <1>4 DEF BeginBlock, registryVars
  <2>2. ASSUME NEW c \in Captures, used' \subseteq {c}
        PROVE  Kept(registry, c) /\ Cost(registry, c.rate) <= WorkBudget
    <3>1. used \subseteq {c}
      BY <2>1, <2>2
    <3>2. QED
      BY <3>1 DEF AdmitInv
  <2>3. QED
    BY <2>1, <2>2 DEF AdmitInv
<1>5. CASE Pause
  BY <1>5 DEF Pause, AdmitInv, registryVars
<1>6. CASE Serve
  BY <1>6, ServeAdmitInv
<1>7. CASE EndPass
  BY <1>7 DEF EndPass, AdmitInv, registryVars
<1>8. CASE UNCHANGED <<registry, pass, batch, passCapture, budget, used>>
  BY <1>8 DEF AdmitInv
<1>9. CASE SourceChange
  BY <1>8, <1>9 DEF SourceChange, Tune, PlaybackLoad, PlaybackClear, Retune, StopStream,
                    Change, registryVars, passVars
<1>10. QED
  BY <1>1, <1>2, <1>3, <1>4, <1>5, <1>6, <1>7, <1>8, <1>9
     DEF Next, Edit, Snapshot, GiveUp, Reset, TakeStream, vars, registryVars, passVars

\* However the sources changed and receivers were edited, no block costs more than the
\* budget; and as long as the captures that edits were checked against and those that
\* blocks came with are one and the same, whatever else is selected, loaded or tuned and
\* whatever edits are made before, during and after a pass, no receiver is suspended
\* (VfoBank::put, VfoProcessor::process).
THEOREM BudgetTheorem == Spec => []BudgetIsShared
<1>1. BankInv /\ AdmitInv => BudgetIsShared
  <2> SUFFICES ASSUME BankInv, AdmitInv PROVE BudgetIsShared
    OBVIOUS
  <2>1. ASSUME \A c, d \in used : c = d
        PROVE  \A i \in DOMAIN registry : ~registry[i].suspended
    <3>1. PICK c \in Captures : used \subseteq {c}
      <4>1. mock \in Captures /\ used \subseteq Captures
        BY DEF BankInv, TypeOK
      <4>2. CASE used = {}
        BY <4>1, <4>2
      <4>3. CASE used # {}
        BY <2>1, <4>1, <4>3
      <4>4. QED
        BY <4>2, <4>3
    <3>2. QED
      BY <3>1 DEF AdmitInv, Kept
  <2>2. QED
    BY <2>1 DEF BankInv, BudgetKept, BudgetIsShared, AdmittedIsServed
<1>2. QED
  BY <1>1, InitBankInv, NextBankInv, InitAdmitInv, NextAdmitInv, PTL DEF Spec
=============================================================================
