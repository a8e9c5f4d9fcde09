---------------------------- MODULE OscCalProofs ----------------------------
(***************************************************************************)
(* Proofs about the calibration of module OscCal, for any oscillator that  *)
(* meets the assumptions.                                                  *)
(***************************************************************************)
EXTENDS OscCal, TLAPS

-----------------------------------------------------------------------------
(* The invariant *)

Steps == {1, 2, 4, 8, 16, 32, 64, 128}

\* The target is first reached in the width values above low.
Bracket(low, width) ==
  /\ low + width <= 256
  /\ low = 0 \/ oscillator[low] < targetValue
  /\ low + width = 256 \/ targetValue <= oscillator[low + width]

\* The last measurement was that of trialValue or of the value above it.
Last ==
  \/ x = oscillator[trialValue] /\ x < targetValue
  \/ trialValue < 255 /\ x = oscillator[trialValue + 1] /\ targetValue <= x

\* optimumDev is the least deviation of the neighbours tried so far, and that of
\* optimumValue, unless it is still the count the loop began with; then one of
\* the neighbours to come is better.
Candidates ==
  /\ OSCCAL \in trialValue - 1 .. trialValue + 2
  /\ \A v \in trialValue - 1 .. OSCCAL - 1 : optimumDev <= Deviation(v)
  /\ \/ /\ optimumValue \in trialValue - 1 .. trialValue + 1
        /\ optimumDev = Deviation(optimumValue)
     \/ OSCCAL <= trialValue /\ Deviation(trialValue) < optimumDev
     \/ OSCCAL <= trialValue + 1 /\ Deviation(trialValue + 1) < optimumDev

MatchInv ==
  /\ pc = "search" => step \in Steps /\ Bracket(trialValue, 2 * step)
  /\ pc \in {"around", "neighbour"} => Bracket(trialValue, 1)
  /\ pc = "around" => Last
  /\ pc = "neighbour" /\ trialValue > 0 => Candidates
  /\ pc = "neighbour" /\ trialValue = 0 => OSCCAL = 255 /\ optimumValue = 0
  /\ BestOfThree

\* The search adds ever smaller powers of two: before the last round trialValue is
\* even, so that 255 can only be reached from 254.
TrapInv ==
  /\ TypeOK
  /\ pc = "search" => step \in Steps /\ trialValue % 2 = 0
  /\ ~missed => ~Trapped

CalInv == TrapInv /\ (~missed => MatchInv) /\ BestMatch

-----------------------------------------------------------------------------
(* Arithmetic *)

LEMMA ByteBounds ==
  \A n : n \in Byte <=> n \in Int /\ 0 <= n /\ n <= 255
BY DEF Byte

LEMMA ByteWraps == \A n \in Int : n + 1 = 0 => n % 256 = 255
OBVIOUS

LEMMA IntFits ==
  ASSUME NEW n \in Ints
  PROVE  Int16(n) = n
BY DEF Int16, Ints

LEMMA IntRange ==
  ASSUME NEW n \in Int
  PROVE  Int16(n) \in Ints /\ AbsInt(Int16(n)) \in Ints
<1>1. \A k \in Int : Int16(k) \in Ints
  BY DEF Int16, Ints
<1>2. \A k \in Ints : 0 - k \in Int
  BY DEF Ints
<1> QED
  BY <1>1, <1>2 DEF AbsInt

\* The difference of two counts fits an int, and so does its absolute value.
LEMMA Difference ==
  ASSUME NEW a \in Counts, NEW b \in Counts
  PROVE  AbsInt(Int16(a - b)) = IF a < b THEN b - a ELSE a - b
<1>1. a - b \in Ints /\ b - a \in Ints
  <2>1. a - b \in Int /\ b - a \in Int
    BY DEF Counts
  <2>2. -32768 <= a - b
    BY DEF Counts
  <2>3. -32768 <= b - a
    BY DEF Counts
  <2>4. a - b <= 32767
    BY DEF Counts
  <2>5. b - a <= 32767
    BY DEF Counts
  <2> QED
    BY <2>1, <2>2, <2>3, <2>4, <2>5 DEF Ints
<1>2. Int16(a - b) = a - b /\ Int16(b - a) = b - a
  BY <1>1, IntFits
<1>3. 0 - (a - b) = b - a
  BY DEF Counts
<1> QED
  BY <1>2, <1>3 DEF AbsInt, Counts

LEMMA CountType ==
  ASSUME TypeOK, NEW v \in Byte
  PROVE  /\ oscillator[v] \in Counts
         /\ Deviation(v) \in Nat
         /\ AbsInt(Int16(oscillator[v] - targetValue)) = Deviation(v)
<1>1. oscillator[v] \in Counts
  BY OscillatorsAssumption DEF TypeOK
<1>2. Deviation(v) \in Nat
  BY <1>1, TargetAssumption DEF Deviation, Counts
<1> QED
  BY <1>1, <1>2, Difference, TargetAssumption DEF Deviation

\* With a growing frequency the best match is next to where the target is reached.
LEMMA BestIsNext ==
  ASSUME TypeOK, Growing(oscillator), NEW t \in Byte, t < 255,
         t = 0 \/ oscillator[t] < targetValue, targetValue <= oscillator[t + 1],
         NEW best \in Byte,
         Deviation(best) <= Deviation(t), Deviation(best) <= Deviation(t + 1)
  PROVE  \A v \in Byte : Deviation(best) <= Deviation(v)
<1> SUFFICES ASSUME NEW v \in Byte PROVE Deviation(best) <= Deviation(v)
  OBVIOUS
<1>0. t + 1 \in Byte
  BY ByteBounds
<1>1. CASE v <= t
  <2>1. oscillator[v] <= oscillator[t]
    BY <1>1 DEF Growing
  <2>2. CASE t = 0
    BY <1>1, <2>2, ByteBounds
  <2>3. CASE oscillator[t] < targetValue
    <3>1. Deviation(t) <= Deviation(v)
      BY <2>1, <2>3, CountType, TargetAssumption DEF Counts, Deviation
    <3> QED
      BY <3>1, CountType
  <2> QED
    BY <2>2, <2>3
<1>2. CASE t < v
  <2>1. oscillator[t + 1] <= oscillator[v]
    BY <1>0, <1>2, ByteBounds DEF Growing
  <2>2. Deviation(t + 1) <= Deviation(v)
    BY <1>0, <2>1, CountType, TargetAssumption DEF Counts, Deviation
  <2> QED
    BY <1>0, <2>2, CountType
<1> QED
  BY <1>1, <1>2, ByteBounds
-----------------------------------------------------------------------------
(* Types *)

LEMMA InitType == Init => TypeOK
<1> SUFFICES ASSUME Init PROVE TypeOK
  OBVIOUS
<1>1. 0 \in Byte /\ 0 \in Ints
  BY ByteBounds DEF Ints
<1> QED
  BY <1>1 DEF Init, TypeOK

LEMMA MeasuredType ==
  ASSUME TypeOK, NEW v \in Byte, NEW count \in usbMeasureFrameLength(v)
  PROVE  /\ count \in Int
         /\ Int16(count) \in Ints
         /\ AbsInt(Int16(count - targetValue)) \in Ints
<1>1. count \in Int
  <2>1. oscillator[v] \in Int
    BY CountType DEF Counts
  <2>2. \A n \in Disturbed : n \in Int
    BY DisturbedAssumption
  <2> QED
    BY <2>1, <2>2 DEF usbMeasureFrameLength
<1>2. count - targetValue \in Int
  BY <1>1, TargetAssumption DEF Counts
<1> QED
  BY <1>1, <1>2, IntRange

LEMMA TypeStep == TypeOK /\ [Next]_vars => TypeOK'
<1> SUFFICES ASSUME TypeOK, [Next]_vars PROVE TypeOK'
  OBVIOUS
<1>0. \A n \in Int : n % 256 \in Byte
  BY ByteBounds
<1>1. CASE Search
  <2>1. OSCCAL' \in Byte
    BY <1>0, <1>1, ByteBounds DEF Search, TypeOK
  <2>2. x' \in Ints
    BY <1>1, <2>1, MeasuredType DEF Search
  <2>3. step' \in {0, 1, 2, 4, 8, 16, 32, 64, 128}
    BY <1>1 DEF Search, TypeOK
  <2>4. missed' \in BOOLEAN
    BY <1>1 DEF Search, Notice, TypeOK
  <2> QED
    BY <1>1, <2>1, <2>2, <2>3, <2>4 DEF Search, TypeOK, optimum
<1>2. CASE Around
  <2>1. OSCCAL' \in Byte
    BY <1>0, <1>2, ByteBounds DEF Around, TypeOK
  <2> QED
    BY <1>2, <2>1 DEF Around, TypeOK, params
<1>3. CASE Neighbour
  <2>1. OSCCAL' \in Byte
    BY <1>0, <1>3, ByteBounds DEF Neighbour, TypeOK
  <2>2. x' \in Ints
    BY <1>3, MeasuredType DEF Neighbour, TypeOK
  <2>3. missed' \in BOOLEAN
    BY <1>3 DEF Neighbour, Notice, TypeOK
  <2> QED
    BY <1>3, <2>1, <2>2, <2>3 DEF Neighbour, TypeOK, params, optimum
<1>4. CASE Settle
  BY <1>4 DEF Settle, TypeOK, params, optimum
<1>5. CASE Recalibrate
  <2>1. 0 \in Byte /\ 0 \in Ints
    BY ByteBounds DEF Ints
  <2> QED
    BY <1>5, <2>1 DEF Recalibrate, TypeOK
<1>6. CASE UNCHANGED vars
  BY <1>6 DEF TypeOK, vars, params, optimum
<1> QED
  BY <1>1, <1>2, <1>3, <1>4, <1>5, <1>6 DEF Next, calibrateOscillator

-----------------------------------------------------------------------------
(* The searches *)

LEMMA SearchStep ==
  ASSUME ~missed', TypeOK, TypeOK', MatchInv, Search
  PROVE  MatchInv'
<1> DEFINE s == step
           t == trialValue
<1>1. s \in Steps /\ Bracket(t, 2 * s) /\ t + s \in Byte /\ OSCCAL' = t + s
  <2>1. s \in Steps /\ Bracket(t, 2 * s)
    BY DEF Search, MatchInv
  <2>2. t + s \in Byte
    BY <2>1, ByteBounds DEF Bracket, Steps, TypeOK
  <2> QED
    BY <2>1, <2>2, ByteBounds DEF Search
<1>2. x' = oscillator[t + s]
  <2>1. oscillator[t + s] \in Ints
    BY <1>1, CountType DEF Counts, Ints
  <2> QED
    BY <1>1, <2>1, IntFits DEF Search, Notice
<1>3. /\ trialValue' + s <= 256
      /\ trialValue' = 0 \/ oscillator[trialValue'] < targetValue
      /\ trialValue' + s = 256 \/ targetValue <= oscillator[trialValue' + s]
  <2>1. CASE x' < targetValue
    <3>1. trialValue' = t + s /\ t + s + s = t + 2 * s
      BY <1>1, <2>1, ByteBounds DEF Search, Steps, TypeOK
    <3> QED
      BY <1>1, <1>2, <2>1, <3>1 DEF Bracket
  <2>2. CASE ~(x' < targetValue)
    <3>1. trialValue' = t
      BY <2>2 DEF Search
    <3>2. targetValue <= oscillator[t + s]
      BY <1>1, <1>2, <2>2, CountType, TargetAssumption DEF Counts
    <3> QED
      BY <1>1, <3>1, <3>2, ByteBounds DEF Bracket
  <2> QED
    BY <2>1, <2>2
<1>4. oscillator' = oscillator
  BY DEF Search
<1>5. CASE s = 1
  <2>1. pc' = "around" /\ Bracket(trialValue, 1)'
    BY <1>3, <1>4, <1>5 DEF Search, Bracket
  <2>2. Last'
    <3>1. CASE x' < targetValue
      BY <1>1, <1>2, <1>4, <3>1 DEF Search, Last
    <3>2. CASE ~(x' < targetValue)
      BY <1>1, <1>2, <1>4, <1>5, <3>2, ByteBounds, CountType, TargetAssumption
      DEF Search, Last, Counts, TypeOK
    <3> QED
      BY <3>1, <3>2
  <2> QED
    BY <2>1, <2>2 DEF MatchInv, BestOfThree
<1>6. CASE s # 1
  <2>1. step' \in Steps /\ 2 * step' = s /\ pc' = "search"
    BY <1>1, <1>6 DEF Search, Steps
  <2>2. Bracket(trialValue, 2 * step)'
    BY <1>3, <1>4, <2>1 DEF Bracket
  <2> QED
    BY <2>1, <2>2 DEF MatchInv, BestOfThree
<1> QED
  BY <1>5, <1>6

\* What is measured is right, so a round of the neighbourhood search compares
\* the deviation of the value it tries.
LEMMA NeighbourCompares ==
  ASSUME ~missed', TypeOK, Neighbour
  PROVE  /\ OSCCAL \in Byte
         /\ x' = Deviation(OSCCAL)
         /\ IF x' < optimumDev
            THEN optimumDev' = x' /\ optimumValue' = OSCCAL
            ELSE UNCHANGED optimum
<1>1. OSCCAL \in Byte
  BY DEF TypeOK
<1>2. x' = AbsInt(Int16(oscillator[OSCCAL] - targetValue))
  BY DEF Neighbour, Notice
<1> QED
  BY <1>1, <1>2, CountType DEF Neighbour

\* With trialValue above 0 the loop has a neighbour on either side.
LEMMA TrialInside ==
  ASSUME TypeOK, ~Trapped, Bracket(trialValue, 1), trialValue > 0
  PROVE  /\ trialValue \in 1 .. 253
         /\ trialValue - 1 \in Byte /\ trialValue + 1 \in Byte
         /\ oscillator[trialValue] < targetValue
         /\ targetValue <= oscillator[trialValue + 1]
         /\ targetValue < 2 * oscillator[trialValue]
<1>1. trialValue \in Byte /\ 254 \in Byte /\ oscillator \in Oscillators
  BY ByteBounds DEF TypeOK
<1>2. oscillator[trialValue] < targetValue
  BY DEF Bracket
<1>3. ~(254 <= trialValue)
  BY <1>1, ByteBounds DEF Trapped
<1>4. trialValue \in 1 .. 253 /\ trialValue - 1 \in Byte /\ trialValue + 1 \in Byte
  BY <1>1, <1>3, ByteBounds
<1>5. targetValue <= oscillator[trialValue + 1]
  BY <1>4 DEF Bracket
<1>6. trialValue \in 0 .. 254
  BY <1>4
<1> QED
  BY <1>1, <1>2, <1>4, <1>5, <1>6, RangeAssumption

LEMMA AroundStep ==
  ASSUME TypeOK, ~Trapped, MatchInv, Around
  PROVE  MatchInv'
<1>1. /\ pc' = "neighbour" /\ UNCHANGED <<oscillator, trialValue>>
      /\ optimumValue' = trialValue /\ optimumDev' = x
      /\ Bracket(trialValue, 1) /\ Last
  BY DEF Around, MatchInv, params
<1>2. Bracket(trialValue, 1)'
  BY <1>1 DEF Bracket
<1>3. CASE trialValue = 0
  <2>1. OSCCAL' = 255
    <3>1. trialValue - 1 \in Int /\ (trialValue - 1) + 1 = 0
      BY <1>3
    <3> QED
      BY <3>1, ByteWraps DEF Around
  <2> QED
    BY <1>1, <1>2, <1>3, <2>1 DEF MatchInv, BestOfThree
<1>4. CASE trialValue > 0
  <2>1. OSCCAL' = trialValue - 1
    BY <1>1, <1>4, TrialInside, ByteBounds DEF Around
  <2>2. Deviation(trialValue) < x \/ Deviation(trialValue + 1) < x
    <3>1. CASE x = oscillator[trialValue]
      BY <1>1, <1>4, <3>1, TrialInside, CountType, TargetAssumption
      DEF Deviation, Counts, TypeOK
    <3>2. CASE x = oscillator[trialValue + 1]
      <4>1. 0 < targetValue
        BY <1>1, <1>4, TrialInside, CountType, TargetAssumption DEF Counts, TypeOK
      <4> QED
        BY <1>1, <1>4, <3>2, <4>1, TrialInside, CountType, TargetAssumption
        DEF Deviation, Counts
    <3> QED
      BY <1>1, <3>1, <3>2 DEF Last
  <2>3. Candidates'
    <3>1. /\ OSCCAL' \in trialValue' - 1 .. trialValue' + 2
          /\ \A v \in trialValue' - 1 .. OSCCAL' - 1 : FALSE
          /\ OSCCAL' <= trialValue'
      BY <1>1, <1>4, <2>1, TrialInside
    <3>2. Deviation(trialValue)' < optimumDev' \/ Deviation(trialValue + 1)' < optimumDev'
      BY <1>1, <2>2 DEF Deviation
    <3>3. OSCCAL' <= trialValue' + 1
      BY <1>1, <1>4, <2>1, TrialInside
    <3> QED
      BY <3>1, <3>2, <3>3 DEF Candidates
  <2> QED
    BY <1>1, <1>2, <1>4, <2>3 DEF MatchInv, BestOfThree
<1> QED
  BY <1>3, <1>4, ByteBounds DEF TypeOK

LEMMA NeighbourStep ==
  ASSUME ~missed', TypeOK, ~Trapped, MatchInv, Neighbour
  PROVE  MatchInv'
<1> DEFINE t == trialValue
<1>1. /\ pc = "neighbour" /\ pc' = "neighbour"
      /\ OSCCAL <= t + 1 /\ OSCCAL' = (OSCCAL + 1) % 256
      /\ UNCHANGED <<oscillator, trialValue>>
      /\ Bracket(t, 1)
  BY DEF Neighbour, MatchInv, params
<1>2. Bracket(t, 1)'
  BY <1>1 DEF Bracket
<1>3. t > 0 /\ Candidates
  <2>1. t \in Byte
    BY DEF TypeOK
  <2> QED
    BY <1>1, <2>1, ByteBounds DEF MatchInv
<1>4. /\ t \in 1 .. 253 /\ t - 1 \in Byte /\ t \in Byte /\ t + 1 \in Byte
      /\ OSCCAL \in t - 1 .. t + 1 /\ OSCCAL' = OSCCAL + 1
  <2>1. t \in 1 .. 253 /\ t - 1 \in Byte /\ t + 1 \in Byte
    BY <1>1, <1>3, TrialInside
  <2>2. OSCCAL \in t - 1 .. t + 1
    BY <1>1, <1>3, <2>1 DEF Candidates
  <2> QED
    BY <1>1, <2>1, <2>2, ByteBounds
<1>5. \A v \in t - 1 .. t + 1 : v \in Byte /\ Deviation(v) \in Nat /\ Deviation(v)' = Deviation(v)
  BY <1>1, <1>4, CountType, ByteBounds DEF Deviation
<1>6. /\ \A v \in t - 1 .. OSCCAL : optimumDev' <= Deviation(v)
      /\ \/ optimumValue' \in t - 1 .. t + 1 /\ optimumDev' = Deviation(optimumValue')
         \/ OSCCAL + 1 <= t /\ Deviation(t) < optimumDev'
         \/ OSCCAL + 1 <= t + 1 /\ Deviation(t + 1) < optimumDev'
  <2>1. optimumDev \in Int /\ \A v \in t - 1 .. OSCCAL - 1 : optimumDev <= Deviation(v)
    BY <1>3 DEF Candidates, TypeOK, Ints
  <2>2. \A v \in t - 1 .. OSCCAL : v = OSCCAL \/ v \in t - 1 .. OSCCAL - 1
    BY <1>4
  <2>3. CASE Deviation(OSCCAL) < optimumDev
    <3>1. optimumDev' = Deviation(OSCCAL) /\ optimumValue' = OSCCAL
      BY <2>3, NeighbourCompares
    <3>2. \A v \in t - 1 .. OSCCAL : v \in t - 1 .. t + 1
      BY <1>4
    <3> QED
      BY <1>4, <1>5, <2>1, <2>2, <2>3, <3>1, <3>2
  <2>4. CASE ~(Deviation(OSCCAL) < optimumDev)
    <3>1. optimumDev' = optimumDev /\ optimumValue' = optimumValue
      BY <2>4, NeighbourCompares DEF optimum
    <3>2. optimumDev <= Deviation(OSCCAL)
      BY <1>4, <1>5, <2>1, <2>4
    <3>3. \/ optimumValue \in t - 1 .. t + 1 /\ optimumDev = Deviation(optimumValue)
          \/ OSCCAL + 1 <= t /\ Deviation(t) < optimumDev
          \/ OSCCAL + 1 <= t + 1 /\ Deviation(t + 1) < optimumDev
      <4>1. \/ optimumValue \in t - 1 .. t + 1 /\ optimumDev = Deviation(optimumValue)
            \/ OSCCAL <= t /\ Deviation(t) < optimumDev
            \/ OSCCAL <= t + 1 /\ Deviation(t + 1) < optimumDev
        BY <1>3 DEF Candidates
      <4>2. (Deviation(t) < optimumDev => OSCCAL # t)
            /\ (Deviation(t + 1) < optimumDev => OSCCAL # t + 1)
        BY <2>4
      <4> QED
        BY <1>4, <4>1, <4>2
    <3> QED
      BY <2>1, <2>2, <3>1, <3>2, <3>3
  <2> QED
    BY <2>3, <2>4
<1>7. Candidates'
  <2>1. \A v : Deviation(v)' = Deviation(v)
    BY <1>1 DEF Deviation
  <2>2. /\ OSCCAL' \in t' - 1 .. t' + 2
        /\ \A v \in t' - 1 .. OSCCAL' - 1 : v \in t - 1 .. OSCCAL
    BY <1>1, <1>4
  <2> QED
    BY <1>1, <1>4, <1>6, <2>1, <2>2 DEF Candidates
<1> QED
  BY <1>1, <1>2, <1>3, <1>7 DEF MatchInv, BestOfThree

LEMMA SettleChooses ==
  ASSUME TypeOK, ~Trapped, MatchInv, Settle, trialValue > 0
  PROVE  /\ trialValue \in 1 .. 253 /\ trialValue - 1 \in Byte /\ trialValue + 1 \in Byte
         /\ oscillator[trialValue] < targetValue
         /\ targetValue <= oscillator[trialValue + 1]
         /\ optimumValue \in trialValue - 1 .. trialValue + 1
         /\ \A v \in trialValue - 1 .. trialValue + 1 : Deviation(optimumValue) <= Deviation(v)
<1> DEFINE t == trialValue
<1>1. pc = "neighbour" /\ OSCCAL > t + 1 /\ Bracket(t, 1)
  BY DEF Settle, MatchInv
<1>2. /\ t \in 1 .. 253 /\ t - 1 \in Byte /\ t + 1 \in Byte
      /\ oscillator[t] < targetValue /\ targetValue <= oscillator[t + 1]
  BY <1>1, TrialInside
<1>3. Candidates
  BY <1>1 DEF MatchInv
<1>4. OSCCAL = t + 2
  BY <1>1, <1>2, <1>3 DEF Candidates
<1>5. /\ optimumValue \in t - 1 .. t + 1
      /\ optimumDev = Deviation(optimumValue)
      /\ \A v \in t - 1 .. t + 1 : optimumDev <= Deviation(v)
  BY <1>2, <1>3, <1>4 DEF Candidates
<1> QED
  BY <1>2, <1>5

LEMMA SettleStep ==
  ASSUME TypeOK, ~Trapped, MatchInv, Settle
  PROVE  MatchInv'
<1>1. /\ pc' = "done" /\ OSCCAL' = optimumValue
      /\ oscillator' = oscillator /\ trialValue' = trialValue
  BY DEF Settle, params
<1>2. \A v : Deviation(v)' = Deviation(v)
  BY <1>1 DEF Deviation
<1>3. BestOfThree'
  <2> SUFFICES ASSUME trialValue > 0
               PROVE  BestOfThree'
    BY <1>1 DEF BestOfThree
  <2>1. Deviation(OSCCAL)' = Deviation(optimumValue)
    BY <1>1 DEF Deviation
  <2> QED
    BY <1>1, <1>2, <2>1, SettleChooses DEF BestOfThree
<1> QED
  BY <1>1, <1>3 DEF MatchInv

\* With a growing frequency the best of the three is the best of all.
LEMMA SettleBest ==
  ASSUME TypeOK, ~Trapped, MatchInv, Settle, Growing(oscillator)
  PROVE  BestMatch'
<1> DEFINE t == trialValue
<1>1. /\ pc = "neighbour" /\ pc' = "done" /\ OSCCAL' = optimumValue
      /\ oscillator' = oscillator /\ Bracket(t, 1) /\ t \in Byte
  BY DEF Settle, MatchInv, TypeOK
<1>2. \A v \in Byte : Deviation(optimumValue) <= Deviation(v)
  <2>1. CASE t = 0
    <3>1. optimumValue = 0 /\ 0 \in Byte /\ 1 \in Byte /\ oscillator \in Oscillators
      BY <1>1, <2>1, ByteBounds DEF MatchInv, TypeOK
    <3>2. targetValue <= oscillator[1]
      BY <1>1, <2>1 DEF Bracket
    <3>3. targetValue <= oscillator[0]
      <4>1. oscillator[0] >= targetValue \/ oscillator[1] < targetValue
        BY <3>1, RangeAssumption
      <4> QED
        BY <3>1, <3>2, <4>1, CountType, TargetAssumption DEF Counts
    <3> SUFFICES ASSUME NEW v \in Byte PROVE Deviation(0) <= Deviation(v)
      BY <3>1
    <3>4. oscillator[0] <= oscillator[v]
      BY <3>1, ByteBounds DEF Growing
    <3> QED
      BY <3>1, <3>3, <3>4, CountType, TargetAssumption DEF Deviation, Counts
  <2>2. CASE t > 0
    <3>1. /\ t \in 1 .. 253 /\ t - 1 \in Byte /\ t + 1 \in Byte
          /\ oscillator[t] < targetValue /\ targetValue <= oscillator[t + 1]
          /\ optimumValue \in t - 1 .. t + 1
          /\ \A v \in t - 1 .. t + 1 : Deviation(optimumValue) <= Deviation(v)
      BY <2>2, SettleChooses
    <3>2. optimumValue \in Byte /\ t < 255 /\ t \in t - 1 .. t + 1 /\ t + 1 \in t - 1 .. t + 1
      BY <3>1, ByteBounds
    <3>3. Deviation(optimumValue) <= Deviation(t) /\ Deviation(optimumValue) <= Deviation(t + 1)
      BY <3>1, <3>2
    <3> QED
      BY <1>1, <3>1, <3>2, <3>3, BestIsNext
  <2> QED
    BY <1>1, <2>1, <2>2, ByteBounds
<1> QED
  BY <1>1, <1>2 DEF BestMatch, Deviation

-----------------------------------------------------------------------------
(* The trap *)

LEMMA SearchTrap ==
  ASSUME TrapInv, TypeOK', Search
  PROVE  TrapInv'
<1>1. step \in Steps /\ trialValue % 2 = 0 /\ trialValue \in Int
  BY ByteBounds DEF TrapInv, TypeOK, Search
<1>2. pc' = "search" => step' \in Steps /\ step # 1
  BY <1>1 DEF Search, Steps
<1>3. pc' = "search" => trialValue' % 2 = 0
  <2> SUFFICES ASSUME pc' = "search" PROVE trialValue' % 2 = 0
    OBVIOUS
  <2>1. ((trialValue + step) % 256) % 2 = 0
    BY <1>1, <1>2 DEF Steps
  <2> QED
    BY <1>1, <2>1 DEF Search
<1>4. ASSUME ~missed' PROVE ~Trapped'
  <2>1. ~missed /\ trialValue < 254
    BY <1>1, <1>4 DEF TrapInv, Trapped, Search, Notice
  <2>2. CASE trialValue' = trialValue
    BY <2>1, <2>2, <1>1 DEF Trapped
  <2>3. CASE trialValue' # trialValue
    <3>1. /\ trialValue' = OSCCAL' /\ x' < targetValue
          /\ OSCCAL' = (trialValue + step) % 256
      BY <2>3 DEF Search
    <3>2. OSCCAL' \in Byte /\ oscillator[OSCCAL'] \in Counts /\ oscillator \in Oscillators
      BY CountType DEF TypeOK, TrapInv, Search
    <3>3. x' = oscillator[OSCCAL']
      <4>1. oscillator[OSCCAL'] \in Ints
        BY <3>2 DEF Counts, Ints
      <4> QED
        BY <1>4, <4>1, IntFits DEF Search, Notice
    <3>4. OSCCAL' # 254
      <4>1. targetValue <= oscillator[254]
        BY <3>2, RangeAssumption
      <4> QED
        BY <3>1, <3>2, <3>3, <4>1, TargetAssumption DEF Counts
    <3>5. OSCCAL' # 255
      <4>1. CASE step = 1
        BY <1>1, <2>1, <3>1, <4>1, ByteBounds DEF TrapInv, TypeOK
      <4>2. CASE step # 1
        <5>1. step % 2 = 0 /\ step \in Int
          BY <1>1, <4>2 DEF Steps
        <5>2. ((trialValue + step) % 256) % 2 = 0
          BY <1>1, <5>1
        <5> QED
          BY <3>1, <5>2
      <4> QED
        BY <4>1, <4>2
    <3> QED
      BY <3>1, <3>2, <3>4, <3>5, ByteBounds DEF Trapped
  <2> QED
    BY <2>2, <2>3
<1> QED
  BY <1>2, <1>3, <1>4 DEF TrapInv

LEMMA TrapInit == Init => TrapInv
<1> SUFFICES ASSUME Init PROVE TrapInv
  OBVIOUS
<1>1. TypeOK
  BY InitType
<1> QED
  BY <1>1 DEF Init, TrapInv, Trapped, Steps

LEMMA TrapStep == TrapInv /\ [Next]_vars => TrapInv'
<1> SUFFICES ASSUME TrapInv, [Next]_vars PROVE TrapInv'
  OBVIOUS
<1>1. TypeOK /\ TypeOK'
  BY TypeStep DEF TrapInv
<1>2. CASE Search
  BY <1>1, <1>2, SearchTrap
<1>3. CASE Around \/ Neighbour \/ Settle
  <2>1. pc' # "search" /\ trialValue' = trialValue /\ (missed => missed')
    BY <1>3 DEF Around, Neighbour, Settle, params, Notice
  <2> QED
    BY <1>1, <2>1 DEF TrapInv, Trapped
<1>4. CASE Recalibrate
  BY <1>1, <1>4 DEF Recalibrate, TrapInv, Trapped, Steps
<1>5. CASE UNCHANGED vars
  BY <1>1, <1>5 DEF vars, params, TrapInv, Trapped
<1> QED
  BY <1>2, <1>3, <1>4, <1>5 DEF Next, calibrateOscillator

-----------------------------------------------------------------------------
(* The theorems *)

LEMMA CalInit == Init => CalInv
<1> SUFFICES ASSUME Init PROVE CalInv
  OBVIOUS
<1>1. TrapInv
  BY TrapInit
<1>2. MatchInv
  BY DEF Init, MatchInv, Steps, Bracket, BestOfThree
<1>3. BestMatch
  BY DEF Init, BestMatch
<1> QED
  BY <1>1, <1>2, <1>3 DEF CalInv

LEMMA CalStep == CalInv /\ [Next]_vars => CalInv'
<1> SUFFICES ASSUME CalInv, [Next]_vars PROVE CalInv'
  OBVIOUS
<1>1. TrapInv /\ TrapInv' /\ TypeOK /\ TypeOK'
  BY TrapStep DEF CalInv, TrapInv
<1>2. CASE calibrateOscillator
  <2>1. oscillator' = oscillator /\ (missed => missed')
    BY <1>2 DEF calibrateOscillator, Search, Around, Neighbour, Settle, Notice
  <2>2. ~missed' => ~Trapped /\ MatchInv
    BY <1>1, <2>1 DEF CalInv, TrapInv
  <2>3. ~missed' => MatchInv'
    BY <1>1, <1>2, <2>2, SearchStep, AroundStep, NeighbourStep, SettleStep
    DEF calibrateOscillator
  <2>4. BestMatch'
    <3>1. CASE Settle
      <4>1. Growing(oscillator)' <=> Growing(oscillator)
        BY <2>1 DEF Growing
      <4> QED
        BY <1>1, <2>2, <3>1, <4>1, SettleBest DEF BestMatch
    <3>2. CASE Search \/ Around \/ Neighbour
      <4>1. pc' # "done"
        BY <3>2 DEF Search, Around, Neighbour
      <4> QED
        BY <4>1 DEF BestMatch
    <3> QED
      BY <1>2, <3>1, <3>2 DEF calibrateOscillator
  <2> QED
    BY <1>1, <2>3, <2>4 DEF CalInv
<1>3. CASE Recalibrate
  BY <1>1, <1>3 DEF Recalibrate, CalInv, MatchInv, Steps, Bracket, BestMatch, BestOfThree
<1>4. CASE UNCHANGED vars
  BY <1>1, <1>4
  DEF vars, params, optimum, CalInv, MatchInv, Bracket, Last, Candidates,
      BestMatch, BestOfThree, Growing, Deviation
<1> QED
  BY <1>2, <1>3, <1>4 DEF Next

\* Whatever the oscillator, also one with two ranges: of the value the binary search
\* ends with and its neighbours the best is kept.
THEOREM KeepsTheBest == Spec => []BestOfThree
<1>1. CalInv => BestOfThree
  BY DEF CalInv, MatchInv, BestOfThree
<1> QED
  BY <1>1, CalInit, CalStep, PTL DEF Spec

\* For every oscillator whose frequency grows with the register: after a
\* calibration no other value of OSCCAL brings the clock closer to the target.
THEOREM CalibrationIsBest == Spec => []BestMatch
<1>1. CalInv => BestMatch
  BY DEF CalInv
<1> QED
  BY <1>1, CalInit, CalStep, PTL DEF Spec

\* Whatever the oscillator: while no frame is missing the search never arrives at
\* a value from which the loop over the neighbours does not return.
THEOREM OnlyMissedTrap == Spec => []OnlyMissedFramesTrap
<1>1. TrapInv => OnlyMissedFramesTrap
  BY DEF TrapInv, OnlyMissedFramesTrap
<1> QED
  BY <1>1, TrapInit, TrapStep, PTL DEF Spec
=============================================================================
