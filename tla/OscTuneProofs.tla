---------------------------- MODULE OscTuneProofs ----------------------------
(***************************************************************************)
(* Proofs about the continuous tuning of module OscTune, for any fineness  *)
(* of the clock and any oscillator that meets the assumptions.             *)
(***************************************************************************)
EXTENDS OscTune, TLAPS

\* Ticks that so many frames make more than so many turns of the timer, as a clock in
\* the tolerance can: a fast one at most 6 a frame, a slow one at least -3.
Drift(turns, r, frames) ==
  /\ r >= 256 * Sub => 0 <= turns /\ turns <= 6 * frames
  /\ r <= 256 * Sub => -3 * frames <= turns /\ turns <= 0

TypeInv ==
  /\ rate \in Oscillators /\ OSCCAL \in Byte /\ ticks \in Byte
  /\ part \in Nat /\ part < Sub
  /\ gap \in 0 .. MaxGap + 1
  /\ locked \in BOOLEAN

\* Since the last noticed frame the clock had one rate, in the tolerance, and the
\* timer made as many ticks as that rate makes.
LockedInv ==
  locked =>
    /\ rate[OSCCAL] \in InTolerance
    /\ gap <= MaxGap
    /\ \E turns \in Int : ticks = turns % 256 /\ Drift(turns, rate[OSCCAL], gap)

TuneInv == TypeInv /\ (gap = 0 => ticks = 0) /\ LockedInv

-----------------------------------------------------------------------------
(* Arithmetic *)

LEMMA SubNat == Sub \in Nat /\ Sub > 0
BY SubAssumption

LEMMA Quotient ==
  ASSUME NEW n \in Nat
  PROVE  /\ n \div Sub \in Nat /\ n % Sub \in Nat /\ n % Sub < Sub
         /\ n % Sub = n - Sub * (n \div Sub)
<1>1. n \div Sub \in Nat
  BY SubNat
<1>2. n % Sub \in Nat /\ n % Sub < Sub
  BY SubNat
<1>3. n % Sub = n - Sub * (n \div Sub)
  BY SubNat
<1> QED
  BY <1>1, <1>2, <1>3

\* A quotient is compared by products.
LEMMA Below ==
  ASSUME NEW n \in Nat, NEW c \in Nat, n < c * Sub
  PROVE  n \div Sub < c
<1> DEFINE q == n \div Sub
<1>1. q \in Nat /\ Sub * q <= n
  BY Quotient, SubNat
<1> HIDE DEF q
<1>2. q >= c => Sub * q >= c * Sub
  BY <1>1, SubNat
<1>3. q < c
  BY <1>1, <1>2, SubNat
<1> QED
  BY <1>3 DEF q

LEMMA Above ==
  ASSUME NEW n \in Nat, NEW c \in Nat, c * Sub <= n
  PROVE  c <= n \div Sub
<1> DEFINE q == n \div Sub
<1>1. q \in Nat /\ n < Sub * q + Sub
  BY Quotient, SubNat
<1> HIDE DEF q
<1>2. q < c => Sub * q + Sub <= c * Sub
  BY <1>1, SubNat
<1>3. c <= q
  BY <1>1, <1>2, SubNat
<1> QED
  BY <1>3 DEF q

LEMMA ByteMod ==
  ASSUME NEW n \in Int
  PROVE  n % 256 \in Byte
BY DEF Byte

-----------------------------------------------------------------------------
(* Rates *)

LEMMA ToleranceBounds ==
  ASSUME NEW r \in InTolerance
  PROVE  r \in Nat /\ 253 * Sub <= r /\ r < 262 * Sub
<1>1. r \in 1 .. 512 * Sub
  BY DEF InTolerance, Within
<1>2. 1000 * (16 * r - 4125 * Sub) \in -(15 * 4125 * Sub) .. 15 * 4125 * Sub
  BY DEF InTolerance, Within
<1> QED
  BY <1>1, <1>2, SubNat

LEMMA NearTurn ==
  ASSUME NEW r \in Nat, 255 * Sub <= r, r < 259 * Sub
  PROVE  r \in InTolerance
<1>1. r \in 1 .. 512 * Sub
  BY SubNat
<1>2. 1000 * (16 * r - 4125 * Sub) \in -(15 * 4125 * Sub) .. 15 * 4125 * Sub
  BY SubNat
<1> QED
  BY <1>1, <1>2 DEF InTolerance, Within

LEMMA RateType ==
  ASSUME TypeInv
  PROVE  /\ rate[OSCCAL] \in Nat
         /\ 3 * Sub <= rate[OSCCAL] /\ rate[OSCCAL] <= 511 * Sub
         /\ Elapsed \in Nat /\ Elapsed \div Sub \in Nat
<1>1. /\ rate[OSCCAL] \in Nat
      /\ 3 * Sub <= rate[OSCCAL] /\ rate[OSCCAL] <= 511 * Sub
  BY OscillatorsAssumption DEF TypeInv
<1>2. Elapsed \in Nat
  BY <1>1 DEF Elapsed, TypeInv
<1> QED
  BY <1>1, <1>2, Quotient

\* One frame more.
LEMMA DriftStep ==
  ASSUME TypeInv, rate[OSCCAL] \in InTolerance, NEW turns \in Int,
         Drift(turns, rate[OSCCAL], gap)
  PROVE  Drift(turns + Elapsed \div Sub - 256, rate[OSCCAL], gap + 1)
<1> DEFINE r == rate[OSCCAL]
           q == Elapsed \div Sub
<1>1. /\ r \in Nat /\ 253 * Sub <= r /\ r < 262 * Sub
      /\ part \in Nat /\ part < Sub /\ Elapsed = part + r /\ gap \in Nat
      /\ q \in Nat /\ Elapsed \in Nat
  BY ToleranceBounds, RateType, GapAssumption DEF TypeInv, Elapsed
<1>2. 253 <= q
  BY <1>1, Above, SubNat
<1>3. q < 263
  BY <1>1, Below, SubNat
<1>4. r >= 256 * Sub => 256 <= q
  BY <1>1, Above, SubNat
<1>5. r <= 256 * Sub => q < 257
  BY <1>1, Below, SubNat
<1>6. Drift(turns, r, gap)
  OBVIOUS
<1> HIDE DEF q, r
<1>7. Drift(turns + q - 256, r, gap + 1)
  BY <1>1, <1>2, <1>3, <1>4, <1>5, <1>6, SubNat DEF Drift
<1> QED
  BY <1>7 DEF q, r

-----------------------------------------------------------------------------
(* The verdict on a count *)

LEMMA TimerTurns ==
  ASSUME TypeInv, NEW turns \in Int, ticks = turns % 256
  PROVE  Timer = (turns + Elapsed \div Sub - 256) % 256
<1> DEFINE q == Elapsed \div Sub
<1>1. q \in Nat
  BY RateType
<1> HIDE DEF q
<1>2. ((turns % 256) + q) % 256 = (turns + q - 256) % 256
  BY <1>1
<1> QED
  BY <1>2 DEF Timer, q

\* The comparisons tell too many ticks from too few, within half a turn.
LEMMA Verdict ==
  ASSUME NEW turns \in Int, -64 <= turns, turns <= 127, Timer = turns % 256
  PROVE  /\ TooHigh => turns > 0
         /\ TooLow => turns < 0
<1>1. TooHigh => turns >= 3
  BY DEF TooHigh, Minus, Deviation, EXPECTED_TIMER0_INCREMENT, TOLERATED_DEVIATION
<1>2. TooLow => turns < 0
  BY DEF TooLow, TooHigh, Minus, Deviation, EXPECTED_TIMER0_INCREMENT, TOLERATED_DEVIATION
<1> QED
  BY <1>1, <1>2

LEMMA InOrder ==
  ASSUME Timer \in Byte, ~TooHigh, ~TooLow
  PROVE  Timer \in {0, 1, 2}
BY DEF Byte, TooLow, TooHigh, Minus, Deviation, EXPECTED_TIMER0_INCREMENT, TOLERATED_DEVIATION

\* A single frame that is in order is that of a rate in the tolerance.
LEMMA LocksRight ==
  ASSUME TypeInv, ticks = 0, ~TooHigh, ~TooLow
  PROVE  rate[OSCCAL] \in InTolerance
<1> DEFINE r == rate[OSCCAL]
           q == Elapsed \div Sub
<1>1. /\ r \in Nat /\ 3 * Sub <= r /\ r <= 511 * Sub
      /\ part \in Nat /\ part < Sub /\ Elapsed = part + r
      /\ q \in Nat /\ Elapsed \in Nat
  BY RateType DEF TypeInv, Elapsed
<1>2. 3 <= q /\ q < 512
  BY <1>1, Above, Below, SubNat
<1>3. q % 256 \in {0, 1, 2}
  <2>1. Timer = q % 256
    BY <1>1 DEF Timer
  <2>2. Timer \in Byte
    BY <1>1, <2>1, ByteMod
  <2> QED
    BY <2>1, <2>2, InOrder
<1>4. 256 <= q /\ q < 259
  BY <1>1, <1>2, <1>3
<1>5. 256 * Sub <= Elapsed /\ Elapsed < 259 * Sub
  <2>1. Elapsed < 256 * Sub => q < 256
    BY <1>1, Below
  <2>2. 259 * Sub <= Elapsed => 259 <= q
    BY <1>1, Above
  <2>3. 256 * Sub \in Nat /\ 259 * Sub \in Nat
    BY SubNat
  <2> QED
    BY <1>1, <1>4, <2>1, <2>2, <2>3
<1> QED
  BY <1>1, <1>5, NearTurn, SubNat

-----------------------------------------------------------------------------
(* The invariant *)

LEMMA TuneType == TypeInv /\ [Next]_vars => TypeInv'
<1> SUFFICES ASSUME TypeInv, [Next]_vars
             PROVE  TypeInv'
  OBVIOUS
<1>1. Timer \in Byte
  <2>1. ticks + Elapsed \div Sub \in Int
    BY RateType DEF TypeInv, Byte
  <2> QED
    BY <2>1, ByteMod DEF Timer
<1>2. Runs => part' \in Nat /\ part' < Sub
  BY RateType, Quotient DEF Runs
<1>3. MaxGap \in Nat
  BY GapAssumption
<1>4. CASE tuneOsccal
  <2>1. OSCCAL' \in Byte
    <3>1. OSCCAL \in Int /\ OSCCAL - 1 \in Int /\ OSCCAL + 1 \in Int
      BY DEF TypeInv, Byte
    <3> QED
      BY <1>4, <3>1, ByteMod DEF tuneOsccal
  <2>2. ticks' \in Byte /\ gap' \in 0 .. MaxGap + 1
    BY <1>3, <1>4 DEF tuneOsccal, Byte
  <2>3. locked' \in BOOLEAN
    BY <1>4 DEF tuneOsccal
  <2> QED
    BY <1>2, <1>4, <2>1, <2>2, <2>3 DEF tuneOsccal, TypeInv
<1>5. CASE Missed
  BY <1>1, <1>2, <1>3, <1>5 DEF Missed, TypeInv
<1>6. CASE UNCHANGED vars
  BY <1>6 DEF vars, TypeInv
<1> QED
  BY <1>4, <1>5, <1>6 DEF Next

LEMMA TuneStep == TuneInv /\ [Next]_vars => TuneInv'
<1> SUFFICES ASSUME TuneInv, [Next]_vars
             PROVE  TuneInv'
  OBVIOUS
<1>1. TypeInv /\ TypeInv' /\ LockedInv
  BY TuneType DEF TuneInv
<1>2. CASE tuneOsccal
  <2>1. /\ ticks' = 0 /\ gap' = 0 /\ rate' = rate
        /\ locked' = (locked \/ (gap = 0 /\ ~TooHigh /\ ~TooLow))
        /\ OSCCAL' = (CASE TooHigh -> OSCCAL - 1 [] TooLow -> OSCCAL + 1 [] OTHER -> OSCCAL) % 256
    BY <1>2 DEF tuneOsccal
  <2>2. OSCCAL \in Byte /\ rate \in Oscillators /\ OSCCAL % 256 = OSCCAL
    BY <1>1 DEF TypeInv, Byte
  <2>3. ASSUME locked
        PROVE  rate'[OSCCAL'] \in InTolerance
    <3>1. PICK turns \in Int : ticks = turns % 256 /\ Drift(turns, rate[OSCCAL], gap)
      BY <1>1, <2>3 DEF LockedInv
    <3>2. rate[OSCCAL] \in InTolerance /\ gap \in 0 .. 20
      BY <1>1, <2>3, GapAssumption DEF LockedInv, TypeInv
    <3> DEFINE now == turns + Elapsed \div Sub - 256
    <3>3. now \in Int /\ Timer = now % 256
      BY <1>1, <3>1, RateType, TimerTurns
    <3>4. Drift(now, rate[OSCCAL], gap + 1)
      BY <1>1, <3>1, <3>2, DriftStep
    <3> HIDE DEF now
    <3>5. rate[OSCCAL] \in Nat /\ Sub \in Nat
      BY <1>1, RateType, SubNat
    <3>6. /\ -64 <= now /\ now <= 127
          /\ now > 0 => rate[OSCCAL] > 256 * Sub
          /\ now < 0 => rate[OSCCAL] < 256 * Sub
      BY <3>2, <3>3, <3>4, <3>5 DEF Drift
    <3>7. /\ TooHigh => now > 0
          /\ TooLow => now < 0
      BY <3>3, <3>6, Verdict
    <3>8. CASE TooHigh
      <4>1. OSCCAL' = (OSCCAL - 1) % 256
        BY <2>1, <3>8 DEF TooLow
      <4>2. rate[OSCCAL] > 256 * Sub
        BY <3>6, <3>7, <3>8
      <4>3. rate[(OSCCAL - 1) % 256] \in InTolerance
        BY <2>2, <3>2, <4>2, StepAssumption
      <4> QED
        BY <2>1, <4>1, <4>3
    <3>9. CASE TooLow
      <4>1. OSCCAL' = (OSCCAL + 1) % 256
        BY <2>1, <3>9 DEF TooLow
      <4>2. rate[OSCCAL] < 256 * Sub
        BY <3>6, <3>7, <3>9
      <4>3. rate[(OSCCAL + 1) % 256] \in InTolerance
        BY <2>2, <3>2, <4>2, StepAssumption
      <4> QED
        BY <2>1, <4>1, <4>3
    <3>10. CASE ~TooHigh /\ ~TooLow
      BY <2>1, <2>2, <3>2, <3>10
    <3> QED
      BY <3>8, <3>9, <3>10
  <2>4. ASSUME gap = 0, ~TooHigh, ~TooLow
        PROVE  rate'[OSCCAL'] \in InTolerance
    <3>1. rate[OSCCAL] \in InTolerance
      BY <1>1, <2>4, LocksRight DEF TuneInv
    <3> QED
      BY <2>1, <2>2, <2>4, <3>1
  <2>5. LockedInv'
    <3>1. locked' => rate'[OSCCAL'] \in InTolerance
      BY <2>1, <2>3, <2>4
    <3>2. ticks' = 0 % 256 /\ \A r \in Nat : Drift(0, r, 0)
      BY <2>1, SubNat DEF Drift
    <3>3. rate'[OSCCAL'] \in Nat /\ 0 \in Int
      BY <1>1, OscillatorsAssumption DEF TypeInv
    <3>4. gap' <= MaxGap
      BY <2>1, GapAssumption
    <3> QED
      BY <2>1, <3>1, <3>2, <3>3, <3>4 DEF LockedInv, Drift
  <2> QED
    BY <1>1, <2>1, <2>5 DEF TuneInv
<1>3. CASE Missed
  <2>1. /\ gap < MaxGap /\ ticks' = Timer /\ gap' = gap + 1 /\ gap \in Nat
        /\ rate' = rate /\ OSCCAL' = OSCCAL /\ locked' = locked
    BY <1>1, <1>3, GapAssumption DEF Missed, TypeInv
  <2>2. ASSUME locked
        PROVE  \E turns \in Int : ticks' = turns % 256 /\ Drift(turns, rate[OSCCAL], gap + 1)
    <3>1. PICK turns \in Int : ticks = turns % 256 /\ Drift(turns, rate[OSCCAL], gap)
      BY <1>1, <2>2 DEF LockedInv
    <3>2. rate[OSCCAL] \in InTolerance
      BY <1>1, <2>2 DEF LockedInv
    <3> DEFINE now == turns + Elapsed \div Sub - 256
    <3>3. now \in Int /\ Timer = now % 256
      BY <1>1, <3>1, RateType, TimerTurns
    <3>4. Drift(now, rate[OSCCAL], gap + 1)
      BY <1>1, <3>1, <3>2, DriftStep
    <3> QED
      BY <2>1, <3>3, <3>4
  <2>3. LockedInv'
    <3>1. gap' <= MaxGap
      BY <2>1, GapAssumption
    <3> QED
      BY <1>1, <2>1, <2>2, <3>1 DEF LockedInv, Drift
  <2>4. gap' # 0
    BY <2>1
  <2> QED
    BY <1>1, <2>3, <2>4 DEF TuneInv
<1>4. CASE UNCHANGED vars
  BY <1>1, <1>4 DEF TuneInv, LockedInv, Drift, vars
<1> QED
  BY <1>2, <1>3, <1>4 DEF Next

\* However many frames are missed, up to MaxGap, between those that are noticed, and
\* however the parts of a tick fall: once a frame was in order the tuning does not
\* leave the tolerance of USB.
THEOREM TuningStaysUsable == Spec => []StaysUsable
<1>1. Init => TuneInv
  <2> SUFFICES ASSUME Init
               PROVE  TuneInv
    OBVIOUS
  <2>1. MaxGap \in Nat /\ Sub \in Nat /\ Sub > 0
    BY GapAssumption, SubNat
  <2>2. MaxGap + 1 \in 0 .. MaxGap + 1 /\ 0 \in Nat /\ 0 < Sub
    BY <2>1
  <2>3. TypeInv
    BY <2>2 DEF Init, TypeInv
  <2>4. gap # 0 /\ ~locked
    BY <2>1 DEF Init
  <2> QED
    BY <2>3, <2>4 DEF TuneInv, LockedInv
<1>2. TuneInv => StaysUsable
  BY DEF TuneInv, LockedInv, StaysUsable
<1> QED
  BY <1>1, <1>2, TuneStep, PTL DEF Spec
=============================================================================
