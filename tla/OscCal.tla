------------------------------- MODULE OscCal -------------------------------
(***************************************************************************)
(* calibrateOscillator: after a bus reset the driver tunes the RC          *)
(* oscillator by the frames of the bus.  A binary search for the register  *)
(* value, then a search among its neighbours.  Each action is one          *)
(* measurement of usbMeasureFrameLength and what is done with its result.  *)
(*                                                                         *)
(* Registers and uchar variables are bytes and wrap; int has 16 bits, and  *)
(* trialValue + 1 is an int, as C promotes it.                             *)
(***************************************************************************)
EXTENDS Integers

CONSTANTS
  Oscillators,   \* the length of a frame, per OSCCAL, an oscillator measures
  Disturbed,     \* what a measurement returns when one strobe or all are missed
  targetValue    \* 1499 * F_CPU / 10.5 MHz, rounded

Byte == 0 .. 255
Counts == {n \in Nat : n <= 32767}   \* a frame of at most 13 ms

ASSUME OscillatorsAssumption == Oscillators \subseteq [Byte -> Counts]
ASSUME DisturbedAssumption == Disturbed \subseteq {n \in Nat : n <= 65535}
ASSUME TargetAssumption == targetValue \in Counts
\* Every chip reaches the target, not with the highest value only and not between
\* the two lowest: with trialValue 0 the code skips the neighbours, with 254 and
\* 255 it never leaves them.  And no step of the register is so large that the
\* count below the target is less than its deviation: the code compares the two.
ASSUME RangeAssumption ==
  \A f \in Oscillators :
    /\ f[254] >= targetValue
    /\ f[0] >= targetValue \/ f[1] < targetValue
    /\ \A v \in 0 .. 254 :
         f[v] < targetValue /\ targetValue <= f[v + 1] => targetValue < 2 * f[v]

VARIABLES
  oscillator,    \* that of this chip, at this temperature and voltage
  OSCCAL,
  step, trialValue, optimumValue, optimumDev, x,
  pc,
  missed         \* history: a frame was missing in this calibration

params == <<step, trialValue>>
optimum == <<optimumValue, optimumDev>>
vars == <<oscillator, OSCCAL, params, optimum, x, pc, missed>>

Init ==
  /\ oscillator \in Oscillators
  /\ OSCCAL = 0
  /\ step = 128
  /\ trialValue = 0
  /\ optimumValue = 0
  /\ optimumDev = 0
  /\ x = 0
  /\ pc = "search"
  /\ missed = FALSE

-----------------------------------------------------------------------------
\* usbMeasureFrameLength returns 0 when it times out.
usbMeasureFrameLength(value) == {oscillator[value]} \cup Disturbed
Notice(count, value) ==
  IF count = oscillator[value] THEN UNCHANGED missed ELSE missed' = TRUE

\* Stored in an int; and if(x < 0) x = -x, which leaves the least int alone.
Ints == {n \in Int : -32768 <= n /\ n <= 32767}
Int16(n) == ((n + 32768) % 65536) - 32768
AbsInt(n) == IF n < 0 THEN Int16(0 - n) ELSE n

\* Mutants: the comparison the wrong way round; the step is not halved.
BugSearchUp ==
  /\ pc = "search"
  /\ OSCCAL' = (trialValue + step) % 256
  /\ \E count \in usbMeasureFrameLength(OSCCAL') :
       x' = Int16(count) /\ Notice(count, OSCCAL')
  /\ trialValue' = IF x' > targetValue THEN OSCCAL' ELSE trialValue
  /\ step' = step \div 2
  /\ pc' = IF step' > 0 THEN "search" ELSE "around"
  /\ UNCHANGED <<oscillator, optimum>>

BugNoShift ==
  /\ pc = "search"
  /\ OSCCAL' = (trialValue + step) % 256
  /\ \E count \in usbMeasureFrameLength(OSCCAL') :
       x' = Int16(count) /\ Notice(count, OSCCAL')
  /\ trialValue' = IF x' < targetValue THEN OSCCAL' ELSE trialValue
  /\ step' = step
  /\ pc' = IF step' > 0 THEN "search" ELSE "around"
  /\ UNCHANGED <<oscillator, optimum>>

\* One round of the binary search
Search ==
  /\ pc = "search"
  /\ OSCCAL' = (trialValue + step) % 256
  /\ \E count \in usbMeasureFrameLength(OSCCAL') :
       x' = Int16(count) /\ Notice(count, OSCCAL')
  /\ trialValue' = IF x' < targetValue THEN OSCCAL' ELSE trialValue
  /\ step' = step \div 2
  /\ pc' = IF step' > 0 THEN "search" ELSE "around"
  /\ UNCHANGED <<oscillator, optimum>>

\* Start at the neighbour below.
Around ==
  /\ pc = "around"
  /\ optimumValue' = trialValue
  /\ optimumDev' = x
  /\ OSCCAL' = (trialValue - 1) % 256
  /\ pc' = "neighbour"
  /\ UNCHANGED <<oscillator, params, x, missed>>

\* Mutant: a frequency too low counts as close.
BugNoAbs ==
  /\ pc = "neighbour" /\ OSCCAL <= trialValue + 1
  /\ \E count \in usbMeasureFrameLength(OSCCAL) :
       x' = Int16(count - targetValue) /\ Notice(count, OSCCAL)
  /\ IF x' < optimumDev
     THEN optimumDev' = x' /\ optimumValue' = OSCCAL
     ELSE UNCHANGED optimum
  /\ OSCCAL' = (OSCCAL + 1) % 256
  /\ UNCHANGED <<oscillator, params, pc>>

\* One round of the neighbourhood search
Neighbour ==
  /\ pc = "neighbour" /\ OSCCAL <= trialValue + 1
  /\ \E count \in usbMeasureFrameLength(OSCCAL) :
       x' = AbsInt(Int16(count - targetValue)) /\ Notice(count, OSCCAL)
  /\ IF x' < optimumDev
     THEN optimumDev' = x' /\ optimumValue' = OSCCAL
     ELSE UNCHANGED optimum
  /\ OSCCAL' = (OSCCAL + 1) % 256
  /\ UNCHANGED <<oscillator, params, pc>>

\* Store the best value.
Settle ==
  /\ pc = "neighbour" /\ OSCCAL > trialValue + 1
  /\ OSCCAL' = optimumValue
  /\ pc' = "done"
  /\ UNCHANGED <<oscillator, params, optimum, x, missed>>

\* The next reset calibrates again; the oscillator may have drifted.
Recalibrate ==
  /\ pc = "done"
  /\ oscillator' \in Oscillators
  /\ step' = 128
  /\ trialValue' = 0
  /\ pc' = "search"
  /\ optimumValue' = 0 /\ optimumDev' = 0 /\ x' = 0
  /\ missed' = FALSE
  /\ UNCHANGED OSCCAL

calibrateOscillator == Search \/ Around \/ Neighbour \/ Settle
Next == calibrateOscillator \/ Recalibrate

Spec == Init /\ [][Next]_vars
\* Interrupts are off: nothing keeps the loop from its next measurement.
FairSpec == Spec /\ WF_vars(calibrateOscillator)

-----------------------------------------------------------------------------
(* Properties *)

TypeOK ==
  /\ oscillator \in Oscillators
  /\ OSCCAL \in Byte
  /\ step \in {0, 1, 2, 4, 8, 16, 32, 64, 128}
  /\ trialValue \in Byte
  /\ optimumValue \in Byte
  /\ optimumDev \in Ints
  /\ x \in Ints
  /\ pc \in {"search", "around", "neighbour", "done"}
  /\ missed \in BOOLEAN

\* How far off the clock is with this value.
Deviation(value) ==
  IF oscillator[value] < targetValue
  THEN targetValue - oscillator[value] ELSE oscillator[value] - targetValue

\* "It is guaranteed to find the best match among neighboring values" (osccal.h): of
\* the value the binary search ends with and its two neighbours, none is better than
\* the one that is kept.
BestOfThree ==
  pc = "done" /\ ~missed /\ trialValue > 0 =>
    /\ OSCCAL \in trialValue - 1 .. trialValue + 1
    /\ \A value \in trialValue - 1 .. trialValue + 1 : Deviation(OSCCAL) <= Deviation(value)

\* No value at all is better, for an oscillator whose frequency grows with the
\* register: the binary search does not stop next to the target and the eight
\* rounds of it reach every byte.
Growing(f) == \A v, w \in Byte : v <= w => f[v] <= f[w]
BestMatch ==
  pc = "done" /\ ~missed /\ Growing(oscillator) =>
    \A value \in Byte : Deviation(OSCCAL) <= Deviation(value)

\* Interrupts are enabled again at some time, whichever frames are missing, unless
\* the search arrived at one of the two highest values; then the loop goes on for
\* ever, as trialValue + 1 is an int that OSCCAL does not exceed.
Trapped == trialValue >= 254
CalibrationEnds == pc = "search" ~> pc = "done" \/ Trapped

\* Only missing frames, which count as too slow, lead the search there.
OnlyMissedFramesTrap == pc = "neighbour" /\ Trapped => missed
=============================================================================
