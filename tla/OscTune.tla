------------------------------ MODULE OscTune -------------------------------
(***************************************************************************)
(* tuneOsccal (osctune.h), the alternative to osccal.c: whenever the       *)
(* device notices the start of a frame, the ticks timer 0 made since the   *)
(* last one decide whether OSCCAL moves by one.  The timer runs on when a  *)
(* frame is missed, so the next count is that of several frames.           *)
(*                                                                         *)
(* Only the difference TCNT0 - lastTimer0Value matters, so that is the     *)
(* variable, with the part of a tick the timer is in.                      *)
(***************************************************************************)
EXTENDS Integers

CONSTANTS
  Sub,          \* parts of a tick that are told apart
  Oscillators,  \* parts of a tick per frame, for each value of OSCCAL
  Factory,      \* rates the chip may start with
  MaxGap        \* frames missed in a row

Byte == 0 .. 255

ASSUME SubAssumption == Sub \in Nat \ {0}
\* Rates off by at most so many thousandths; 257.8125 ticks make a frame at 16.5 MHz.
Within(permille) ==
  {r \in 1 .. 512 * Sub :
     1000 * (16 * r - 4125 * Sub) \in -(permille * 4125 * Sub) .. permille * 4125 * Sub}
InTolerance == Within(15)      \* of USB, at low speed
Precise == Within(10)          \* "better than +/-1%" (osctune.h)

ASSUME FactoryAssumption == Factory \subseteq Nat
\* In 21 frames an oscillator in the tolerance does not gain or lose half a turn of the timer.
ASSUME GapAssumption == MaxGap \in 0 .. 20
\* No oscillator is so slow, below 200 kHz, or so fast, above 32 MHz, that the timer
\* makes as many ticks, or a turn more or less, as it makes with the right one.
ASSUME OscillatorsAssumption ==
  \A f \in Oscillators :
    f \in [Byte -> Nat] /\ \A v \in Byte : 3 * Sub <= f[v] /\ f[v] <= 511 * Sub
\* One step of the register towards a turn of the timer does not leave the tolerance:
\* that is 2 ticks, or 0.8 %, below a turn and 5 ticks above it.
ASSUME StepAssumption ==
  \A f \in Oscillators, v \in Byte : f[v] \in InTolerance =>
    /\ f[v] > 256 * Sub => f[(v - 1) % 256] \in InTolerance
    /\ f[v] < 256 * Sub => f[(v + 1) % 256] \in InTolerance

\* for F_CPU 16500000, TIMER0_PRESCALING 64, TOLERATED_DEVIATION_PPT 5
EXPECTED_TIMER0_INCREMENT == 257 % 256
TOLERATED_DEVIATION == 1

VARIABLES
  rate,         \* the oscillator
  OSCCAL,
  ticks,        \* TCNT0 - lastTimer0Value
  part,         \* of a tick
  gap,          \* frames missed since the last one noticed
  locked        \* history: a noticed frame was in order, no frame missed before it

vars == <<rate, OSCCAL, ticks, part, gap, locked>>

Init ==
  /\ rate \in Oscillators /\ OSCCAL \in {v \in Byte : rate[v] \in Factory}
  /\ ticks \in Byte /\ part = 0 /\ gap = MaxGap + 1 /\ locked = FALSE

\* The timer at the end of a frame.
Elapsed == part + rate[OSCCAL]
Timer == (ticks + Elapsed \div Sub) % 256
Runs == part' = Elapsed % Sub

\* The comparisons: brmi and brpl look at bit 7 of the difference.
BugMinus(byte) == byte < 0         \* mutant: of the difference as a number
Minus(byte) == byte % 256 >= 128
Deviation == (Timer - EXPECTED_TIMER0_INCREMENT) % 256
TooHigh == ~Minus(Deviation - (TOLERATED_DEVIATION + 1))
TooLow == ~TooHigh /\ Minus(Deviation + TOLERATED_DEVIATION)

\* Mutant: lastTimer0Value is only stored when the clock is in order.
BugTune ==
  /\ Runs
  /\ OSCCAL' = (CASE TooHigh -> OSCCAL - 1 [] TooLow -> OSCCAL + 1 [] OTHER -> OSCCAL) % 256
  /\ ticks' = IF TooHigh \/ TooLow THEN Timer ELSE 0
  /\ gap' = 0
  /\ locked' = (locked \/ (gap = 0 /\ ~TooHigh /\ ~TooLow))
  /\ UNCHANGED rate

tuneOsccal ==
  /\ Runs
  /\ OSCCAL' = (CASE TooHigh -> OSCCAL - 1 [] TooLow -> OSCCAL + 1 [] OTHER -> OSCCAL) % 256
  /\ ticks' = 0 /\ gap' = 0
  /\ locked' = (locked \/ (gap = 0 /\ ~TooHigh /\ ~TooLow))
  /\ UNCHANGED rate

Missed ==
  /\ gap < MaxGap
  /\ Runs /\ ticks' = Timer /\ gap' = gap + 1
  /\ UNCHANGED <<rate, OSCCAL, locked>>

Next == tuneOsccal \/ Missed
Spec == Init /\ [][Next]_vars
\* The host sends frames, and some of them are noticed.
FairSpec == Spec /\ WF_vars(tuneOsccal)

-----------------------------------------------------------------------------
(* Properties *)

\* Once a frame was in order the clock stays in the tolerance of USB, however many
\* frames are missed between the noticed ones and however the parts of a tick fall.
StaysUsable == locked => rate[OSCCAL] \in InTolerance

\* When no more frames are missed the clock ends up, and stays, as precise as
\* osctune.h promises.
Locks == <>[](gap = 0) => <>[](rate[OSCCAL] \in Precise)
=============================================================================
