---------------------------- MODULE XinputReport ----------------------------
(***************************************************************************)
(* The report of an XInput controller (xinputreporthandler.c), which the   *)
(* repository keeps for a later firmware: 20 bytes with the buttons, two   *)
(* triggers and two joysticks.  Its caller initialises a buffer, then      *)
(* calls the setters in any order, with percentages for the axes.          *)
(***************************************************************************)
EXTENDS Integers

CONSTANTS
  IntBytes,    \* sizeof(int)
  Buttons, Percents, AxisPercents   \* arguments the caller may give

Char == -128 .. 127
Word == {n \in Nat : n < 65536}   \* two chars
Axes == {"leftX", "leftY", "rightX", "rightY"}
Triggers == {"leftTrigger", "rightTrigger"}

ASSUME IntAssumption == IntBytes = 2
ASSUME ArgumentAssumption ==
  Buttons \subseteq Word /\ Percents \subseteq Char /\ AxisPercents \subseteq Char

VARIABLES
  report,      \* the 20 bytes
  asked        \* history: the buttons and the percentages last given

vars == <<report, asked>>

\* Conversions to float and back drop the fraction; what a float rounds is less than
\* the fraction is away from a whole number.
Toward0(n, d) == IF n < 0 THEN -((-n) \div d) ELSE n \div d
XinputAxisPercent(val) ==
  CASE val < -100 -> -32768
    [] val > 100  -> 32767
    [] OTHER      -> Toward0(val * (IF val < 0 THEN 32768 ELSE 32767), 100)
XinputTriggerPercent(val) ==
  CASE val < 0   -> 0
    [] val > 100 -> 255
    [] OTHER     -> Toward0(val * 255, 100)

\* An int stored in two chars, low byte first; >> keeps the sign.
Pair(index, value) ==
  [i \in {index, index + 1} |-> IF i = index THEN value % 256 ELSE (value \div 256) % 256]
Write(bytes) == report' = [i \in 0 .. 19 |-> IF i \in DOMAIN bytes THEN bytes[i] ELSE report[i]]

Fresh == [[i \in 0 .. 19 |-> 0] EXCEPT ![1] = 20]
Nothing == [f \in Axes \cup Triggers \cup {"buttons"} |-> 0]

Init == report = [i \in 0 .. 19 |-> 255] /\ asked = <<>>

XinputReportInit == report' = Fresh /\ asked' = Nothing

XinputReportSetButtons(buttons) ==
  /\ IntBytes = 2
  /\ Write(Pair(2, buttons))
  /\ asked' = [asked EXCEPT !.buttons = buttons]

XinputReportSetTriggerLeft(val) ==
  /\ Write([i \in {4} |-> XinputTriggerPercent(val)])
  /\ asked' = [asked EXCEPT !.leftTrigger = val]
XinputReportSetTriggerRight(val) ==
  /\ Write([i \in {5} |-> XinputTriggerPercent(val)])
  /\ asked' = [asked EXCEPT !.rightTrigger = val]

\* Mutant: the y axis overlaps the x axis.
BugJoystick(index, xAxis, yAxis) ==
  [i \in index .. index + 2 |->
     IF i = index THEN xAxis % 256 ELSE Pair(index + 1, yAxis)[i]]
Joystick(index, xAxis, yAxis) ==
  [i \in index .. index + 3 |->
     IF i < index + 2 THEN Pair(index, xAxis)[i] ELSE Pair(index + 2, yAxis)[i]]

XinputReportSetJoystickLeft(x, y) ==
  /\ Write(Joystick(6, XinputAxisPercent(x), XinputAxisPercent(y)))
  /\ asked' = [asked EXCEPT !.leftX = x, !.leftY = y]
XinputReportSetJoystickRight(x, y) ==
  /\ Write(Joystick(10, XinputAxisPercent(x), XinputAxisPercent(y)))
  /\ asked' = [asked EXCEPT !.rightX = x, !.rightY = y]

XinputReportBuffersEqual(one, two) == \A i \in 0 .. 19 : one[i] = two[i]

Next ==
  \/ XinputReportInit
  \/ /\ asked # <<>>
     /\ \/ \E b \in Buttons : XinputReportSetButtons(b)
        \/ \E p \in Percents : XinputReportSetTriggerLeft(p) \/ XinputReportSetTriggerRight(p)
        \/ \E x \in AxisPercents, y \in Percents : XinputReportSetJoystickLeft(x, y)
        \/ \E x, y \in Percents : XinputReportSetJoystickRight(x, y)

Spec == Init /\ [][Next]_vars

----------------------------------------------------------------------------
\* What the host reads of the report: 16 bits, the axes with a sign.
Unsigned(index) == report[index] + 256 * report[index + 1]
Signed(index) == Unsigned(index) - (IF report[index + 1] > 127 THEN 65536 ELSE 0)
Shown ==
  [leftX |-> Signed(6), leftY |-> Signed(8), rightX |-> Signed(10), rightY |-> Signed(12)]

\* Whatever setters were called in whatever order, the host reads the last buttons;
\* an axis that was given more is shown as far or farther, zero in the middle and
\* 100 % and more at its end; so are the triggers; the length stays, and the report
\* compares equal to a fresh one exactly when everything is released.
ReportRight ==
  asked # <<>> =>
    /\ Unsigned(2) = asked.buttons /\ report[0] = 0 /\ report[1] = 20
    /\ \A a, b \in Axes : asked[a] <= asked[b] => Shown[a] <= Shown[b]
    /\ \A a \in Axes :
         /\ Shown[a] = 0 <=> asked[a] = 0
         /\ Shown[a] = 32767 <=> asked[a] >= 100
         /\ Shown[a] = -32768 <=> asked[a] <= -100
    /\ asked.leftTrigger <= asked.rightTrigger => report[4] <= report[5]
    /\ asked.leftTrigger >= 100 <=> report[4] = 255
    /\ XinputReportBuffersEqual(report, Fresh)
         <=> \A f \in DOMAIN asked : asked[f] = 0 \/ (f \in Triggers /\ asked[f] < 0)
=============================================================================
