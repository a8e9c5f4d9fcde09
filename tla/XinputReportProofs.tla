------------------------- MODULE XinputReportProofs -------------------------
(***************************************************************************)
(* Proofs about module XinputReport, for whatever arguments a C caller can *)
(* give the setters.                                                       *)
(***************************************************************************)
EXTENDS XinputReport, TLAPS

Fields == Axes \cup Triggers \cup {"buttons"}

\* Two chars hold a value, low byte first.
Holds(index, value) ==
  report[index] = value % 256 /\ report[index + 1] = (value \div 256) % 256

\* Every byte is what the arguments given last make it.
Encoded ==
  asked # <<>> =>
    /\ asked \in [Fields -> Int]
    /\ asked.buttons \in Word
    /\ \A f \in Axes \cup Triggers : asked[f] \in Char
    /\ report[0] = 0 /\ report[1] = 20
    /\ Holds(2, asked.buttons)
    /\ report[4] = XinputTriggerPercent(asked.leftTrigger)
    /\ report[5] = XinputTriggerPercent(asked.rightTrigger)
    /\ Holds(6, XinputAxisPercent(asked.leftX)) /\ Holds(8, XinputAxisPercent(asked.leftY))
    /\ Holds(10, XinputAxisPercent(asked.rightX)) /\ Holds(12, XinputAxisPercent(asked.rightY))
    /\ \A i \in 14 .. 19 : report[i] = 0
ReportInv == report \in [0 .. 19 -> Int] /\ Encoded

-----------------------------------------------------------------------------
(* The conversions *)

LEMMA Hundredths ==
  ASSUME NEW n \in Nat
  PROVE  n \div 100 \in Nat /\ 100 * (n \div 100) <= n /\ n < 100 * (n \div 100) + 100
OBVIOUS

\* A percentage of an axis is cut off towards the middle.
LEMMA AxisCut ==
  ASSUME NEW p \in Char
  PROVE  LET a == XinputAxisPercent(p) IN
         /\ a \in Int
         /\ p < -100 => a = -32768
         /\ -100 <= p /\ p < 0 => 100 * a >= 32768 * p /\ 100 * a < 32768 * p + 100
         /\ 0 <= p /\ p <= 100 => 100 * a <= 32767 * p /\ 100 * a > 32767 * p - 100
         /\ p > 100 => a = 32767
<1>1. CASE p < -100
  BY <1>1 DEF XinputAxisPercent, Char
<1>2. CASE p > 100
  BY <1>2 DEF XinputAxisPercent, Char
<1>3. CASE -100 <= p /\ p < 0
  <2>1. XinputAxisPercent(p) = -((-(p * 32768)) \div 100)
    BY <1>3 DEF Char, XinputAxisPercent, Toward0
  <2>2. -(p * 32768) \in Nat
    BY <1>3 DEF Char
  <2> DEFINE d == (-(p * 32768)) \div 100
  <2>3. d \in Nat /\ 100 * d <= -(p * 32768) /\ -(p * 32768) < 100 * d + 100
    BY <2>2, Hundredths
  <2> HIDE DEF d
  <2> QED
    BY <1>3, <2>1, <2>3 DEF d, Char
<1>4. CASE 0 <= p /\ p <= 100
  <2>1. XinputAxisPercent(p) = (p * 32767) \div 100
    BY <1>4 DEF Char, XinputAxisPercent, Toward0
  <2>2. p * 32767 \in Nat
    BY <1>4 DEF Char
  <2> QED
    BY <1>4, <2>1, <2>2, Hundredths DEF Char
<1> QED
  BY <1>1, <1>2, <1>3, <1>4 DEF Char

LEMMA TriggerCut ==
  ASSUME NEW p \in Char
  PROVE  LET a == XinputTriggerPercent(p) IN
         /\ a \in Int
         /\ p < 0 => a = 0
         /\ 0 <= p /\ p <= 100 => 100 * a <= 255 * p /\ 100 * a > 255 * p - 100
         /\ p > 100 => a = 255
<1>1. CASE p < 0
  BY <1>1 DEF XinputTriggerPercent, Char
<1>2. CASE p > 100
  BY <1>2 DEF XinputTriggerPercent, Char
<1>3. CASE 0 <= p /\ p <= 100
  <2>1. XinputTriggerPercent(p) = (p * 255) \div 100
    BY <1>3 DEF Char, XinputTriggerPercent, Toward0
  <2>2. p * 255 \in Nat
    BY <1>3 DEF Char
  <2> QED
    BY <1>3, <2>1, <2>2, Hundredths DEF Char
<1> QED
  BY <1>1, <1>2, <1>3 DEF Char

\* An axis: any percentage has its place in 16 bits, more is never shown as less,
\* and the middle and both ends are shown for no other percentage.
LEMMA AxisPercent ==
  ASSUME NEW p \in Char, NEW q \in Char
  PROVE  /\ XinputAxisPercent(p) \in Int
         /\ -32768 <= XinputAxisPercent(p) /\ XinputAxisPercent(p) <= 32767
         /\ p <= q => XinputAxisPercent(p) <= XinputAxisPercent(q)
         /\ XinputAxisPercent(p) = 0 <=> p = 0
         /\ XinputAxisPercent(p) = 32767 <=> p >= 100
         /\ XinputAxisPercent(p) = -32768 <=> p <= -100
<1> DEFINE a == XinputAxisPercent(p)
           b == XinputAxisPercent(q)
<1>1. /\ a \in Int
      /\ p < -100 => a = -32768
      /\ -100 <= p /\ p < 0 => 100 * a >= 32768 * p /\ 100 * a < 32768 * p + 100
      /\ 0 <= p /\ p <= 100 => 100 * a <= 32767 * p /\ 100 * a > 32767 * p - 100
      /\ p > 100 => a = 32767
  BY AxisCut
<1>2. /\ b \in Int
      /\ q < -100 => b = -32768
      /\ -100 <= q /\ q < 0 => 100 * b >= 32768 * q /\ 100 * b < 32768 * q + 100
      /\ 0 <= q /\ q <= 100 => 100 * b <= 32767 * q /\ 100 * b > 32767 * q - 100
      /\ q > 100 => b = 32767
  BY AxisCut
<1> HIDE DEF a, b
<1>3. -32768 <= a /\ a <= 32767
  BY <1>1 DEF Char
<1>4. -32768 <= b /\ b <= 32767
  BY <1>2 DEF Char
<1>5. p <= q => a <= b
  BY <1>1, <1>2, <1>3, <1>4 DEF Char
<1>6. (a = 0 <=> p = 0) /\ (a = 32767 <=> p >= 100) /\ (a = -32768 <=> p <= -100)
  BY <1>1 DEF Char
<1> QED
  BY <1>1, <1>3, <1>5, <1>6 DEF a, b

\* A trigger is at rest for 0 and less, and fully pressed only for 100 and more.
LEMMA TriggerPercent ==
  ASSUME NEW p \in Char, NEW q \in Char
  PROVE  /\ XinputTriggerPercent(p) \in 0 .. 255
         /\ p <= q => XinputTriggerPercent(p) <= XinputTriggerPercent(q)
         /\ XinputTriggerPercent(p) = 255 <=> p >= 100
         /\ XinputTriggerPercent(p) = 0 <=> p <= 0
<1> DEFINE a == XinputTriggerPercent(p)
           b == XinputTriggerPercent(q)
<1>1. /\ a \in Int
      /\ p < 0 => a = 0
      /\ 0 <= p /\ p <= 100 => 100 * a <= 255 * p /\ 100 * a > 255 * p - 100
      /\ p > 100 => a = 255
  BY TriggerCut
<1>2. /\ b \in Int
      /\ q < 0 => b = 0
      /\ 0 <= q /\ q <= 100 => 100 * b <= 255 * q /\ 100 * b > 255 * q - 100
      /\ q > 100 => b = 255
  BY TriggerCut
<1> HIDE DEF a, b
<1>3. a \in 0 .. 255 /\ b \in 0 .. 255
  BY <1>1, <1>2 DEF Char
<1>4. p <= q => a <= b
  BY <1>1, <1>2, <1>3 DEF Char
<1>5. (a = 255 <=> p >= 100) /\ (a = 0 <=> p <= 0)
  BY <1>1 DEF Char
<1> QED
  BY <1>3, <1>4, <1>5 DEF a, b

LEMMA PercentInt ==
  ASSUME NEW p \in Char
  PROVE  p \in Int /\ XinputAxisPercent(p) \in Int /\ XinputTriggerPercent(p) \in Int
<1>1. p \in Int
  BY DEF Char
<1>2. XinputAxisPercent(p) \in Int
  BY AxisPercent
<1>3. XinputTriggerPercent(p) \in Int
  BY TriggerCut
<1> QED
  BY <1>1, <1>2, <1>3

LEMMA TwoBytes ==
  ASSUME NEW value \in Int
  PROVE  \E lo \in 0 .. 255, hi \in Int :
           value = lo + 256 * hi /\ value % 256 = lo /\ value \div 256 = hi
OBVIOUS

LEMMA HighByte ==
  ASSUME NEW hi \in -128 .. 255
  PROVE  hi % 256 = IF hi < 0 THEN hi + 256 ELSE hi
OBVIOUS

\* What the host reads of two chars.
LEMMA PairRead ==
  ASSUME NEW index \in {2, 6, 8, 10, 12}, NEW value \in Int,
         -32768 <= value, value <= 65535, Holds(index, value)
  PROVE  /\ 0 <= value => Unsigned(index) = value
         /\ value <= 32767 => Signed(index) = value
         /\ value = 0 <=> report[index] = 0 /\ report[index + 1] = 0
<1>1. PICK lo \in 0 .. 255, hi \in Int :
        value = lo + 256 * hi /\ value % 256 = lo /\ value \div 256 = hi
  BY TwoBytes
<1>2. hi \in -128 .. 255
  BY <1>1
<1>3. report[index] = lo /\ report[index + 1] = IF hi < 0 THEN hi + 256 ELSE hi
  BY <1>1, <1>2, HighByte DEF Holds
<1>4. 0 <= value <=> 0 <= hi
  BY <1>1
<1>5. value <= 32767 => hi <= 127
  BY <1>1
<1> QED
  BY <1>1, <1>2, <1>3, <1>4, <1>5 DEF Unsigned, Signed

-----------------------------------------------------------------------------
(* The setters *)

LEMMA PairWritten ==
  ASSUME ReportInv, NEW value \in Int, Write(Pair(2, value))
  PROVE  /\ report' \in [0 .. 19 -> Int]
         /\ Holds(2, value)'
         /\ \A i \in 0 .. 19 : i # 2 /\ i # 3 => report'[i] = report[i]
<1>1. /\ DOMAIN Pair(2, value) = {2, 3}
      /\ Pair(2, value)[2] = value % 256 /\ Pair(2, value)[3] = (value \div 256) % 256
  BY DEF Pair
<1>2. value % 256 \in Int /\ (value \div 256) % 256 \in Int
  OBVIOUS
<1> QED
  BY <1>1, <1>2 DEF Write, Holds, ReportInv

LEMMA JoystickWritten ==
  ASSUME ReportInv, NEW index \in {6, 10}, NEW x \in Int, NEW y \in Int,
         Write(Joystick(index, x, y))
  PROVE  /\ report' \in [0 .. 19 -> Int]
         /\ report'[index] = x % 256 /\ report'[index + 1] = (x \div 256) % 256
         /\ report'[index + 2] = y % 256 /\ report'[index + 3] = (y \div 256) % 256
         /\ \A i \in 0 .. 19 : i < index \/ i > index + 3 => report'[i] = report[i]
<1>1. /\ DOMAIN Joystick(index, x, y) = index .. index + 3
      /\ Joystick(index, x, y)[index] = x % 256
      /\ Joystick(index, x, y)[index + 1] = (x \div 256) % 256
      /\ Joystick(index, x, y)[index + 2] = y % 256
      /\ Joystick(index, x, y)[index + 3] = (y \div 256) % 256
  BY DEF Joystick, Pair
<1>2. /\ x % 256 \in Int /\ (x \div 256) % 256 \in Int
      /\ y % 256 \in Int /\ (y \div 256) % 256 \in Int
  OBVIOUS
<1>3. \A i \in index .. index + 3 : Joystick(index, x, y)[i] \in Int
  BY <1>1, <1>2
<1> DEFINE bytes == Joystick(index, x, y)
<1> HIDE DEF bytes
<1>4. report' = [i \in 0 .. 19 |-> IF i \in index .. index + 3 THEN bytes[i] ELSE report[i]]
  BY <1>1 DEF bytes, Write
<1>5. \A i \in 0 .. 19 : report[i] \in Int
  BY DEF ReportInv
<1>6. \A i \in index .. index + 3 : bytes[i] \in Int
  BY <1>3 DEF bytes
<1>7. \A i \in 0 .. 19 : (IF i \in index .. index + 3 THEN bytes[i] ELSE report[i]) \in Int
  BY <1>5, <1>6
<1>8. report' \in [0 .. 19 -> Int]
  BY <1>4, <1>7
<1>9. /\ index \in 0 .. 19 /\ index + 1 \in 0 .. 19
      /\ index + 2 \in 0 .. 19 /\ index + 3 \in 0 .. 19
      /\ index \in index .. index + 3 /\ index + 1 \in index .. index + 3
      /\ index + 2 \in index .. index + 3 /\ index + 3 \in index .. index + 3
  OBVIOUS
<1>10. /\ report'[index] = bytes[index] /\ report'[index + 1] = bytes[index + 1]
       /\ report'[index + 2] = bytes[index + 2] /\ report'[index + 3] = bytes[index + 3]
  BY <1>4, <1>9
<1>11. \A i \in 0 .. 19 : i < index \/ i > index + 3 => report'[i] = report[i]
  BY <1>4
<1> QED
  BY <1>1, <1>8, <1>10, <1>11 DEF bytes

LEMMA FieldNames ==
  /\ Fields = {"leftX", "leftY", "rightX", "rightY", "leftTrigger", "rightTrigger", "buttons"}
  /\ Axes \cup Triggers = Fields \ {"buttons"}
BY DEF Fields, Axes, Triggers

\* The rest of a report of which only triggers changed.
LEMMA TriggerKept ==
  ASSUME ReportInv, asked # <<>>, asked' \in [Fields -> Int],
         \A f \in Fields : f \notin Triggers => asked'[f] = asked[f],
         \A f \in Triggers : asked'[f] \in Char, report' \in [0 .. 19 -> Int],
         \A i \in 0 .. 19 : i # 4 /\ i # 5 => report'[i] = report[i],
         report'[4] = XinputTriggerPercent(asked'.leftTrigger),
         report'[5] = XinputTriggerPercent(asked'.rightTrigger)
  PROVE  ReportInv'
<1>1. asked \in [Fields -> Int] /\ \A f \in Axes \cup Triggers : asked[f] \in Char
  BY DEF ReportInv, Encoded
<1>2. \A f \in Axes \cup Triggers : asked'[f] \in Char
  BY <1>1, FieldNames
<1>3. /\ asked'.buttons = asked.buttons
      /\ asked'.leftX = asked.leftX /\ asked'.leftY = asked.leftY
      /\ asked'.rightX = asked.rightX /\ asked'.rightY = asked.rightY
  BY FieldNames DEF Triggers
<1>4. /\ \A i \in 14 .. 19 : report'[i] = 0
      /\ report'[0] = 0 /\ report'[1] = 20
      /\ asked'.buttons \in Word
  BY <1>3 DEF ReportInv, Encoded
<1>5. /\ Holds(2, asked.buttons)'
      /\ Holds(6, XinputAxisPercent(asked.leftX))' /\ Holds(8, XinputAxisPercent(asked.leftY))'
      /\ Holds(10, XinputAxisPercent(asked.rightX))'
      /\ Holds(12, XinputAxisPercent(asked.rightY))'
  BY <1>3 DEF ReportInv, Encoded, Holds
<1> QED
  BY <1>2, <1>4, <1>5 DEF ReportInv, Encoded

LEMMA ReportInvStep == ReportInv /\ [Next]_vars => ReportInv'
<1> SUFFICES ASSUME ReportInv, [Next]_vars
             PROVE  ReportInv'
  OBVIOUS
<1>1. CASE XinputReportInit
  <2>1. /\ report' \in [0 .. 19 -> Int] /\ report'[1] = 20
        /\ \A i \in 0 .. 19 : i # 1 => report'[i] = 0
    BY <1>1 DEF XinputReportInit, Fresh
  <2>2. asked' \in [Fields -> Int] /\ \A f \in Fields : asked'[f] = 0
    BY <1>1 DEF XinputReportInit, Nothing, Fields
  <2>3. /\ 0 % 256 = 0 /\ (0 \div 256) % 256 = 0
        /\ XinputTriggerPercent(0) = 0 /\ XinputAxisPercent(0) = 0
    <3>1. 0 \in Char
      BY DEF Char
    <3> QED
      BY <3>1, AxisPercent, TriggerPercent
  <2>4. /\ asked'.buttons = 0 /\ asked'.leftTrigger = 0 /\ asked'.rightTrigger = 0
        /\ asked'.leftX = 0 /\ asked'.leftY = 0 /\ asked'.rightX = 0 /\ asked'.rightY = 0
    BY <2>2, FieldNames
  <2>5. 0 \in Word /\ \A f \in Axes \cup Triggers : asked'[f] \in Char
    BY <2>2, FieldNames DEF Word, Char
  <2>6. /\ \A i \in 14 .. 19 : report'[i] = 0
        /\ report'[0] = 0 /\ report'[4] = 0 /\ report'[5] = 0
    BY <2>1
  <2>7. /\ Holds(2, asked.buttons)'
        /\ Holds(6, XinputAxisPercent(asked.leftX))' /\ Holds(8, XinputAxisPercent(asked.leftY))'
        /\ Holds(10, XinputAxisPercent(asked.rightX))'
        /\ Holds(12, XinputAxisPercent(asked.rightY))'
    BY <2>1, <2>3, <2>4 DEF Holds
  <2> QED
    BY <2>1, <2>2, <2>3, <2>4, <2>5, <2>6, <2>7 DEF ReportInv, Encoded
<1>2. ASSUME asked # <<>>, NEW b \in Buttons, XinputReportSetButtons(b)
      PROVE  ReportInv'
  <2>1. b \in Word /\ b \in Int
    BY ArgumentAssumption DEF Word
  <2>2. /\ report' \in [0 .. 19 -> Int]
        /\ Holds(2, b)'
        /\ \A i \in 0 .. 19 : i # 2 /\ i # 3 => report'[i] = report[i]
    BY <1>2, <2>1, PairWritten DEF XinputReportSetButtons
  <2>3. asked' = [asked EXCEPT !.buttons = b] /\ asked \in [Fields -> Int]
    BY <1>2 DEF XinputReportSetButtons, ReportInv, Encoded
  <2>4. /\ asked' \in [Fields -> Int] /\ asked'.buttons = b
        /\ \A f \in Axes \cup Triggers : asked'[f] = asked[f]
    BY <2>1, <2>3, FieldNames
  <2>5. \A f \in Axes \cup Triggers : asked'[f] \in Char
    BY <1>2, <2>4 DEF ReportInv, Encoded
  <2>6. /\ asked'.leftTrigger = asked.leftTrigger /\ asked'.rightTrigger = asked.rightTrigger
        /\ asked'.leftX = asked.leftX /\ asked'.leftY = asked.leftY
        /\ asked'.rightX = asked.rightX /\ asked'.rightY = asked.rightY
    BY <2>4, FieldNames
  <2>7. /\ \A i \in 14 .. 19 : report'[i] = 0
        /\ report'[0] = 0 /\ report'[1] = 20
        /\ report'[4] = XinputTriggerPercent(asked'.leftTrigger)
        /\ report'[5] = XinputTriggerPercent(asked'.rightTrigger)
    BY <1>2, <2>2, <2>6 DEF ReportInv, Encoded
  <2>8. /\ Holds(6, XinputAxisPercent(asked.leftX))' /\ Holds(8, XinputAxisPercent(asked.leftY))'
        /\ Holds(10, XinputAxisPercent(asked.rightX))'
        /\ Holds(12, XinputAxisPercent(asked.rightY))'
    BY <1>2, <2>2, <2>6 DEF ReportInv, Encoded, Holds
  <2>9. Holds(2, asked.buttons)'
    BY <2>2, <2>4 DEF Holds
  <2> QED
    BY <2>1, <2>2, <2>4, <2>5, <2>7, <2>8, <2>9 DEF ReportInv, Encoded
<1>3. ASSUME asked # <<>>, NEW p \in Percents,
             XinputReportSetTriggerLeft(p) \/ XinputReportSetTriggerRight(p)
      PROVE  ReportInv'
  <2>1. p \in Char /\ p \in Int /\ XinputTriggerPercent(p) \in Int
    BY ArgumentAssumption, PercentInt
  <2>2. CASE XinputReportSetTriggerLeft(p)
    <3>1. asked' = [asked EXCEPT !.leftTrigger = p] /\ asked \in [Fields -> Int]
      BY <1>3, <2>2 DEF XinputReportSetTriggerLeft, ReportInv, Encoded
    <3>2. /\ report' \in [0 .. 19 -> Int] /\ report'[4] = XinputTriggerPercent(p)
          /\ \A i \in 0 .. 19 : i # 4 => report'[i] = report[i]
      BY <2>1, <2>2 DEF XinputReportSetTriggerLeft, Write, ReportInv
    <3>3. asked'.leftTrigger = p /\ asked'.rightTrigger = asked.rightTrigger
      BY <3>1, FieldNames
    <3>4. asked' \in [Fields -> Int] /\ \A f \in Fields : f \notin Triggers => asked'[f] = asked[f]
      BY <2>1, <3>1, FieldNames DEF Triggers
    <3>5. \A f \in Triggers : asked'[f] \in Char
      <4>1. asked.rightTrigger \in Char
        BY <1>3 DEF ReportInv, Encoded, Triggers
      <4> QED
        BY <2>1, <3>3, <4>1 DEF Triggers
    <3>6. /\ report'[4] = XinputTriggerPercent(asked'.leftTrigger)
          /\ report'[5] = XinputTriggerPercent(asked'.rightTrigger)
      BY <1>3, <3>2, <3>3 DEF ReportInv, Encoded
    <3> QED
      BY <1>3, <3>2, <3>4, <3>5, <3>6, TriggerKept
  <2>3. CASE XinputReportSetTriggerRight(p)
    <3>1. asked' = [asked EXCEPT !.rightTrigger = p] /\ asked \in [Fields -> Int]
      BY <1>3, <2>3 DEF XinputReportSetTriggerRight, ReportInv, Encoded
    <3>2. /\ report' \in [0 .. 19 -> Int] /\ report'[5] = XinputTriggerPercent(p)
          /\ \A i \in 0 .. 19 : i # 5 => report'[i] = report[i]
      BY <2>1, <2>3 DEF XinputReportSetTriggerRight, Write, ReportInv
    <3>3. asked'.rightTrigger = p /\ asked'.leftTrigger = asked.leftTrigger
      BY <3>1, FieldNames
    <3>4. asked' \in [Fields -> Int] /\ \A f \in Fields : f \notin Triggers => asked'[f] = asked[f]
      BY <2>1, <3>1, FieldNames DEF Triggers
    <3>5. \A f \in Triggers : asked'[f] \in Char
      <4>1. asked.leftTrigger \in Char
        BY <1>3 DEF ReportInv, Encoded, Triggers
      <4> QED
        BY <2>1, <3>3, <4>1 DEF Triggers
    <3>6. /\ report'[4] = XinputTriggerPercent(asked'.leftTrigger)
          /\ report'[5] = XinputTriggerPercent(asked'.rightTrigger)
      BY <1>3, <3>2, <3>3 DEF ReportInv, Encoded
    <3> QED
      BY <1>3, <3>2, <3>4, <3>5, <3>6, TriggerKept
  <2> QED
    BY <1>3, <2>2, <2>3
<1>4. ASSUME asked # <<>>, NEW x \in AxisPercents, NEW y \in Percents,
             XinputReportSetJoystickLeft(x, y)
      PROVE  ReportInv'
  <2>1. /\ x \in Char /\ y \in Char /\ x \in Int /\ y \in Int
        /\ XinputAxisPercent(x) \in Int /\ XinputAxisPercent(y) \in Int
    BY ArgumentAssumption, PercentInt
  <2>2. /\ report' \in [0 .. 19 -> Int]
        /\ Holds(6, XinputAxisPercent(x))' /\ Holds(8, XinputAxisPercent(y))'
        /\ \A i \in 0 .. 19 : i < 6 \/ i > 9 => report'[i] = report[i]
    BY <1>4, <2>1, JoystickWritten DEF XinputReportSetJoystickLeft, Holds
  <2>3. asked' = [asked EXCEPT !.leftX = x, !.leftY = y] /\ asked \in [Fields -> Int]
    BY <1>4 DEF XinputReportSetJoystickLeft, ReportInv, Encoded
  <2>4. /\ asked' \in [Fields -> Int] /\ asked'.leftX = x /\ asked'.leftY = y
        /\ \A f \in Fields : f # "leftX" /\ f # "leftY" => asked'[f] = asked[f]
    BY <2>1, <2>3, FieldNames
  <2>5. \A f \in Axes \cup Triggers : asked'[f] \in Char
    <3>1. \A f \in Axes \cup Triggers : asked[f] \in Char
      BY <1>4 DEF ReportInv, Encoded
    <3> QED
      BY <2>1, <2>4, <3>1, FieldNames
  <2>6. /\ asked'.buttons = asked.buttons /\ asked'.rightX = asked.rightX /\ asked'.rightY = asked.rightY
        /\ asked'.leftTrigger = asked.leftTrigger /\ asked'.rightTrigger = asked.rightTrigger
    BY <2>4, FieldNames
  <2>7. /\ \A i \in 14 .. 19 : report'[i] = 0
        /\ report'[0] = 0 /\ report'[1] = 20
        /\ report'[4] = XinputTriggerPercent(asked'.leftTrigger)
        /\ report'[5] = XinputTriggerPercent(asked'.rightTrigger)
        /\ asked'.buttons \in Word
    BY <1>4, <2>2, <2>6 DEF ReportInv, Encoded
  <2>8. /\ Holds(2, asked.buttons)'
        /\ Holds(10, XinputAxisPercent(asked.rightX))'
        /\ Holds(12, XinputAxisPercent(asked.rightY))'
    BY <1>4, <2>2, <2>6 DEF ReportInv, Encoded, Holds
  <2>9. /\ Holds(6, XinputAxisPercent(asked.leftX))'
        /\ Holds(8, XinputAxisPercent(asked.leftY))'
    BY <2>2, <2>4 DEF Holds
  <2> QED
    BY <2>2, <2>4, <2>5, <2>7, <2>8, <2>9 DEF ReportInv, Encoded
<1>5. ASSUME asked # <<>>, NEW x \in Percents, NEW y \in Percents,
             XinputReportSetJoystickRight(x, y)
      PROVE  ReportInv'
  <2>1. /\ x \in Char /\ y \in Char /\ x \in Int /\ y \in Int
        /\ XinputAxisPercent(x) \in Int /\ XinputAxisPercent(y) \in Int
    BY ArgumentAssumption, PercentInt
  <2>2. /\ report' \in [0 .. 19 -> Int]
        /\ Holds(10, XinputAxisPercent(x))' /\ Holds(12, XinputAxisPercent(y))'
        /\ \A i \in 0 .. 19 : i < 10 \/ i > 13 => report'[i] = report[i]
    BY <1>5, <2>1, JoystickWritten DEF XinputReportSetJoystickRight, Holds
  <2>3. asked' = [asked EXCEPT !.rightX = x, !.rightY = y] /\ asked \in [Fields -> Int]
    BY <1>5 DEF XinputReportSetJoystickRight, ReportInv, Encoded
  <2>4. /\ asked' \in [Fields -> Int] /\ asked'.rightX = x /\ asked'.rightY = y
        /\ \A f \in Fields : f # "rightX" /\ f # "rightY" => asked'[f] = asked[f]
    BY <2>1, <2>3, FieldNames
  <2>5. \A f \in Axes \cup Triggers : asked'[f] \in Char
    <3>1. \A f \in Axes \cup Triggers : asked[f] \in Char
      BY <1>5 DEF ReportInv, Encoded
    <3> QED
      BY <2>1, <2>4, <3>1, FieldNames
  <2>6. /\ asked'.buttons = asked.buttons /\ asked'.leftX = asked.leftX /\ asked'.leftY = asked.leftY
        /\ asked'.leftTrigger = asked.leftTrigger /\ asked'.rightTrigger = asked.rightTrigger
    BY <2>4, FieldNames
  <2>7. /\ \A i \in 14 .. 19 : report'[i] = 0
        /\ report'[0] = 0 /\ report'[1] = 20
        /\ report'[4] = XinputTriggerPercent(asked'.leftTrigger)
        /\ report'[5] = XinputTriggerPercent(asked'.rightTrigger)
        /\ asked'.buttons \in Word
    BY <1>5, <2>2, <2>6 DEF ReportInv, Encoded
  <2>8. /\ Holds(2, asked.buttons)'
        /\ Holds(6, XinputAxisPercent(asked.leftX))'
        /\ Holds(8, XinputAxisPercent(asked.leftY))'
    BY <1>5, <2>2, <2>6 DEF ReportInv, Encoded, Holds
  <2>9. /\ Holds(10, XinputAxisPercent(asked.rightX))'
        /\ Holds(12, XinputAxisPercent(asked.rightY))'
    BY <2>2, <2>4 DEF Holds
  <2> QED
    BY <2>2, <2>4, <2>5, <2>7, <2>8, <2>9 DEF ReportInv, Encoded
<1>6. CASE UNCHANGED vars
  BY <1>6 DEF vars, ReportInv, Encoded, Holds
<1> QED
  BY <1>1, <1>2, <1>3, <1>4, <1>5, <1>6 DEF Next

-----------------------------------------------------------------------------
(* What the host reads *)

LEMMA ShownAxes ==
  ASSUME ReportInv, asked # <<>>
  PROVE  /\ \A a \in Axes : Shown[a] = XinputAxisPercent(asked[a])
         /\ Unsigned(2) = asked.buttons
         /\ asked.leftX = 0 <=> report[6] = 0 /\ report[7] = 0
         /\ asked.leftY = 0 <=> report[8] = 0 /\ report[9] = 0
         /\ asked.rightX = 0 <=> report[10] = 0 /\ report[11] = 0
         /\ asked.rightY = 0 <=> report[12] = 0 /\ report[13] = 0
         /\ asked.buttons = 0 <=> report[2] = 0 /\ report[3] = 0
<1>1. /\ asked.buttons \in Int /\ 0 <= asked.buttons /\ asked.buttons <= 65535
      /\ asked.leftX \in Char /\ asked.leftY \in Char
      /\ asked.rightX \in Char /\ asked.rightY \in Char
      /\ Holds(2, asked.buttons)
      /\ Holds(6, XinputAxisPercent(asked.leftX)) /\ Holds(8, XinputAxisPercent(asked.leftY))
      /\ Holds(10, XinputAxisPercent(asked.rightX)) /\ Holds(12, XinputAxisPercent(asked.rightY))
  <2>1. asked.buttons \in Word
    BY DEF ReportInv, Encoded
  <2>2. \A f \in Axes \cup Triggers : asked[f] \in Char
    BY DEF ReportInv, Encoded
  <2>3. /\ Holds(2, asked.buttons)
        /\ Holds(6, XinputAxisPercent(asked.leftX)) /\ Holds(8, XinputAxisPercent(asked.leftY))
        /\ Holds(10, XinputAxisPercent(asked.rightX))
        /\ Holds(12, XinputAxisPercent(asked.rightY))
    BY DEF ReportInv, Encoded
  <2>4. "leftX" \in Axes /\ "leftY" \in Axes /\ "rightX" \in Axes /\ "rightY" \in Axes
    BY DEF Axes
  <2>5. asked.buttons \in Int /\ 0 <= asked.buttons /\ asked.buttons <= 65535
    BY <2>1 DEF Word
  <2> QED
    BY <2>2, <2>3, <2>4, <2>5
<1>2. ASSUME NEW p \in Char, NEW index \in {6, 8, 10, 12}, Holds(index, XinputAxisPercent(p))
      PROVE  /\ Signed(index) = XinputAxisPercent(p)
             /\ p = 0 <=> report[index] = 0 /\ report[index + 1] = 0
  <2> DEFINE v == XinputAxisPercent(p)
  <2>1. v \in Int /\ -32768 <= v /\ v <= 32767 /\ (v = 0 <=> p = 0)
    BY AxisPercent
  <2>2. Holds(index, v)
    BY <1>2
  <2> HIDE DEF v
  <2>3. v <= 65535
    BY <2>1
  <2>4. Signed(index) = v /\ (v = 0 <=> report[index] = 0 /\ report[index + 1] = 0)
    BY <2>1, <2>2, <2>3, PairRead
  <2> QED
    BY <2>1, <2>4 DEF v
<1>3. Unsigned(2) = asked.buttons /\ (asked.buttons = 0 <=> report[2] = 0 /\ report[3] = 0)
  <2>1. -32768 <= asked.buttons
    BY <1>1
  <2> QED
    BY <1>1, <2>1, PairRead
<1>4. /\ Signed(6) = XinputAxisPercent(asked.leftX)
      /\ asked.leftX = 0 <=> report[6] = 0 /\ report[7] = 0
  BY <1>1, <1>2
<1>5. /\ Signed(8) = XinputAxisPercent(asked.leftY)
      /\ asked.leftY = 0 <=> report[8] = 0 /\ report[9] = 0
  BY <1>1, <1>2
<1>6. /\ Signed(10) = XinputAxisPercent(asked.rightX)
      /\ asked.rightX = 0 <=> report[10] = 0 /\ report[11] = 0
  BY <1>1, <1>2
<1>7. /\ Signed(12) = XinputAxisPercent(asked.rightY)
      /\ asked.rightY = 0 <=> report[12] = 0 /\ report[13] = 0
  BY <1>1, <1>2
<1>8. \A a \in Axes : Shown[a] = XinputAxisPercent(asked[a])
  BY <1>4, <1>5, <1>6, <1>7 DEF Axes, Shown
<1> QED
  BY <1>3, <1>4, <1>5, <1>6, <1>7, <1>8

LEMMA ReportInvRight == ReportInv => ReportRight
<1> SUFFICES ASSUME ReportInv, asked # <<>>
             PROVE  ReportRight
  BY DEF ReportRight
<1>1. /\ report[0] = 0 /\ report[1] = 20 /\ \A i \in 14 .. 19 : report[i] = 0
      /\ report[4] = XinputTriggerPercent(asked.leftTrigger)
      /\ report[5] = XinputTriggerPercent(asked.rightTrigger)
      /\ asked.leftTrigger \in Char /\ asked.rightTrigger \in Char
      /\ \A a \in Axes : asked[a] \in Char
      /\ DOMAIN asked = Fields
  <2>1. /\ report[0] = 0 /\ report[1] = 20 /\ \A i \in 14 .. 19 : report[i] = 0
        /\ report[4] = XinputTriggerPercent(asked.leftTrigger)
        /\ report[5] = XinputTriggerPercent(asked.rightTrigger)
        /\ \A f \in Axes \cup Triggers : asked[f] \in Char
        /\ DOMAIN asked = Fields
    BY DEF ReportInv, Encoded
  <2>2. "leftTrigger" \in Triggers /\ "rightTrigger" \in Triggers
    BY DEF Triggers
  <2> QED
    BY <2>1, <2>2
<1>2. \A a, b \in Axes : asked[a] <= asked[b] => Shown[a] <= Shown[b]
  BY <1>1, ShownAxes, AxisPercent
<1>3. \A a \in Axes :
        /\ Shown[a] = 0 <=> asked[a] = 0
        /\ Shown[a] = 32767 <=> asked[a] >= 100
        /\ Shown[a] = -32768 <=> asked[a] <= -100
  BY <1>1, ShownAxes, AxisPercent
<1>4. /\ asked.leftTrigger <= asked.rightTrigger => report[4] <= report[5]
      /\ asked.leftTrigger >= 100 <=> report[4] = 255
      /\ report[4] = 0 <=> asked.leftTrigger <= 0
      /\ report[5] = 0 <=> asked.rightTrigger <= 0
  BY <1>1, TriggerPercent
<1>5. XinputReportBuffersEqual(report, Fresh)
        <=> \A f \in DOMAIN asked : asked[f] = 0 \/ (f \in Triggers /\ asked[f] < 0)
  <2> DEFINE Released ==
               /\ asked.buttons = 0 /\ asked.leftTrigger <= 0 /\ asked.rightTrigger <= 0
               /\ asked.leftX = 0 /\ asked.leftY = 0 /\ asked.rightX = 0 /\ asked.rightY = 0
  <2>1. XinputReportBuffersEqual(report, Fresh) <=> \A i \in 2 .. 13 : report[i] = 0
    BY <1>1 DEF XinputReportBuffersEqual, Fresh
  <2>2. (\A i \in 2 .. 13 : report[i] = 0)
          <=> /\ report[2] = 0 /\ report[3] = 0 /\ report[4] = 0 /\ report[5] = 0
              /\ report[6] = 0 /\ report[7] = 0 /\ report[8] = 0 /\ report[9] = 0
              /\ report[10] = 0 /\ report[11] = 0 /\ report[12] = 0 /\ report[13] = 0
    OBVIOUS
  <2>3. /\ asked.leftX = 0 <=> report[6] = 0 /\ report[7] = 0
        /\ asked.leftY = 0 <=> report[8] = 0 /\ report[9] = 0
        /\ asked.rightX = 0 <=> report[10] = 0 /\ report[11] = 0
        /\ asked.rightY = 0 <=> report[12] = 0 /\ report[13] = 0
        /\ asked.buttons = 0 <=> report[2] = 0 /\ report[3] = 0
    BY ShownAxes
  <2>4. (\A i \in 2 .. 13 : report[i] = 0) <=> Released
    BY <1>4, <2>2, <2>3
  <2>5. (\A f \in DOMAIN asked : asked[f] = 0 \/ (f \in Triggers /\ asked[f] < 0)) <=> Released
    <3>1. /\ "leftTrigger" \in Triggers /\ "rightTrigger" \in Triggers
          /\ "leftX" \notin Triggers /\ "leftY" \notin Triggers
          /\ "rightX" \notin Triggers /\ "rightY" \notin Triggers
          /\ "buttons" \notin Triggers
      BY DEF Triggers
    <3>2. DOMAIN asked = Fields
      BY <1>1
    <3>3. /\ (asked.leftTrigger = 0 \/ asked.leftTrigger < 0) <=> asked.leftTrigger <= 0
          /\ (asked.rightTrigger = 0 \/ asked.rightTrigger < 0) <=> asked.rightTrigger <= 0
      <4>1. asked.leftTrigger \in Char /\ asked.rightTrigger \in Char
        BY <1>1
      <4>2. \A n \in Char : (n = 0 \/ n < 0) <=> n <= 0
        BY DEF Char
      <4> QED
        BY ONLY <4>1, <4>2
    <3> DEFINE AtRest(f) == asked[f] = 0 \/ (f \in Triggers /\ asked[f] < 0)
    <3>4. /\ AtRest("leftTrigger") <=> asked.leftTrigger <= 0
          /\ AtRest("rightTrigger") <=> asked.rightTrigger <= 0
      BY <3>1, <3>3
    <3>5. /\ AtRest("leftX") <=> asked.leftX = 0
          /\ AtRest("leftY") <=> asked.leftY = 0
          /\ AtRest("rightX") <=> asked.rightX = 0
          /\ AtRest("rightY") <=> asked.rightY = 0
          /\ AtRest("buttons") <=> asked.buttons = 0
      BY <3>1
    <3> HIDE DEF AtRest
    <3>6. (\A f \in Fields : AtRest(f))
            <=> /\ AtRest("leftTrigger") /\ AtRest("rightTrigger") /\ AtRest("buttons")
                /\ AtRest("leftX") /\ AtRest("leftY") /\ AtRest("rightX") /\ AtRest("rightY")
      BY FieldNames
    <3>7. (\A f \in Fields : AtRest(f)) <=> Released
      BY <3>4, <3>5, <3>6
    <3> HIDE DEF Released
    <3> QED
      BY <3>2, <3>7 DEF AtRest
  <2> HIDE DEF Released
  <2> QED
    BY <2>1, <2>4, <2>5
<1> QED
  BY <1>1, <1>2, <1>3, <1>4, <1>5, ShownAxes DEF ReportRight

\* Whatever the caller gave, in whatever order: the host reads exactly it (ReportRight).
THEOREM WhateverOrder == Spec => []ReportRight
<1>1. Init => ReportInv
  BY DEF Init, ReportInv, Encoded
<1> QED
  BY <1>1, ReportInvStep, ReportInvRight, PTL DEF Spec
=============================================================================
