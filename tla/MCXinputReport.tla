--------------------------- MODULE MCXinputReport ----------------------------
(* The x axis of the left joystick takes the percentages next to every limit.  *)
EXTENDS XinputReport

SomeButtons == {0, 33024}
SomePercents == {-100, 0, 40, 100}
ManyPercents == {-128, 127} \cup -102 .. -98 \cup -2 .. 2 \cup {25, 50, 75} \cup 98 .. 102
=============================================================================
