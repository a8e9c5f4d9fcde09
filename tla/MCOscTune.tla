------------------------------ MODULE MCOscTune ------------------------------
(* Oscillators for the run of OscTune, in quarters of a tick: steps of 0.2 % *)
(* to 0.9 %, placed so that the target falls anywhere between two values;    *)
(* with one range and, as an ATtiny85, with a second that overlaps it; from  *)
(* 8 to 21 MHz.                                                              *)
EXTENDS OscTune

Line(at, step, drop) ==
  [v \in Byte |->
     LET f == 1028 + at + step * (v - 100) - (IF v > 101 THEN drop ELSE 0)
     IN CASE f < 500 -> 500 [] f > 1312 -> 1312 [] OTHER -> f]
Lines ==
  {Line(at, step, 0) : at \in -3 .. 3, step \in {2, 4, 6, 9}} \cup
  {Line(at, step, drop) : at \in {-3, 0, 3}, step \in {4, 9}, drop \in {20, 40}}
\* 15.0 to 17.8 MHz
NearTarget == 940 .. 1110
=============================================================================
