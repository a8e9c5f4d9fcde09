------------------------------- MODULE MCOscCal ------------------------------
(* Oscillators for the runs of OscCal: register and frequency related as for  *)
(* an ATmega (one range) and an ATtiny85 (two ranges that overlap), from too  *)
(* fast at any value to hardly fast enough at the highest.                    *)
EXTENDS OscCal

OneRange == {[v \in Byte |-> base + 9 * v] : base \in {70, 1500, 2346, 2400}}
TwoRanges ==
  {[v \in Byte |-> base + 9 * v - (IF v > 127 THEN overlap ELSE 0)] :
     base \in {800, 1208, 1213}, overlap \in {9, 300}}

Both == OneRange \cup TwoRanges
=============================================================================
