----------------------------- MODULE MCAdapter ------------------------------
(* What the player of the runs of Adapter may hold: nothing, one button in  *)
(* each byte, both.                                                         *)
EXTENDS Adapter

TwoButtons == {{}, {0}, {15}, {0, 15}}
=============================================================================
