-------------------------------- MODULE MCCrc --------------------------------
(* Every message of at most one byte, and of two of a few bytes; up to a full *)
(* packet, one byte repeated and then another.  Damage: bursts of up to 16    *)
(* bits, from the first byte to the CRC.                                      *)
EXTENDS Crc

Bytes == {{}, 0 .. 7, {0}, {7}, {0, 2, 5, 7}}
AllMessages ==
  [1 .. 0 -> Byte] \cup [1 .. 1 -> Byte] \cup [1 .. 2 -> Bytes] \cup
  {[n \in 1 .. k |-> IF n < i THEN a ELSE b] : k \in {3, 8}, i \in 1 .. 8, a, b \in Bytes}

AllDamage ==
  {{}} \cup {{at} \cup {at + i : i \in burst} :
               at \in {0, 5, 11, 57, 64}, burst \in SUBSET {1, 8, 15} \cup {1 .. 15}}
=============================================================================
