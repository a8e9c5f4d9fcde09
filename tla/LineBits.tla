------------------------------- MODULE LineBits ------------------------------
(***************************************************************************)
(* The bits of a packet on the two USB lines and the registers the         *)
(* interrupt handler receives and sends them with.  A register is the set  *)
(* of its bit positions that hold a 1; a byte leaves with bit 0 first.     *)
(*                                                                         *)
(* The lines are in state J (idle, D- high), K (D+ high) or SE0.  A 1 is   *)
(* sent by leaving them alone, a 0 by a change, and after six 1s a 0 is    *)
(* inserted.                                                               *)
(***************************************************************************)
EXTENDS Integers

CONSTANTS
  Clocks,      \* the clocks, in units of 100 kHz, whose code is checked
  Pids,        \* first bytes of packets
  Contents     \* the bytes after it

Bit == 0 .. 7
Byte == SUBSET Bit

ASSUME ClocksAssumption == Clocks \subseteq {120, 128, 150, 160, 165, 180, 200}
ASSUME BytesAssumption == Pids \subseteq Byte /\ Contents \subseteq Byte

\* lsr and ror; the run of six 1s in the upper bits, which cpi ..., 0xfc finds.
Lsr(r) == {i - 1 : i \in r \ {0}}
Ror(r, carry) == Lsr(r) \cup (IF carry THEN {7} ELSE {})
Xor(a, b) == (a \ b) \cup (b \ a)
SixOnes(r) == 2 .. 7 \subseteq r

\* The lines, and what the code reads of them: D- alone, or both.
Lines == {"J", "K", "SE0"}
DMinus(s) == s = "J"
Change(s) == IF s = "J" THEN "K" ELSE "J"

\* usbRxBuf has room for PID, 8 bytes of data and 2 of CRC.
USB_BUFSIZE == 11
SyncByte == {7}

\* The rounds the handler waits for J; YL has at least 128 of them, some 58 bits.
SyncRounds == 3

VARIABLES
  clock,       \* the clock of this chip, which decides on the code
  pc,          \* the label reached
  line,        \* the state of the lines
  shift, x3, last, bit, again, cnt,  \* registers; last is the previous sample, again
                                     \* says that a stuffed bit was or is due
  history, ones,                     \* the bits sent last; or the 1s still allowed
  bitcnt,
  said, saidCount,   \* the byte that is on the lines, and which one it is
  got, gotCount      \* the byte that was heard last, and which one it is

rxRegs == <<shift, x3, last, bit, again, bitcnt, cnt>>
txRegs == <<history, ones>>
heard == <<got, gotCount>>
=============================================================================
