-------------------------------- MODULE Crc ---------------------------------
(***************************************************************************)
(* The CRC of a data packet: usbCrc16Append (usbdrvasm.S), which appends   *)
(* it in either of its two versions, and the check of a received packet    *)
(* that only the code for 18 MHz has (usbdrvasm18-crc.inc).                *)
(*                                                                         *)
(* A register is the set of its bits that are 1; the bytes of a packet     *)
(* leave with bit 0 first.                                                 *)
(***************************************************************************)
EXTENDS Integers, Sequences

CONSTANTS
  Messages,    \* the data of packets
  Damage       \* sets of bits, counted from the first, that may be inverted: bursts

Byte == SUBSET (0 .. 7)

ASSUME MessagesAssumption == \A m \in Messages : m \in Seq(Byte) /\ Len(m) <= 255
\* Bursts of up to 16 bits: no sum of 16 bits shows every damage that is longer.
ASSUME DamageAssumption ==
  /\ {} \in Damage
  /\ \A d \in Damage : d \subseteq Nat /\ \A first, last \in d : last - first <= 15

VARIABLES
  pc,
  message,                   \* history: what usbCrc16Append was given
  buffer, ptr,               \* the packet, with room for the CRC; the next byte of it
  argLen, bitCnt, carry,
  res,                       \* resCrcH:resCrcL, or x3:ZL of the receiver
  damage                     \* history: bits inverted on the line

vars == <<pc, message, buffer, ptr, argLen, bitCnt, carry, res, damage>>

Xor(a, b) == (a \ b) \cup (b \ a)
Low(r) == r \cap 0 .. 7
High(r) == {i - 8 : i \in r \cap 8 .. 15}
Word(high, low) == {i + 8 : i \in high} \cup low
Lsr(r) == {i - 1 : i \in r \ {0}}
Poly == {0, 13, 15}          \* 0xa001

Init ==
  /\ pc \in {"usbCrc16", "usbCrc16 fast"}
  /\ message \in Messages
  /\ buffer = message \o <<0 .. 7, 0 .. 7>> /\ ptr = 1
  /\ argLen = Len(message) /\ bitCnt = 0 /\ carry = FALSE
  /\ res = {} /\ damage = {}

----------------------------------------------------------------------------
\* The short version.  subi sets the carry when it borrows.
Enter ==
  /\ pc = "usbCrc16" /\ pc' = "usbCrcLoopEntry"
  /\ res' = {} /\ argLen' = 255 - argLen /\ bitCnt' = 0
  /\ UNCHANGED <<message, buffer, ptr, carry, damage>>

LoopEntry ==
  /\ pc = "usbCrcLoopEntry"
  /\ argLen' = (argLen + 1) % 256 /\ carry' = (argLen < 255)
  /\ pc' = IF carry' THEN "usbCrcByteLoop" ELSE "append"
  /\ UNCHANGED <<message, buffer, ptr, bitCnt, res, damage>>

ByteLoop ==
  /\ pc = "usbCrcByteLoop" /\ pc' = "usbCrcBitLoop"
  /\ res' = Xor(res, buffer[ptr]) /\ ptr' = ptr + 1
  /\ UNCHANGED <<message, buffer, argLen, bitCnt, carry, damage>>

\* Mutant: a zero enters, as in the usual shift.
BugShift(r) == Lsr(r)
Shift(r) == Lsr(r) \cup (IF carry THEN {15} ELSE {})

BitLoop ==
  /\ pc = "usbCrcBitLoop"
  /\ res' = IF 0 \in res THEN Shift(res) ELSE Xor(Shift(res), Poly)
  /\ bitCnt' = (bitCnt - 224) % 256 /\ carry' = (bitCnt < 224)
  /\ pc' = IF carry' THEN "usbCrcBitLoop" ELSE "usbCrcLoopEntry"
  /\ UNCHANGED <<message, buffer, ptr, argLen, damage>>

----------------------------------------------------------------------------
\* The fast version takes a byte at a time, without a table.
FastEnter ==
  /\ pc = "usbCrc16 fast" /\ pc' = "usbCrc16LoopTest" /\ res' = 0 .. 15
  /\ UNCHANGED <<message, buffer, ptr, argLen, bitCnt, carry, damage>>

\* The halves of x are added, then quarters; then the two bits that are left.
Parity(x) ==
  LET nibble == Xor(x, {(i + 4) % 8 : i \in x})
      pair   == Xor(nibble, Lsr(Lsr(nibble)))
  IN (0 \in pair) # (1 \in pair)

\* lsr scratch, ror byte: the byte that leaves is shifted right in 16 bits, twice.
FastByte(r, byte) ==
  LET x     == Xor(Low(r), byte)
      once  == Lsr(Word(x, {}))
      twice == Lsr(once)
  IN Xor(Xor(High(r), IF Parity(x) THEN {0, 14, 15} ELSE {}), Xor(once, twice))

FastLoop ==
  /\ pc = "usbCrc16LoopTest"
  /\ argLen' = (argLen - 1) % 256
  /\ IF argLen >= 1
       THEN /\ res' = FastByte(res, buffer[ptr])
            /\ ptr' = ptr + 1 /\ UNCHANGED pc
       ELSE res' = 0 .. 15 \ res /\ pc' = "append" /\ UNCHANGED ptr
  /\ UNCHANGED <<message, buffer, bitCnt, carry, damage>>

----------------------------------------------------------------------------
Append16 ==
  /\ pc = "append" /\ pc' = "sent"
  /\ buffer' = [buffer EXCEPT ![ptr] = Low(res), ![ptr + 1] = High(res)]
  /\ ptr' = ptr + 2
  /\ UNCHANGED <<message, argLen, bitCnt, carry, res, damage>>

----------------------------------------------------------------------------
\* On the line some bits of the packet are inverted.
Travel ==
  /\ pc = "sent" /\ pc' = "received"
  /\ damage' \in {d \in Damage : d \subseteq 0 .. 8 * Len(buffer) - 1}
  /\ buffer' = [n \in DOMAIN buffer |->
                  Xor(buffer[n], {i \in 0 .. 7 : 8 * (n - 1) + i \in damage'})]
  /\ ptr' = 1
  /\ UNCHANGED <<message, argLen, bitCnt, carry, res>>

\* usbCrcTableLow and usbCrcTableHigh at an index: the comment that generates them.
CrcTable(index) ==
  LET crc[n \in 0 .. 8] ==
        IF n = 0 THEN index
        ELSE LET last == crc[n - 1]
             IN IF 0 \in last THEN Xor(Lsr(last), Poly) ELSE Lsr(last)
  IN crc[8]

\* Mutant: the initial value USB prescribes, 0xffff.
BugMagic == 0 .. 15
Magic == Word(1 .. 7, {2, 4, 6})        \* 0xFE54

ReceivePid ==
  /\ pc = "received" /\ pc' = "rxDataStart" /\ res' = Magic
  /\ UNCHANGED <<message, buffer, ptr, argLen, bitCnt, carry, damage>>

\* Bits 5 and 6: the tables replace the sum before this byte.
LookUp(r) == Xor(CrcTable(Low(r)), High(r))

\* Bit 7 completes the byte and adds it to ZL.
ReceiveByte ==
  /\ pc = "rxDataStart" /\ ptr <= Len(buffer)
  /\ res' = Xor(LookUp(res), buffer[ptr]) /\ ptr' = ptr + 1
  /\ UNCHANGED <<pc, message, buffer, argLen, bitCnt, carry, damage>>

CrcCleanupAndCheck ==
  /\ pc = "rxDataStart" /\ ptr > Len(buffer)
  /\ res' = LookUp(res)          \* 0xb001 is what a whole packet leaves
  /\ pc' = IF res' = {0, 12, 13, 15} THEN "accepted" ELSE "ignorePacket"
  /\ UNCHANGED <<message, buffer, ptr, argLen, bitCnt, carry, damage>>

Sender == Enter \/ LoopEntry \/ ByteLoop \/ BitLoop \/ FastEnter \/ FastLoop \/ Append16
Receiver == ReceivePid \/ ReceiveByte \/ CrcCleanupAndCheck
Next == Sender \/ Travel \/ Receiver

Spec == Init /\ [][Next]_vars

----------------------------------------------------------------------------
\* The definition of the USB specification, bit by bit in the order of the line:
\* the first 16 bits of the message with 16 zeros are inverted, and the remainder
\* of its division by x^16 + x^15 + x^2 + 1 is inverted.
Divisor(i) == {i, i + 1, i + 14, i + 16}
Dividend ==
  Xor(0 .. 15, UNION {{8 * (n - 1) + i : i \in message[n]} : n \in DOMAIN message})
Division ==
  LET rest[i \in 0 .. 8 * Len(message)] ==
        IF i = 0 THEN Dividend
        ELSE LET last == rest[i - 1]
             IN IF i - 1 \in last THEN Xor(last, Divisor(i - 1)) ELSE last
  IN rest
Crc16 == LET end == 8 * Len(message) IN 0 .. 15 \ {i - end : i \in Division[end]}

\* usbCrc16Append, with the short or the fast usbCrc16, leaves the message alone and
\* puts its CRC behind it, low byte first, also behind an empty one (usbBuildTxBlock
\* and usbSetInterrupt send what it left).
SumAppended ==
  pc = "sent" => buffer = message \o <<Low(Crc16), High(Crc16)>>

\* The check of a received packet, begun with 0xFE54 because the tables are looked up
\* once more than there are bytes, takes every whole packet and none of those damaged.
OnlyWholeAccepted ==
  /\ pc = "accepted" => damage = {}
  /\ pc = "ignorePacket" => damage # {}
=============================================================================
