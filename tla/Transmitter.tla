----------------------------- MODULE Transmitter -----------------------------
(***************************************************************************)
(* usbSendAndReti of usbdrvasm*.inc: one action is one bit on the lines.   *)
(* How the stuffed bit is found: at 12 and 12.8 MHz by counting the 1s     *)
(* that are still allowed, otherwise from the history of the bits sent.    *)
(* How the bits of a byte are counted differs with each clock; Advance is  *)
(* what comes between two bits.                                            *)
(***************************************************************************)
EXTENDS LineBits

\* cpi x2, 0xfc, or x4 counted down to zero: again says that a 0 comes in between.
Counting == clock \in {120, 128}
StuffDue(h, n) == IF Counting THEN n = 0 ELSE SixOnes(h)

\* ld shift, y+; dec cnt: the next byte, or the end of the packet
NextByte(label) ==
  /\ cnt' = cnt - 1
  /\ \/ /\ cnt' # 0
        /\ pc' = label
        /\ shift' \in IF saidCount = 1 THEN Pids ELSE Contents
        /\ said' = shift'
        /\ saidCount' = saidCount + 1
     \/ /\ cnt' = 0
        /\ pc' = "makeSE0"
        /\ shift' = {}
        /\ UNCHANGED <<said, saidCount>>

\* Goes on in the same byte.
SameByte(rest, label) ==
  /\ shift' = rest
  /\ pc' = label
  /\ UNCHANGED <<said, saidCount>>

\* Mutant: the step of the loop counter rounded up.
BugAdvance165(rest) ==
  \/ /\ pc = "bitloop"
     /\ bitcnt' = (bitcnt - 38) % 256
     /\ SameByte(rest, IF bitcnt >= 38 THEN "bitloop" ELSE "bit7")
     /\ UNCHANGED cnt
  \/ pc = "bit7" /\ NextByte("bitloop") /\ UNCHANGED bitcnt

\* subi bitStatus, 37: seven rounds, and almost the same value again for the next byte
Advance165(rest) ==
  \/ /\ pc = "bitloop"
     /\ bitcnt' = (bitcnt - 37) % 256
     /\ SameByte(rest, IF bitcnt >= 37 THEN "bitloop" ELSE "bit7")
     /\ UNCHANGED cnt
  \/ pc = "bit7" /\ NextByte("bitloop") /\ UNCHANGED bitcnt

\* dec bitcnt: six rounds, then bits 6 and 7
Advance150(rest) ==
  \/ /\ pc = "bitloop"
     /\ bitcnt' = bitcnt - 1
     /\ SameByte(rest, IF bitcnt' # 0 THEN "bitloop" ELSE "bit6")
     /\ UNCHANGED cnt
  \/ pc = "bit6" /\ SameByte(rest, "bit7") /\ bitcnt' = 6 /\ UNCHANGED cnt
  \/ pc = "bit7" /\ NextByte("bitloop") /\ UNCHANGED bitcnt

\* lsr bitcnt; brcc; brne: until a 1 leaves and nothing is left.  0x35 is six
\* rounds at 16 MHz, 0x49 seven at 20 MHz, as is 0x40 at 18 MHz.
Advance160(rest) ==
  \/ /\ pc = "bitloop"
     /\ bitcnt' = bitcnt \div 2
     /\ SameByte(rest, IF bitcnt' # 0 THEN "bitloop" ELSE "bit6")
     /\ UNCHANGED cnt
  \/ pc = "bit6" /\ SameByte(rest, "bit7") /\ UNCHANGED <<bitcnt, cnt>>
  \/ pc = "bit7" /\ NextByte("bitloop") /\ bitcnt' = 53

SevenRounds == IF clock = 200 THEN 73 ELSE 64
Advance200(rest) ==
  \/ /\ pc = "bitloop"
     /\ bitcnt' = bitcnt \div 2
     /\ SameByte(rest, IF bitcnt' # 0 THEN "bitloop" ELSE "bit7")
     /\ UNCHANGED cnt
  \/ pc = "bit7" /\ NextByte("bitloop") /\ bitcnt' = SevenRounds

\* Pairs of bits; subi cnt, 171 three times counts the byte as well, as
\* 3 * 171 is 1 modulo 256.  The next byte is loaded before cnt is tested.
Advance120(rest) ==
  \/ pc = "bitloop" /\ SameByte(rest, "stuffN2Delay") /\ UNCHANGED cnt
  \/ /\ pc = "stuffN2Delay"
     /\ cnt' = (cnt - 171) % 256
     /\ SameByte(rest, IF cnt < 171 THEN "bitloop" ELSE "bit6")
  \/ pc = "bit6" /\ SameByte(rest, "bit7") /\ UNCHANGED cnt
  \/ /\ pc = "bit7"
     /\ UNCHANGED cnt
     /\ \/ /\ cnt # 0
           /\ pc' = "bitloop"
           /\ shift' \in IF saidCount = 1 THEN Pids ELSE Contents
           /\ said' = shift'
           /\ saidCount' = saidCount + 1
        \/ /\ cnt = 0
           /\ pc' = "makeSE0"
           /\ shift' = {}
           /\ UNCHANGED <<said, saidCount>>

Advance(rest) ==
  \/ clock = 165 /\ Advance165(rest)
  \/ clock = 150 /\ Advance150(rest)
  \/ clock = 160 /\ Advance160(rest)
  \/ clock \in {180, 200} /\ Advance200(rest)
  \/ Counting /\ Advance120(rest) /\ UNCHANGED bitcnt
-----------------------------------------------------------------------------
\* usbSendAndReti, entered with the number of bytes from the sync byte on.  The
\* history is what x2 happens to hold, but at 18 MHz; the sync byte begins with a 0.
usbSendAndReti(bytes) ==
  /\ pc' = "bitloop"
  /\ cnt' = bytes
  /\ shift' = SyncByte
  /\ said' = SyncByte
  /\ saidCount' = 1
  /\ history' \in {Bit, {}} /\ (clock = 180 => history' = {})
  /\ ones' = 6
  /\ again' = FALSE
  /\ bitcnt' = CASE Counting -> 0 [] clock = 150 -> 6 [] clock = 160 -> 53
                  [] clock = 165 -> 255 [] clock \in {180, 200} -> SevenRounds
  /\ line' = "J"

TxLabels == {"bitloop", "stuffN2Delay", "bit6", "bit7"}

SendBit ==
  /\ pc \in TxLabels /\ ~again
  /\ line' = IF 0 \in shift THEN line ELSE Change(line)
  /\ IF Counting
     THEN ones' = (IF 0 \in shift THEN ones - 1 ELSE 6) /\ UNCHANGED history
     ELSE history' = Ror(history, 0 \in shift) /\ UNCHANGED ones
  /\ again' = StuffDue(history', ones')
  /\ IF again'
     THEN shift' = Lsr(shift) /\ UNCHANGED <<pc, bitcnt, cnt, said, saidCount>>
     ELSE Advance(Lsr(shift))

SendStuffed ==
  /\ pc \in TxLabels /\ again
  /\ again' = FALSE
  /\ line' = Change(line)
  /\ history' = {}
  /\ ones' = 6
  /\ Advance(shift)

\* Two bits of SE0, then J; the bus is released.
EndPacket ==
  /\ \/ pc = "makeSE0" /\ line' = "SE0" /\ pc' = "se0Delay"
     \/ pc = "se0Delay" /\ line' = "SE0" /\ pc' = "releaseBus"
     \/ pc = "releaseBus" /\ line' = "J" /\ pc' = "doReturn"
  /\ UNCHANGED <<shift, again, bitcnt, cnt, txRegs, said, saidCount>>

Transmit == SendBit \/ SendStuffed \/ EndPacket
=============================================================================
