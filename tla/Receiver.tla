------------------------------- MODULE Receiver ------------------------------
(***************************************************************************)
(* The receive loops of usbdrvasm*.inc.  One action is one bit time: the   *)
(* sample s that the code reads in it and what is done with it.  Where a   *)
(* loop samples a bit before it has looked whether the run before it was   *)
(* of six 1s, the action takes that look first.                            *)
(*                                                                         *)
(* There are three kinds of loop.  At 12, 12.8, 15, 16.5 and 18 MHz it is  *)
(* unrolled: shift holds a 1 where the lines changed, at the place of the  *)
(* bit; when six bits are 0 the next sample is a stuffed bit, and the last *)
(* bit is set to hide the run, which x3 remembers (fix at 12.8, x5 at 18   *)
(* MHz, which is a loop of its own: it looks for errors as well).  At 16   *)
(* MHz shift moves.  At 20 MHz a counter finds the stuffed bit.            *)
(***************************************************************************)
EXTENDS LineBits

Unrolled == {120, 128, 150, 165}

\* bld, then andi: the places of the two bits to come do not count.  (At 12.8 MHz
\* andi is only done when it can matter, at 18 MHz to a copy; the two places are
\* loaded anew before the byte is complete.)
Keep(k) == IF k < 6 THEN Bit \ {k + 1, k + 2} ELSE Bit
LoadBit(k, s) ==
  IF DMinus(last) # DMinus(s) THEN (shift \cup {k}) \cap Keep(k)
                              ELSE (shift \ {k}) \cap Keep(k)

\* breq unstuff0 .. unstuff5; cpi 0x02 and brlo; cpi 0x04 and brsh
StuffedNext(k, r) == r \subseteq 0 .. k - 6

Store(byte) ==
  /\ got' = byte
  /\ gotCount' = gotCount + 1

Leave(label) ==
  /\ pc' = label
  /\ UNCHANGED <<rxRegs, heard>>

-----------------------------------------------------------------------------
(* Synchronisation *)

\* haveTwoBitsK: the registers the loop begins with
StartLoop ==
  /\ last' = "K"
  /\ cnt' = USB_BUFSIZE
  /\ bit' = 7
  /\ again' = (clock = 180)      \* it does not look for a stuffed bit after the PID
  /\ \/ /\ clock \in Unrolled
        /\ pc' = "rxLoop"
        /\ shift' = Bit
        /\ x3' = Bit
        /\ bitcnt' = 0
     \/ /\ clock = 160
        /\ pc' = "first"
        /\ shift' = {}
        /\ x3' = {4}
        /\ bitcnt' = 85
     \/ /\ clock = 180
        /\ pc' = "pid"
        /\ shift' = {7}
        /\ x3' = Bit
        /\ bitcnt' = 0
     \/ /\ clock = 200
        /\ pc' = "bit0"
        /\ shift' = {6}
        /\ x3' = {}
        /\ bitcnt' = 5
  /\ UNCHANGED heard

\* Mutant: without the timeout.
BugWaitForJ(s) == Leave(IF DMinus(s) THEN "waitForK" ELSE "waitForJ")

\* inc YL, sbis, brne: "just make sure we have ANY timeout"
WaitForJ(s) ==
  /\ cnt' = cnt - 1
  /\ pc' = IF DMinus(s) \/ cnt' = 0 THEN "waitForK" ELSE "waitForJ"
  /\ UNCHANGED <<shift, x3, last, bit, again, bitcnt, heard>>

\* The handler comes in somewhere in the sync byte and looks for its end: two
\* bits K in a row.
Sync(s) ==
  \/ pc = "waitForJ" /\ WaitForJ(s)
  \/ pc = "waitForK" /\ Leave(IF DMinus(s) THEN "sofError" ELSE "foundK")
  \/ pc = "foundK" /\ DMinus(s) /\ Leave("waitForK")
  \/ pc = "foundK" /\ ~DMinus(s) /\ StartLoop

-----------------------------------------------------------------------------
(* 12, 12.8, 15 and 16.5 MHz *)

\* The sample taken after bit is that of a stuffed bit.
Stuffed == StuffedNext(bit, shift)

\* At 12.8 MHz, where the samples for the phase come between two bits and see either
\* of them: unstuff0c and unstuff0s, which do look at both lines, and bit1AfterClr.
Phases(s) == IF clock = 128 THEN {line, s} ELSE {s}
SE0Between(s, phase) ==
  /\ bit = 0 /\ gotCount > 0
  /\ IF Stuffed THEN s = "SE0"
     ELSE ~DMinus(last) /\ ~DMinus(s) /\ phase = "SE0"

\* Mutant: unstuff0 does not look for SE0.
BugSE0Seen(s, phase) ==
  \/ clock = 150 /\ s = "SE0" /\ (bit # 7 \/ Stuffed)
  \/ clock = 165 /\ s = "SE0" /\ bit = 0 /\ ~again /\ ~Stuffed
  \/ clock = 120 /\ s = "SE0" /\ bit = 0 /\ ~again /\ ~Stuffed /\ gotCount > 0
  \/ clock = 128 /\ SE0Between(s, phase)

\* Where the code looks for SE0: in the bit after bit 0, stuffed or not, but not
\* again after a stuffed one; at 15 MHz everywhere but in bit 0.  At 12 and 12.8 MHz
\* not in the PID.
SE0Seen(s, phase) ==
  \/ clock = 150 /\ s = "SE0" /\ (bit # 7 \/ Stuffed)
  \/ clock = 165 /\ s = "SE0" /\ bit = 0 /\ ~again
  \/ clock = 120 /\ s = "SE0" /\ bit = 0 /\ ~again /\ gotCount > 0
  \/ clock = 128 /\ SE0Between(s, phase)

\* At 12.8 MHz the bits are samples of D- alone, and a stuffed bit is not sampled at
\* all; what the lines are then taken to be.
AfterStuffed(s) == IF clock = 128 THEN Change(last) ELSE s

\* Where cnt is counted down: with bit 2; at 12.8 MHz with bit 6; at 15 MHz with bit 0
\* of the next byte.
Counts(k) ==
  CASE clock = 150 -> k = 0 /\ gotCount > 0 [] clock = 128 -> k = 6 [] OTHER -> k = 2

\* Mutant: the loop counter is not looked at.
BugFull(k) == FALSE
Full(k) == Counts(k) /\ cnt = 0

\* At 12.8 MHz a byte is stored with bit 3 of the next one, or by se0AndStore: the
\* loop is not left elsewhere before that.
LoopUnrolled(s, phase) ==
  LET k == (bit + 1) % 8 IN
  /\ pc = "rxLoop" /\ clock \in Unrolled
  /\ \/ SE0Seen(s, phase) /\ Leave("se0")
     \/ ~SE0Seen(s, phase) /\ ~Stuffed /\ Full(k) /\ Leave("overflow")
     \/ \* a stuffed bit: the bit before it is hidden from the next look
        /\ ~SE0Seen(s, phase) /\ Stuffed
        /\ shift' = shift \cup {bit}
        /\ x3' = x3 \ {bit}
        /\ again' = TRUE
        /\ last' = AfterStuffed(s)
        /\ IF bit = 7 THEN Store(Xor(x3', shift')) ELSE UNCHANGED heard
        /\ UNCHANGED <<pc, bit, bitcnt, cnt>>
     \/ /\ ~SE0Seen(s, phase) /\ ~Stuffed /\ ~Full(k)
        /\ shift' = LoadBit(k, s)
        /\ x3' = IF k = 0 THEN Bit ELSE x3
        /\ again' = FALSE
        /\ last' = s
        /\ bit' = k
        /\ cnt' = IF Counts(k) THEN cnt - 1 ELSE cnt
        /\ IF k = 7 /\ ~StuffedNext(7, shift')
           THEN Store(Xor(x3, shift')) ELSE UNCHANGED heard
        /\ UNCHANGED <<pc, bitcnt>>

-----------------------------------------------------------------------------
(* 18 MHz: the PID with a loop of its own, then an unrolled one *)

\* The 1 shift begins with leaves it with the eighth bit.  Bit 0 comes before the
\* loop and is not looked at for SE0.
PidBit(s) ==
  /\ pc \in {"pid", "bitloopPid"}
  /\ \/ pc = "bitloopPid" /\ s = "SE0" /\ Leave("se0")
     \/ /\ pc = "bitloopPid" => s # "SE0"
        /\ shift' = Ror(shift, DMinus(s) # DMinus(last))
        /\ last' = s
        /\ pc' = IF 0 \in shift THEN "rxDataStart" ELSE "bitloopPid"
        /\ UNCHANGED <<x3, bit, again, bitcnt, cnt, heard>>

\* An SE0 in bit 0 may follow five 1s; unstuff0 leaves it alone.
Stuffed180 == ~again /\ StuffedNext(bit, shift) /\ ~(bit = 0 /\ last = "SE0")

\* A stuffed bit must be a change, of one line at least.
Unstuff180(s) ==
  /\ Stuffed180
  /\ \/ s = last /\ Leave("overflow")        \* stuffErr
     \/ /\ s # last
        /\ shift' = shift \cup {bit}
        /\ x3' = x3 \ {bit}
        /\ again' = TRUE
        /\ last' = s
        /\ UNCHANGED <<pc, bit, bitcnt, cnt, heard>>

\* A byte is stored after bit 0 of the next, which the packet may end with, and after
\* unstuff0: when that finds an error the packet is dropped, whatever was stored.
DataBit180(s) ==
  LET k     == (bit + 1) % 8
      se0   == k = 1 /\ "SE0" \in {last, s}
      drop  == (k \in 2 .. 4 /\ s = "SE0") \/ (k = 0 /\ cnt = 0)
  IN
  /\ ~Stuffed180
  /\ \/ se0 /\ Leave("se0")
     \/ drop /\ Leave("overflow")
     \/ /\ ~se0 /\ ~drop
        /\ shift' = LoadBit(k, s)
        /\ again' = FALSE
        /\ last' = s
        /\ bit' = k
        /\ IF k = 0
             THEN x3' = Bit /\ cnt' = cnt - 1 /\ Store(Xor(x3, shift))
             ELSE UNCHANGED <<x3, cnt, heard>>
        /\ UNCHANGED <<pc, bitcnt>>

Loop180(s) ==
  /\ clock = 180
  /\ PidBit(s) \/ (pc = "rxDataStart" /\ (Unstuff180(s) \/ DataBit180(s)))

-----------------------------------------------------------------------------
(* 16 MHz: two rounds of a loop for bits 0 to 5, then bits 6 and 7 *)

\* pc is the next bit to sample; SixOnes(shift) says that a stuffed one comes first.
\* The odd bits, and the stuffed bits before bit 6, are looked at for SE0.
\* The first sample goes into shift inverted; x3 begins with the place that
\* bit has at the end.
Loop160(s) ==
  LET bits == Ror(shift, s = last)
      checked == IF SixOnes(shift) THEN pc \in {"odd", "even", "bit6"} ELSE pc = "odd"
      unstuffed == shift \ {7}
  IN
  /\ clock = 160 /\ pc \in {"first", "bit0", "even", "odd", "bit6", "bit7"}
  /\ \/ s = "SE0" /\ checked /\ Leave("se0")
     \/ pc = "bit6" /\ ~SixOnes(shift) /\ cnt = 0 /\ Leave("overflow")
     \/ \* unstuffEven, unstuffOdd, unstuff6, unstuff7
        /\ ~(s = "SE0" /\ checked) /\ SixOnes(shift)
        /\ shift' = unstuffed
        /\ x3' = CASE pc = "odd" -> Lsr(Lsr(x3 \cup {6}))
                   [] pc \in {"even", "bit6"} -> x3 \cup {5}
                   [] pc = "bit7" -> x3 \cup {6}
                   [] pc = "bit0" -> Xor(x3 \cup {7}, unstuffed)
        /\ IF pc = "bit0" THEN Store(x3') ELSE UNCHANGED heard
        /\ last' = s
        /\ UNCHANGED <<pc, bit, again, bitcnt, cnt>>
     \/ /\ ~(s = "SE0" /\ checked) /\ ~SixOnes(shift) /\ ~(pc = "bit6" /\ cnt = 0)
        /\ last' = s
        /\ shift' = IF pc = "first" THEN (IF DMinus(s) THEN {7} ELSE {}) ELSE bits
        /\ \/ pc = "first" /\ pc' = "odd" /\ UNCHANGED <<x3, bitcnt, cnt, heard>>
           \/ /\ pc \in {"bit0", "even"} /\ pc' = "odd"
              /\ LET kept == x3 \cap 0 .. 5
                 IN  x3' = IF SixOnes(bits) THEN kept ELSE Lsr(Lsr(kept))
              /\ UNCHANGED <<bitcnt, cnt, heard>>
           \/ /\ pc = "odd"
              /\ bitcnt' = (bitcnt - 171) % 256
              /\ pc' = IF bitcnt < 171 THEN "even" ELSE "bit6"
              /\ UNCHANGED <<x3, cnt, heard>>
           \/ /\ pc = "bit6" /\ pc' = "bit7"
              /\ cnt' = cnt - 1
              /\ UNCHANGED <<x3, bitcnt, heard>>
           \/ /\ pc = "bit7" /\ pc' = "bit0"
              /\ IF SixOnes(bits) THEN UNCHANGED <<x3, heard>>
                 ELSE x3' = Xor(x3, bits) /\ Store(x3')
              /\ UNCHANGED <<bitcnt, cnt>>
        /\ UNCHANGED <<bit, again>>

-----------------------------------------------------------------------------
(* 20 MHz: bitcnt counts the 1s, a 1 in shift marks the bit before bit 7 *)

\* Mutant: a 0 does not start the count again.
BugCount(one) == IF one THEN bitcnt - 1 ELSE bitcnt
Count(one) == IF one THEN bitcnt - 1 ELSE 6

Loop200(s) ==
  LET one == s = last IN
  /\ clock = 200 /\ pc \in {"bit0", "bitloop", "bit7"}
  /\ \/ \* unstuff
        /\ bitcnt = 0
        /\ bitcnt' = 6
        /\ UNCHANGED <<pc, shift, cnt, heard>>
     \/ /\ bitcnt # 0 /\ ~(pc = "bitloop" /\ s = "SE0") /\ pc # "bit7"
        /\ shift' = Ror(shift, one)
        /\ bitcnt' = Count(one)
        /\ pc' = IF 0 \in shift THEN "bit7" ELSE "bitloop"
        /\ UNCHANGED <<cnt, heard>>
     \/ /\ bitcnt # 0 /\ pc = "bitloop" /\ s = "SE0"
        /\ pc' = "se0"
        /\ UNCHANGED <<shift, bitcnt, cnt, heard>>
     \/ /\ bitcnt # 0 /\ pc = "bit7" /\ cnt = 0
        /\ pc' = "overflow"
        /\ UNCHANGED <<shift, bitcnt, cnt, heard>>
     \/ /\ bitcnt # 0 /\ pc = "bit7" /\ cnt > 0
        /\ cnt' = cnt - 1
        /\ Store(Ror(shift, one))
        /\ shift' = {6}
        /\ bitcnt' = Count(one)
        /\ pc' = "bit0"
  /\ last' = s
  /\ UNCHANGED <<x3, bit, again>>

RxLabels == {"waitForJ", "waitForK", "foundK", "rxLoop", "first", "bit0", "even",
             "odd", "bit6", "bit7", "bitloop", "pid", "bitloopPid", "rxDataStart"}
Sample(s) ==
  \/ Sync(s)
  \/ \E phase \in Phases(s) : LoopUnrolled(s, phase)
  \/ Loop160(s)
  \/ Loop180(s)
  \/ Loop200(s)
=============================================================================
