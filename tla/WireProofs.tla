----------------------------- MODULE WireProofs -----------------------------
(***************************************************************************)
(* Proofs about the receivers and transmitters of module Wire, for every   *)
(* clock, all bytes, and packets of any length and broken off anywhere:    *)
(* what is received stays inside usbRxBuf, and what is sent arrives.       *)
(***************************************************************************)
EXTENDS Wire, TLAPS

-----------------------------------------------------------------------------
(* What is received stays inside usbRxBuf *)

\* Before a byte is begun.
Before == {"waitForJ", "waitForK", "foundK", "first", "pid", "bitloopPid", "sofError"}

\* The byte was complete with a bit that a stuffed one follows: it is stored with that.
Unstored ==
  \/ pc = "rxLoop" /\ bit = 7 /\ StuffedNext(7, shift)
  \/ pc = "bit0" /\ SixOnes(shift)

\* How many bytes cnt counted down, in terms of those stored: with bit 2, 6, or bit 0
\* of the next byte.
Counted ==
  CASE clock \in {120, 165} ->
         IF bit \in 2 .. 6 \/ Unstored THEN gotCount + 1 ELSE gotCount
    [] clock = 128 ->
         IF bit = 6 \/ Unstored THEN gotCount + 1 ELSE gotCount
    [] clock = 150 ->
         IF bit \in 0 .. 6 \/ Unstored \/ gotCount = 0 THEN gotCount ELSE gotCount - 1
    [] clock = 160 ->
         IF pc = "bit7" \/ Unstored THEN gotCount + 1 ELSE gotCount
    [] OTHER -> gotCount

Receiving ==
  CASE clock \in Unrolled -> {"rxLoop"}
    [] clock = 160 -> {"first", "bit0", "even", "odd", "bit6", "bit7"}
    [] clock = 180 -> {"pid", "bitloopPid", "rxDataStart"}
    [] clock = 200 -> {"bit0", "bitloop", "bit7"}

StoreInv ==
  /\ clock \in Clocks
  /\ stage # "listen" =>
       /\ gotCount \in Nat
       /\ StoresFit
       /\ pc \in Before => gotCount = 0
       /\ pc \in Receiving =>
            /\ bit \in Bit
            /\ cnt \in Nat
            /\ cnt = USB_BUFSIZE - Counted

LEMMA StoreUnrolled ==
  ASSUME StoreInv, stage # "listen", NEW s, NEW phase, LoopUnrolled(s, phase),
         clock' = clock, stage' # "listen"
  PROVE  StoreInv'
<1> DEFINE k == (bit + 1) % 8
<1> USE DEF StoreInv, StoresFit, Receiving, Before, Unrolled, USB_BUFSIZE
<1>1. /\ pc = "rxLoop" /\ clock \in {120, 128, 150, 165}
      /\ bit \in 0 .. 7 /\ cnt \in Nat /\ gotCount \in Nat /\ cnt = 11 - Counted
  BY DEF LoopUnrolled, Bit
<1>2. CASE UNCHANGED <<rxRegs, heard>> /\ pc' \in {"se0", "overflow"}
  BY <1>1, <1>2 DEF rxRegs, heard
<1>3. CASE /\ Stuffed
           /\ shift' = shift \cup {bit}
           /\ IF bit = 7 THEN Store(Xor(x3', shift')) ELSE UNCHANGED heard
           /\ UNCHANGED <<pc, bit, bitcnt, cnt>>
  <2>1. bit \in shift' /\ ~StuffedNext(bit', shift')
    BY <1>1, <1>3 DEF StuffedNext
  <2>2. Unstored <=> bit = 7
    BY <1>1, <1>3 DEF Unstored, Stuffed
  <2>3. ~Unstored'
    BY <1>1, <1>3, <2>1 DEF Unstored
  <2>4. cnt' = 11 - Counted' /\ gotCount' \in Nat
    BY <1>1, <1>3, <2>2, <2>3 DEF Counted, Store, heard
  <2> QED
    BY <1>1, <1>3, <2>2, <2>3, <2>4 DEF Counted, Bit
<1>4. CASE /\ ~Stuffed /\ ~Full(k)
           /\ bit' = k
           /\ cnt' = IF Counts(k) THEN cnt - 1 ELSE cnt
           /\ IF k = 7 /\ ~StuffedNext(7, shift')
              THEN Store(Xor(x3, shift')) ELSE UNCHANGED heard
           /\ UNCHANGED <<pc, bitcnt>>
  <2>1. ~Unstored
    BY <1>1, <1>4 DEF Unstored, Stuffed
  <2>2. Unstored' <=> k = 7 /\ StuffedNext(7, shift')
    BY <1>1, <1>4 DEF Unstored
  <2>3. k \in 0 .. 7 /\ (bit = 7 => k = 0) /\ (bit < 7 => k = bit + 1)
    BY <1>1
  <2>4. gotCount' = IF k = 7 /\ ~Unstored' THEN gotCount + 1 ELSE gotCount
    BY <1>1, <1>4, <2>2 DEF Store, heard
  <2>5. cnt' \in Nat /\ cnt' = (IF Counts(k) THEN cnt - 1 ELSE cnt)
    BY <1>1, <1>4, <2>3 DEF Full, Counts
  <2> HIDE DEF k
  <2>6. cnt' = 11 - Counted'
    <3>1. CASE clock \in {120, 165}
      BY <1>1, <1>4, <2>1, <2>2, <2>3, <2>4, <2>5, <3>1 DEF Counted, Counts
    <3>2. CASE clock = 128
      BY <1>1, <1>4, <2>1, <2>2, <2>3, <2>4, <2>5, <3>2 DEF Counted, Counts
    <3>3. CASE clock = 150
      BY <1>1, <1>4, <2>1, <2>2, <2>3, <2>4, <2>5, <3>3 DEF Counted, Counts
    <3> QED
      BY <1>1, <3>1, <3>2, <3>3
  <2>7. StoresFit'
    BY <1>1, <1>4, <2>3, <2>4, <2>5, <2>6 DEF Counted
  <2> QED
    BY <1>1, <1>4, <2>3, <2>4, <2>5, <2>6, <2>7 DEF Bit
<1> QED
  BY <1>2, <1>3, <1>4 DEF LoopUnrolled, Leave

LEMMA Store160 ==
  ASSUME StoreInv, stage # "listen", NEW s, Loop160(s), clock' = clock, stage' # "listen"
  PROVE  StoreInv'
<1> USE DEF StoreInv, StoresFit, Receiving, Before, Unrolled, USB_BUFSIZE
<1>1. /\ pc \in {"first", "bit0", "even", "odd", "bit6", "bit7"} /\ clock = 160
      /\ bit \in Bit /\ cnt \in Nat /\ gotCount \in Nat /\ cnt = 11 - Counted
  BY DEF Loop160
<1>2. Counted = IF pc = "bit7" \/ (pc = "bit0" /\ SixOnes(shift)) THEN gotCount + 1 ELSE gotCount
  BY <1>1 DEF Counted, Unstored
<1>3. pc' # "rxLoop" =>
        Counted' = IF pc' = "bit7" \/ (pc' = "bit0" /\ SixOnes(shift'))
                   THEN gotCount' + 1 ELSE gotCount'
  BY <1>1 DEF Counted, Unstored
<1>4. CASE UNCHANGED <<rxRegs, heard>> /\ pc' \in {"se0", "overflow"}
  BY <1>1, <1>4 DEF rxRegs, heard
<1>5. CASE /\ SixOnes(shift)
           /\ shift' = shift \ {7}
           /\ IF pc = "bit0" THEN Store(x3') ELSE UNCHANGED heard
           /\ UNCHANGED <<pc, bit, again, bitcnt, cnt>>
  <2>1. ~SixOnes(shift')
    BY <1>5 DEF SixOnes
  <2> QED
    BY <1>1, <1>2, <1>3, <1>5, <2>1 DEF Store, heard
<1>6. CASE /\ ~SixOnes(shift)
           /\ pc \in {"first", "bit0", "even", "odd"} /\ pc' \in {"odd", "even", "bit6"}
           /\ UNCHANGED <<cnt, heard, bit>>
  BY <1>1, <1>2, <1>3, <1>6 DEF heard
<1>7. CASE /\ ~SixOnes(shift) /\ cnt # 0
           /\ pc = "bit6" /\ pc' = "bit7"
           /\ cnt' = cnt - 1
           /\ UNCHANGED <<heard, bit>>
  BY <1>1, <1>2, <1>3, <1>7 DEF heard
<1>8. CASE /\ pc = "bit7" /\ pc' = "bit0"
           /\ IF SixOnes(shift') THEN UNCHANGED heard ELSE Store(x3')
           /\ UNCHANGED <<cnt, bit>>
  BY <1>1, <1>2, <1>3, <1>8 DEF heard, Store
<1> QED
  BY <1>1, <1>4, <1>5, <1>6, <1>7, <1>8 DEF Loop160, Leave

LEMMA Store180 ==
  ASSUME StoreInv, stage # "listen", NEW s, Loop180(s), clock' = clock, stage' # "listen"
  PROVE  StoreInv'
<1> USE DEF StoreInv, StoresFit, Receiving, Before, Unrolled, USB_BUFSIZE, Counted
<1>1. /\ pc \in {"pid", "bitloopPid", "rxDataStart"} /\ clock = 180
      /\ bit \in 0 .. 7 /\ cnt \in Nat /\ gotCount \in Nat /\ cnt = 11 - gotCount
  BY DEF Loop180, PidBit, Bit
<1>2. CASE PidBit(s)
  BY <1>1, <1>2 DEF PidBit, Leave, rxRegs, heard
<1>3. CASE Unstuff180(s)
  BY <1>1, <1>3 DEF Unstuff180, Leave, rxRegs, heard
<1>4. CASE DataBit180(s) /\ pc = "rxDataStart"
  <2> DEFINE k == (bit + 1) % 8
  <2>1. k \in Bit
    BY <1>1 DEF Bit
  <2>2. \/ UNCHANGED <<rxRegs, heard>> /\ pc' \in {"se0", "overflow"}
        \/ /\ ~(k = 0 /\ cnt = 0)
           /\ bit' = k /\ pc' = pc
           /\ IF k = 0 THEN cnt' = cnt - 1 /\ gotCount' = gotCount + 1
              ELSE UNCHANGED <<cnt, gotCount>>
    BY <1>4 DEF DataBit180, Leave, Store, heard
  <2> HIDE DEF k
  <2> QED
    <3>1. CASE pc' \in {"se0", "overflow"}
      BY <1>1, <2>2, <3>1 DEF rxRegs, heard
    <3>2. CASE pc' = "rxDataStart"
      <4>1. pc = "rxDataStart" /\ bit' \in Bit
        BY <1>4, <2>1, <2>2, <3>2, <1>1 DEF DataBit180, Loop180, PidBit
      <4>2. cnt' \in Nat /\ gotCount' \in Nat /\ cnt' = 11 - gotCount'
        BY <1>1, <2>2, <3>2
      <4> QED
        BY <1>1, <3>2, <4>1, <4>2
    <3> QED
      BY <1>1, <1>4, <2>2, <3>1, <3>2 DEF DataBit180
<1> QED
  BY <1>2, <1>3, <1>4 DEF Loop180

LEMMA Store200 ==
  ASSUME StoreInv, stage # "listen", NEW s, Loop200(s), clock' = clock, stage' # "listen"
  PROVE  StoreInv'
<1> USE DEF StoreInv, StoresFit, Receiving, Before, Unrolled, USB_BUFSIZE, Counted
<1>1. /\ pc \in {"bit0", "bitloop", "bit7"} /\ clock = 200
      /\ bit \in Bit /\ cnt \in Nat /\ gotCount \in Nat /\ cnt = 11 - gotCount
  BY DEF Loop200
<1>2. \/ pc' \in {"bit0", "bitloop", "bit7", "se0", "overflow"} /\ UNCHANGED <<cnt, heard>>
      \/ cnt > 0 /\ cnt' = cnt - 1 /\ pc' = "bit0" /\ gotCount' = gotCount + 1
  BY <1>1 DEF Loop200, Store
<1> QED
  BY <1>1, <1>2 DEF heard, Loop200

LEMMA StoreSync ==
  ASSUME StoreInv, stage # "listen", NEW s, Sync(s), clock' = clock, stage' # "listen"
  PROVE  StoreInv'
<1> USE DEF StoreInv, StoresFit, Receiving, Before, Unrolled, USB_BUFSIZE
<1>1. gotCount = 0 /\ clock \in {120, 128, 150, 160, 165, 180, 200} /\ gotCount' = gotCount
  BY ClocksAssumption DEF Sync, WaitForJ, Leave, StartLoop, heard
<1>2. CASE pc' \in {"waitForJ", "waitForK", "foundK", "sofError"}
  BY <1>1, <1>2
<1>3. CASE StartLoop
  <2>1. cnt' = 11 /\ bit' = 7
    BY <1>3 DEF StartLoop
  <2>2. CASE clock \in Unrolled
    <3>1. shift' = Bit /\ pc' = "rxLoop"
      BY <1>3, <2>2 DEF StartLoop
    <3>2. ~Unstored'
      BY <2>1, <3>1 DEF Unstored, StuffedNext, Bit
    <3> QED
      BY <1>1, <2>1, <2>2, <3>1, <3>2 DEF Counted, Bit
  <2>3. CASE clock = 160
    <3>1. pc' = "first"
      BY <1>3, <2>3 DEF StartLoop
    <3> QED
      BY <1>1, <2>1, <2>3, <3>1 DEF Counted, Bit, Unstored
  <2>4. CASE clock = 180
    <3>1. pc' = "pid"
      BY <1>3, <2>4 DEF StartLoop
    <3> QED
      BY <1>1, <2>1, <2>4, <3>1 DEF Counted, Bit
  <2>5. CASE clock = 200
    <3>1. pc' = "bit0"
      BY <1>3, <2>5 DEF StartLoop
    <3> QED
      BY <1>1, <2>1, <2>5, <3>1 DEF Counted, Bit
  <2> QED
    BY <1>1, <2>2, <2>3, <2>4, <2>5
<1> QED
  BY <1>2, <1>3 DEF Sync, WaitForJ, Leave

LEMMA StoreStep == StoreInv /\ [Next]_vars => StoreInv'
<1> SUFFICES ASSUME StoreInv, [Next]_vars PROVE StoreInv'
  OBVIOUS
<1>1. CASE HostPacket
  BY <1>1, ClocksAssumption DEF HostPacket, Before, StoreInv, StoresFit, Receiving, Unrolled,
       USB_BUFSIZE
<1>2. CASE Receive
  <2>1. stage # "listen" /\ stage' # "listen" /\ clock' = clock
    BY <1>2 DEF Receive, HostSync, HostData, HostBreaks
  <2> QED
    BY <1>2, <2>1, StoreSync, StoreUnrolled, Store160, Store180, Store200 DEF Receive, Sample
<1>3. CASE Answer
  BY <1>3 DEF Answer, StoreInv
<1>4. CASE Send
  BY <1>4 DEF Send, StoreInv
<1>5. CASE Return
  BY <1>5, ClocksAssumption DEF Return, Before, StoreInv, StoresFit, Receiving, Unrolled,
       USB_BUFSIZE
<1>6. CASE UNCHANGED vars
  <2>1. UNCHANGED <<clock, pc, stage, shift, bit, cnt, gotCount>>
    BY <1>6 DEF vars, hostVars, heard
  <2>2. Unstored' <=> Unstored
    BY <2>1 DEF Unstored, StuffedNext, SixOnes
  <2>3. Counted' = Counted
    BY <2>1, <2>2 DEF Counted
  <2> QED
    BY <2>1, <2>3 DEF StoreInv, StoresFit, Receiving
<1> QED
  BY <1>1, <1>2, <1>3, <1>4, <1>5, <1>6 DEF Next

\* Whatever is on the lines, a noise or a packet that never ends, at none of the seven
\* clocks a byte is stored outside of usbRxBuf but the one at 15 MHz, which is not
\* counted yet when it is stored.
THEOREM NeverOverrun == Spec => []StoresFit
<1>1. Init => StoreInv
  BY ClocksAssumption DEF Init, StoreInv, StoresFit, Receiving, Before, Unrolled, USB_BUFSIZE
<1>2. StoreInv => (stage # "listen" => StoresFit)
  BY DEF StoreInv
<1>3. StoreInv => StoresFit
  BY <1>2 DEF StoresFit
<1> QED
  BY <1>1, <1>3, StoreStep, PTL DEF Spec

-----------------------------------------------------------------------------
(* What is sent arrives *)

\* The bits of the byte being sent that the host heard, and the one being sent; it
\* heard that too when a stuffed one is due.
Taken == IF again /\ place = 0 THEN 8 ELSE place
AtBit == IF again THEN Taken - 1 ELSE Taken
BytesLeft == IF Taken = 8 THEN left + 1 ELSE left

\* How the handler knows that it sends bit p of a byte, and n bytes are left with it.
Pairs(p, n) ==
  <<pc, p, cnt>> \in {<<"bitloop", 0, n>>, <<"stuffN2Delay", 1, n>>,
                     <<"bitloop", 2, n + 85>>, <<"stuffN2Delay", 3, n + 85>>,
                     <<"bitloop", 4, n + 170>>, <<"stuffN2Delay", 5, n + 170>>,
                     <<"bit6", 6, n - 1>>, <<"bit7", 7, n - 1>>}
Sends(p, n) ==
  /\ IF Counting THEN Pairs(p, n) ELSE cnt = n
  /\ clock = 165 =>
       \/ pc = "bitloop" /\ p \in 0 .. 6 /\ bitcnt = 258 - 3 * saidCount - 37 * p
       \/ pc = "bit7" /\ p = 7 /\ bitcnt = 255 - 3 * saidCount
  /\ clock = 150 =>
       \/ pc = "bitloop" /\ p \in 0 .. 5 /\ bitcnt = 6 - p
       \/ pc = "bit6" /\ p = 6
       \/ pc = "bit7" /\ p = 7 /\ bitcnt = 6
  /\ clock = 160 =>
       \/ /\ pc = "bitloop"
          /\ <<p, bitcnt>> \in {<<0, 53>>, <<1, 26>>, <<2, 13>>, <<3, 6>>, <<4, 3>>, <<5, 1>>}
       \/ pc = "bit6" /\ p = 6
       \/ pc = "bit7" /\ p = 7
  /\ clock = 200 =>
       \/ /\ pc = "bitloop"
          /\ <<p, bitcnt>> \in {<<0, 73>>, <<1, 36>>, <<2, 18>>, <<3, 9>>, <<4, 4>>, <<5, 2>>,
             <<6, 1>>}
       \/ pc = "bit7" /\ p = 7
  /\ clock = 180 =>
       \/ /\ pc = "bitloop"
          /\ <<p, bitcnt>> \in {<<0, 64>>, <<1, 32>>, <<2, 16>>, <<3, 8>>, <<4, 4>>, <<5, 2>>,
             <<6, 1>>}
       \/ pc = "bit7" /\ p = 7

\* The handler knows how many 1s it sent; x2 holds something else before the
\* first bit of the packet.
StuffRight ==
  /\ run \in 0 .. 6
  /\ again <=> run = 6
  /\ IF Counting THEN ones = 6 - run
     ELSE /\ history \subseteq Bit
          /\ 8 - run .. 7 \subseteq history
          /\ 7 - run \in history => saidCount = 1 /\ Taken = 0

Ending == {"makeSE0", "se0Delay", "releaseBus", "doReturn"}
\* The handler sends a byte and the host hears it.
Sending ==
  /\ line \in {"J", "K"}
  /\ place \in Bit
  /\ saidCount \in Nat /\ saidCount >= 1
  /\ left \in Nat /\ BytesLeft >= 1 /\ BytesLeft + saidCount <= 13
  /\ Sends(AtBit, BytesLeft)
  /\ StuffRight
  /\ said \in Byte /\ (saidCount = 1 => said = SyncByte)
  /\ shift = {i \in Bit : i + Taken \in said}
  /\ bits = {i \in said : i < place}
  /\ gotCount = IF Taken = 8 THEN saidCount ELSE saidCount - 1

SendInv ==
  /\ clock \in Clocks
  /\ IF stage = "listen" THEN pc \in TxLabels \cup Ending ELSE bits = {}
  /\ stage = "listen" /\ pc \in TxLabels => Sending
  /\ stage = "listen" /\ pc \in Ending =>
       /\ left = 0 /\ place = 0 /\ run \in 0 .. 6 /\ gotCount \in Nat
       /\ pc \in {"se0Delay", "releaseBus"} => line = "SE0"

LEMMA LsrBits ==
  ASSUME NEW r, r \subseteq Bit
  PROVE  Lsr(r) = {i \in Bit : i + 1 \in r}
BY DEF Lsr, Bit

\* What Advance does after bit p of a byte, with n bytes left: the next bit, the next
\* byte, or the end of the packet.
Advanced(p, n, rest) ==
  \/ p < 7 /\ pc' \in TxLabels /\ Sends(p + 1, n)' /\ shift' = rest /\ UNCHANGED saying
  \/ /\ p = 7 /\ n > 1 /\ pc' \in TxLabels /\ Sends(0, n - 1)'
     /\ said' \in Byte /\ shift' = said' /\ saidCount' = saidCount + 1
  \/ p = 7 /\ n = 1 /\ pc' = "makeSE0"

LEMMA NextBytes ==
  ASSUME NEW label, NextByte(label)
  PROVE  /\ cnt' = cnt - 1
         /\ \/ /\ cnt' # 0 /\ pc' = label
               /\ said' \in Byte /\ shift' = said' /\ saidCount' = saidCount + 1
            \/ cnt' = 0 /\ pc' = "makeSE0"
BY BytesAssumption DEF NextByte

LEMMA Advances ==
  ASSUME NEW p \in Bit, NEW n \in 1 .. 12, saidCount \in 1 .. 13 - n, NEW rest,
         clock \in Clocks, clock' = clock, Sends(p, n), Advance(rest)
  PROVE  Advanced(p, n, rest)
<1> USE DEF Bit, Counting, TxLabels, SameByte
<1>1. CASE clock = 165
  <2>1. CASE pc = "bitloop"
    BY <1>1, <2>1 DEF Sends, Advance, Advance165, Advanced, saying
  <2>2. CASE pc = "bit7"
    BY <1>1, <2>2, NextBytes DEF Sends, Advance, Advance165, Advanced
  <2> QED
    BY <1>1, <2>1, <2>2 DEF Sends
<1>2. CASE clock = 150
  <2>1. CASE pc # "bit7"
    BY <1>2, <2>1 DEF Sends, Advance, Advance150, Advanced, saying
  <2>2. CASE pc = "bit7"
    BY <1>2, <2>2, NextBytes DEF Sends, Advance, Advance150, Advanced
  <2> QED
    BY <2>1, <2>2
<1>3. CASE clock = 160
  <2>1. CASE pc # "bit7"
    BY <1>3, <2>1 DEF Sends, Advance, Advance160, Advanced, saying
  <2>2. CASE pc = "bit7"
    BY <1>3, <2>2, NextBytes DEF Sends, Advance, Advance160, Advanced
  <2> QED
    BY <2>1, <2>2
<1>4. CASE clock = 200
  <2>1. CASE pc # "bit7"
    BY <1>4, <2>1 DEF Sends, Advance, Advance200, Advanced, saying
  <2>2. CASE pc = "bit7"
    BY <1>4, <2>2, NextBytes DEF Sends, Advance, Advance200, Advanced, SevenRounds
  <2> QED
    BY <2>1, <2>2
<1>5. CASE clock = 180
  <2>1. CASE pc # "bit7"
    BY <1>5, <2>1 DEF Sends, Advance, Advance200, Advanced, saying
  <2>2. CASE pc = "bit7"
    BY <1>5, <2>2, NextBytes DEF Sends, Advance, Advance200, Advanced, SevenRounds
  <2> QED
    BY <2>1, <2>2
<1>6. CASE clock \in {120, 128}
  <2>0. Pairs(p, n) /\ Advance120(rest)
    BY <1>6 DEF Sends, Pairs, Advance
  <2>1. ASSUME NEW m, NEW l PROVE Pairs(m, l)' => Sends(m, l)'
    BY <1>6 DEF Sends, Pairs
  <2>2. CASE pc = "bitloop"
    <3>1. p < 7 /\ pc' \in TxLabels /\ Pairs(p + 1, n)' /\ shift' = rest /\ UNCHANGED saying
      BY <2>0, <2>2 DEF Pairs, Advance120, saying
    <3> QED
      BY <2>1, <3>1 DEF Advanced
  <2>3. CASE pc = "stuffN2Delay"
    <3>1. p < 7 /\ pc' \in TxLabels /\ Pairs(p + 1, n)' /\ shift' = rest /\ UNCHANGED saying
      BY <2>0, <2>3 DEF Pairs, Advance120, saying
    <3> QED
      BY <2>1, <3>1 DEF Advanced
  <2>4. CASE pc = "bit6"
    <3>1. p < 7 /\ pc' \in TxLabels /\ Pairs(p + 1, n)' /\ shift' = rest /\ UNCHANGED saying
      BY <2>0, <2>4 DEF Pairs, Advance120, saying
    <3> QED
      BY <2>1, <3>1 DEF Advanced
  <2>5. CASE pc = "bit7"
    <3>1. p = 7 /\ cnt = n - 1 /\ cnt' = cnt
      BY <2>0, <2>5 DEF Pairs, Advance120
    <3>2. CASE cnt # 0
      <4>1. pc' = "bitloop" /\ shift' \in Byte /\ said' = shift' /\ saidCount' = saidCount + 1
        BY <2>0, <2>5, <3>1, <3>2, BytesAssumption DEF Pairs, Advance120
      <4>2. Pairs(0, n - 1)'
        BY <3>1, <4>1 DEF Pairs
      <4> QED
        BY <2>1, <3>1, <3>2, <4>1, <4>2 DEF Advanced
    <3>3. CASE cnt = 0
      BY <2>0, <2>5, <3>1, <3>3 DEF Pairs, Advance120, Advanced
    <3> QED
      BY <3>2, <3>3
  <2> QED
    BY <2>0, <2>2, <2>3, <2>4, <2>5 DEF Pairs
<1> QED
  BY <1>1, <1>2, <1>3, <1>4, <1>5, <1>6, ClocksAssumption

\* The host hears the next bit of the byte.
BitHeard(one) ==
  /\ run' = IF one THEN run + 1 ELSE 0
  /\ IF place < 7
     THEN /\ place' = place + 1
          /\ bits' = {i \in said : i < place + 1}
          /\ UNCHANGED <<got, gotCount, left>>
     ELSE /\ got' = said /\ gotCount' = saidCount
          /\ left' = left - 1
          /\ place' = 0 /\ bits' = {}

LEMMA HostHearsBit ==
  ASSUME Sending, SendBit, HostHears(line')
  PROVE  /\ line' \in {"J", "K"}
         /\ BitHeard(0 \in shift)
         /\ saidCount = 1 /\ place = 0 => 0 \notin shift
<1> USE DEF Sending, Bit, Byte
<1>1. ~again /\ Taken = place /\ run \in 0 .. 5
  BY DEF SendBit, StuffRight, Taken
<1>2. 0 \in shift <=> place \in said
  BY <1>1
<1>3. line' \in {"J", "K"} /\ (line' = line <=> 0 \in shift)
  BY DEF SendBit, Change
<1>4. gotCount = saidCount - 1
  BY <1>1
<1>5. IF 0 \in shift THEN bits \cup {place} = {i \in said : i < place + 1}
                     ELSE bits = {i \in said : i < place + 1}
  <2>1. \A i \in said : i \in 0 .. 7 /\ (i < place + 1 <=> i < place \/ i = place)
    OBVIOUS
  <2>2. {i \in said : i < place + 1} = {i \in said : i < place} \cup (said \cap {place})
    BY <2>1
  <2>3. bits = {i \in said : i < place}
    OBVIOUS
  <2> QED
    BY <1>2, <2>2, <2>3
<1>6. place = 7 => {i \in said : i < place + 1} = said
  <2>1. place = 7 => \A i \in said : i < place + 1
    OBVIOUS
  <2> QED
    BY <2>1
<1>7. BitHeard(0 \in shift)
  <2>1. /\ run' = IF line' = line THEN run + 1 ELSE 0
        /\ LET now == IF line' = line THEN bits \cup {place} ELSE bits
           IN  IF place < 7
               THEN place' = place + 1 /\ bits' = now /\ UNCHANGED <<got, gotCount, left>>
               ELSE /\ got' = now /\ gotCount' = gotCount + 1
                    /\ left' = left - 1
                    /\ place' = 0 /\ bits' = {}
    BY <1>1, <1>3 DEF HostHears
  <2>2. CASE 0 \in shift
    BY <1>3, <1>4, <1>5, <1>6, <2>1, <2>2 DEF BitHeard
  <2>3. CASE 0 \notin shift
    BY <1>3, <1>4, <1>5, <1>6, <2>1, <2>3 DEF BitHeard
  <2> QED
    BY <2>2, <2>3
<1>8. saidCount = 1 /\ place = 0 => 0 \notin shift
  BY <1>2 DEF SyncByte
<1> QED
  BY <1>3, <1>7, <1>8

LEMMA StuffSent ==
  ASSUME Sending, SendBit, HostHears(line'), clock' = clock
  PROVE  /\ run' \in 0 .. 6
         /\ again' <=> run' = 6
         /\ IF Counting THEN ones' = 6 - run'
            ELSE /\ history' \subseteq Bit
                 /\ 8 - run' .. 7 \subseteq history'
                 /\ 7 - run' \notin history'
<1> DEFINE one == 0 \in shift
<1>1. /\ run' = IF one THEN run + 1 ELSE 0
      /\ saidCount = 1 /\ place = 0 => ~one
  BY HostHearsBit DEF BitHeard
<1>2. StuffRight /\ ~again /\ Taken = place /\ run \in 0 .. 5
  BY DEF Sending, SendBit, StuffRight, Taken
<1>3. again' = StuffDue(history', ones')
  BY DEF SendBit
<1>4. CASE Counting
  <2>1. ones = 6 - run /\ ones' = IF one THEN ones - 1 ELSE 6
    BY <1>2, <1>4 DEF SendBit, StuffRight
  <2>2. again' <=> ones' = 0
    BY <1>3, <1>4 DEF StuffDue, Counting
  <2> HIDE DEF one
  <2> QED
    BY <1>1, <1>2, <1>4, <2>1, <2>2
<1>5. CASE ~Counting
  <2>1. /\ history \subseteq Bit /\ 8 - run .. 7 \subseteq history
        /\ 7 - run \in history => ~one
    BY <1>1, <1>2, <1>5 DEF StuffRight
  <2>2. history' = Ror(history, one)
    BY <1>5 DEF SendBit
  <2>3. \A i \in Bit : i \in history' <=> i + 1 \in history \/ (i = 7 /\ one)
    <3>1. \A i \in Bit : i \in Ror(history, one) <=> i + 1 \in history \/ (i = 7 /\ one)
      BY <2>1, LsrBits DEF Ror, Bit
    <3> QED
      BY <2>2, <3>1
  <2>4. history' \subseteq Bit
    BY <2>1, <2>2 DEF Ror, Lsr, Bit
  <2> HIDE DEF one
  <2>5. 8 - run' .. 7 \subseteq history' /\ 7 - run' \notin history' /\ run' \in 0 .. 6
    <3>1. CASE one
      <4>1. run' = run + 1
        BY <1>1, <3>1
      <4>2. \A i \in 7 - run .. 7 : i \in history'
        BY <1>2, <2>1, <2>3, <3>1 DEF Bit
      <4>3. 6 - run \notin history'
        BY <1>2, <2>1, <2>3, <3>1 DEF Bit
      <4> QED
        BY <1>2, <4>1, <4>2, <4>3
    <3>2. CASE ~one
      <4>1. run' = 0 /\ 7 \notin history'
        BY <1>1, <2>1, <2>3, <3>2 DEF Bit
      <4> QED
        BY <4>1
    <3> QED
      BY <3>1, <3>2
  <2>6. again' <=> 2 .. 7 \subseteq history'
    BY <1>3, <1>5 DEF StuffDue, Counting, SixOnes
  <2>7. PICK r \in 0 .. 6 : r = run'
    BY <2>5
  <2>8. r = 6 => 2 .. 7 \subseteq history'
    BY <2>5, <2>7
  <2>9. (r < 6 => 7 - r \in 2 .. 7) /\ 7 - r \notin history'
    <3>1. r < 6 => 7 - r \in 2 .. 7
      OBVIOUS
    <3> QED
      BY <2>5, <2>7, <3>1
  <2>10. again' <=> r = 6
    BY <2>6, <2>8, <2>9
  <2> QED
    BY <1>5, <2>4, <2>5, <2>7, <2>10
<1> QED
  BY <1>4, <1>5

LEMMA ByteBegins ==
  ASSUME NEW b \in Byte
  PROVE  {i \in b : i < 0} = {} /\ {i \in Bit : i + 0 \in b} = b
<1>1. \A i \in b : i \in 0 .. 7 /\ i + 0 = i /\ ~(i < 0)
  BY DEF Byte, Bit
<1>2. \A i \in Bit : i + 0 \in b <=> i \in b
  BY <1>1 DEF Bit
<1> QED
  BY <1>1, <1>2 DEF Bit

LEMMA SendBitStep ==
  ASSUME SendInv, stage = "listen", pc \in TxLabels, SendBit, HostHears(line'),
         UNCHANGED <<clock, stage>>
  PROVE  SendInv'
<1> USE DEF Bit
<1>1. PICK p \in Bit : p = place
  BY DEF SendInv, Sending
<1>2. PICK n \in 1 .. 12 : n = left /\ saidCount \in 1 .. 13 - n
  BY DEF SendInv, Sending, SendBit, BytesLeft, Taken
<1>3. Sending /\ ~again /\ Taken = p /\ Sends(p, n) /\ clock \in Clocks
  BY <1>1, <1>2 DEF SendInv, Sending, SendBit, Taken, AtBit, BytesLeft
<1>4. /\ line' \in {"J", "K"}
      /\ IF p < 7
         THEN /\ place' = p + 1 /\ left' = n /\ gotCount' = gotCount
              /\ bits' = {i \in said : i < p + 1}
         ELSE place' = 0 /\ left' = n - 1 /\ gotCount' = saidCount /\ bits' = {}
  BY <1>1, <1>2, <1>3, HostHearsBit DEF BitHeard
<1>5. StuffRight' /\ run' \in 0 .. 6
  BY <1>3, StuffSent DEF StuffRight, Counting
<1>6. gotCount = saidCount - 1 /\ said \subseteq 0 .. 7 /\ (saidCount = 1 => said = SyncByte)
  BY <1>3 DEF Sending, Byte
<1>7. Lsr(shift) = {i \in Bit : i + (p + 1) \in said}
  <2>1. shift = {i \in Bit : i + p \in said}
    BY <1>3 DEF Sending
  <2>2. Lsr(shift) = {i \in Bit : i + 1 \in shift}
    BY <2>1, LsrBits
  <2>3. \A i \in Bit : i + 1 \in shift <=> i + (p + 1) \in said
    BY <1>6, <2>1
  <2> QED
    BY <2>2, <2>3
<1>8. CASE again'
  <2>1. shift' = Lsr(shift) /\ UNCHANGED <<pc, bitcnt, cnt, said, saidCount>>
    BY <1>8 DEF SendBit
  <2>2. Taken' = p + 1 /\ AtBit' = p /\ BytesLeft' = n
    <3>1. CASE p < 7
      <4>1. place' # 0
        BY <1>4, <3>1
      <4> QED
        BY <1>4, <1>8, <3>1, <4>1 DEF Taken, AtBit, BytesLeft
    <3>2. CASE p = 7
      BY <1>2, <1>4, <1>8, <3>2 DEF Taken, AtBit, BytesLeft
    <3> QED
      BY <3>1, <3>2
  <2>3. Sends(p, n)'
    BY <1>3, <2>1 DEF Sends, Counting, Pairs
  <2>4. bits' = {i \in said : i < place'}
    <3>1. said \in Byte
      BY <1>6 DEF Byte
    <3>2. p = 7 => place' = 0 /\ bits' = {}
      BY <1>4
    <3>3. p < 7 => place' = p + 1 /\ bits' = {i \in said : i < p + 1}
      BY <1>4
    <3> QED
      BY <3>1, <3>2, <3>3, ByteBegins
  <2>5. gotCount' = IF Taken' = 8 THEN saidCount ELSE saidCount - 1
    BY <1>4, <1>6, <2>2
  <2>6. Sending'
    BY <1>2, <1>3, <1>4, <1>5, <1>6, <1>7, <2>1, <2>2, <2>3, <2>4, <2>5 DEF Sending
  <2> QED
    BY <1>3, <2>1, <2>6 DEF SendInv, TxLabels, Ending
<1>9. CASE ~again'
  <2>1. Advanced(p, n, Lsr(shift))
    <3>1. Advance(Lsr(shift))
      BY <1>9 DEF SendBit
    <3> QED
      BY <1>2, <1>3, <3>1, Advances
  <2>2. Taken' = place' /\ AtBit' = place' /\ BytesLeft' = left'
    BY <1>4, <1>9 DEF Taken, AtBit, BytesLeft
  <2>3. CASE p < 7
    <3>1. pc' \in TxLabels /\ Sends(p + 1, n)' /\ shift' = Lsr(shift) /\ UNCHANGED saying
      BY <2>1, <2>3 DEF Advanced
    <3>2. Taken' = p + 1 /\ AtBit' = p + 1 /\ BytesLeft' = n
      BY <1>4, <2>2, <2>3
    <3>3. Sending'
      BY <1>2, <1>3, <1>4, <1>5, <1>6, <1>7, <2>3, <3>1, <3>2 DEF Sending, saying
    <3> QED
      BY <1>3, <3>1, <3>3 DEF SendInv, TxLabels, Ending
  <2>4. CASE p = 7 /\ n > 1
    <3>1. /\ pc' \in TxLabels /\ Sends(0, n - 1)'
          /\ said' \in Byte /\ shift' = said' /\ saidCount' = saidCount + 1
      BY <2>1, <2>4 DEF Advanced
    <3>2. Taken' = 0 /\ AtBit' = 0 /\ BytesLeft' = n - 1
      BY <1>4, <2>2, <2>4
    <3>3. shift' = {i \in Bit : i + 0 \in said'} /\ bits' = {i \in said' : i < 0}
      BY <1>4, <2>4, <3>1, ByteBegins
    <3>4. Sending'
      BY <1>2, <1>3, <1>4, <1>5, <1>6, <2>4, <3>1, <3>2, <3>3 DEF Sending
    <3> QED
      BY <1>3, <3>1, <3>4 DEF SendInv, TxLabels, Ending
  <2>5. CASE p = 7 /\ n = 1
    BY <1>2, <1>3, <1>4, <1>5, <2>1, <2>5 DEF Advanced, SendInv, TxLabels, Ending
  <2> QED
    BY <1>2, <2>3, <2>4, <2>5
<1> QED
  BY <1>8, <1>9

LEMMA SendStuffedStep ==
  ASSUME SendInv, stage = "listen", pc \in TxLabels, SendStuffed, HostHears(line'),
         UNCHANGED <<clock, stage>>
  PROVE  SendInv'
<1> USE DEF Bit
<1>1. Sending /\ again /\ run = 6 /\ clock \in Clocks
  BY DEF SendInv, SendStuffed, Sending, StuffRight
<1>2. PICK p \in Bit : p = AtBit
  BY <1>1 DEF Sending, AtBit, Taken
<1>3. PICK n \in 1 .. 12 : n = BytesLeft /\ saidCount \in 1 .. 13 - n
  BY <1>1 DEF Sending, BytesLeft
<1>4. Taken = p + 1 /\ place = (IF p = 7 THEN 0 ELSE p + 1) /\ left = (IF p = 7 THEN n - 1 ELSE n)
  BY <1>1, <1>2, <1>3 DEF Sending, AtBit, Taken, BytesLeft
<1>5. line' \in {"J", "K"} /\ run' = 0 /\ UNCHANGED <<gotCount, left, place, bits>>
  BY <1>1 DEF Sending, SendStuffed, HostHears, Change
<1>6. StuffRight'
  BY <1>1, <1>5 DEF SendStuffed, StuffRight, Counting
<1>7. Advanced(p, n, shift)
  BY <1>1, <1>2, <1>3, Advances DEF SendStuffed, Sending
<1>8. Taken' = place /\ AtBit' = place /\ BytesLeft' = left
  BY <1>1, <1>5 DEF Taken, AtBit, BytesLeft, SendStuffed, Sending
<1>9. gotCount = (IF p = 7 THEN saidCount ELSE saidCount - 1)
  BY <1>1, <1>4 DEF Sending
<1>10. CASE p < 7
  <2>1. pc' \in TxLabels /\ Sends(p + 1, n)' /\ shift' = shift /\ UNCHANGED saying
    BY <1>7, <1>10 DEF Advanced
  <2>2. Taken' = p + 1 /\ AtBit' = p + 1 /\ BytesLeft' = n
    BY <1>4, <1>8, <1>10
  <2>3. Sending'
    BY <1>1, <1>3, <1>4, <1>5, <1>6, <1>9, <1>10, <2>1, <2>2 DEF Sending, saying
  <2> QED
    BY <1>1, <2>1, <2>3 DEF SendInv, TxLabels, Ending
<1>11. CASE p = 7 /\ n > 1
  <2>1. /\ pc' \in TxLabels /\ Sends(0, n - 1)'
        /\ said' \in Byte /\ shift' = said' /\ saidCount' = saidCount + 1
    BY <1>7, <1>11 DEF Advanced
  <2>2. Taken' = 0 /\ AtBit' = 0 /\ BytesLeft' = n - 1
    BY <1>4, <1>8, <1>11
  <2>3. bits = {}
    <3>1. place = 0 /\ said \in Byte /\ bits = {i \in said : i < place}
      BY <1>1, <1>4, <1>11 DEF Sending
    <3> QED
      BY <3>1, ByteBegins
  <2>4. shift' = {i \in Bit : i + 0 \in said'} /\ bits' = {i \in said' : i < 0}
    BY <1>5, <2>1, <2>3, ByteBegins
  <2>5. Sending'
    BY <1>1, <1>3, <1>4, <1>5, <1>6, <1>9, <1>11, <2>1, <2>2, <2>4 DEF Sending
  <2> QED
    BY <1>1, <2>1, <2>5 DEF SendInv, TxLabels, Ending
<1>12. CASE p = 7 /\ n = 1
  BY <1>1, <1>3, <1>4, <1>5, <1>7, <1>9, <1>12 DEF Advanced, SendInv, TxLabels, Ending
<1> QED
  BY <1>3, <1>10, <1>11, <1>12

LEMMA EndPacketStep ==
  ASSUME SendInv, stage = "listen", EndPacket, HostHears(line'), UNCHANGED <<clock, stage>>
  PROVE  SendInv'
<1>1. pc \in {"makeSE0", "se0Delay", "releaseBus"}
  BY DEF EndPacket
<1>2. left = 0 /\ place = 0 /\ run \in 0 .. 6 /\ gotCount \in Nat
  BY <1>1 DEF SendInv, Ending
<1>3. pc = "releaseBus" => line = "SE0"
  BY DEF SendInv, Ending
<1>4. UNCHANGED <<left, place, run, gotCount>>
  BY <1>1, <1>3 DEF EndPacket, HostHears
<1>5. pc' \in Ending /\ (pc' \in {"se0Delay", "releaseBus"} => line' = "SE0")
  BY DEF EndPacket, Ending
<1>6. pc' \notin TxLabels
  BY <1>5 DEF Ending, TxLabels
<1> QED
  BY <1>2, <1>4, <1>5, <1>6 DEF SendInv

LEMMA AnswerStep ==
  ASSUME SendInv, Answer
  PROVE  SendInv'
<1>1. pc = "se0" /\ stage # "listen" /\ bits = {} /\ clock \in Clocks /\ clock' = clock
  BY DEF SendInv, Answer, TxLabels, Ending
<1>2. PICK bytes \in 2 .. 12 : usbSendAndReti(bytes) /\ left' = bytes
  BY DEF Answer
<1>3. /\ pc' = "bitloop" /\ cnt' = bytes /\ shift' = SyncByte /\ said' = SyncByte
      /\ saidCount' = 1 /\ history' \subseteq Bit /\ ones' = 6 /\ ~again' /\ line' = "J"
  BY <1>2 DEF usbSendAndReti
<1>4. stage' = "listen" /\ gotCount' = 0 /\ place' = 0 /\ run' = 0 /\ bits' = {}
  BY <1>1 DEF Answer
<1>5. Taken' = 0 /\ AtBit' = 0 /\ BytesLeft' = bytes
  BY <1>2, <1>3, <1>4 DEF Taken, AtBit, BytesLeft
<1>6. Sends(0, bytes)'
  BY <1>1, <1>2, <1>3 DEF usbSendAndReti, Sends, Pairs, Counting, SevenRounds
<1>7. StuffRight'
  BY <1>3, <1>4, <1>5 DEF StuffRight, Counting
<1>8. SyncByte \in Byte
  BY DEF SyncByte, Byte, Bit
<1>9. shift' = {i \in Bit : i + Taken' \in said'} /\ bits' = {i \in said' : i < place'}
  BY <1>3, <1>4, <1>5, <1>8, ByteBegins
<1>10. Sending'
  BY <1>2, <1>3, <1>4, <1>5, <1>6, <1>7, <1>8, <1>9 DEF Sending, Bit
<1> QED
  BY <1>1, <1>3, <1>4, <1>10 DEF SendInv, TxLabels, Ending

LEMMA SendStep == SendInv /\ [Next]_vars => SendInv'
<1> SUFFICES ASSUME SendInv, [Next]_vars PROVE SendInv'
  OBVIOUS
<1>1. CASE HostPacket
  BY <1>1 DEF HostPacket, SendInv, TxLabels, Ending
<1>2. CASE Receive
  <2>1. stage # "listen" /\ stage' # "listen" /\ clock' = clock /\ bits' = bits
    BY <1>2 DEF Receive, HostSync, HostData, HostBreaks
  <2> QED
    BY <2>1 DEF SendInv
<1>3. CASE Answer
  BY <1>3, AnswerStep
<1>4. CASE Send
  <2>1. SendBit => pc \in TxLabels
    BY DEF SendBit
  <2>2. SendStuffed => pc \in TxLabels
    BY DEF SendStuffed
  <2> QED
    BY <1>4, <2>1, <2>2, SendBitStep, SendStuffedStep, EndPacketStep DEF Send, Transmit
<1>5. CASE Return
  BY <1>5 DEF Return, SendInv
<1>6. CASE UNCHANGED vars
  <2>1. UNCHANGED <<clock, pc, line, shift, again, cnt, history, ones, bitcnt, said, saidCount,
                    gotCount, stage, left, place, run, bits>>
    BY <1>6 DEF vars, hostVars, heard, saying
  <2>2. Taken' = Taken /\ AtBit' = AtBit /\ BytesLeft' = BytesLeft
    BY <2>1 DEF Taken, AtBit, BytesLeft
  <2>3. Sends(AtBit, BytesLeft) => Sends(AtBit, BytesLeft)'
    BY <2>1, <2>2 DEF Sends, Pairs, Counting
  <2>4. StuffRight => StuffRight'
    BY <2>1, <2>2 DEF StuffRight, Counting
  <2>5. Sending => Sending'
    BY <2>1, <2>2, <2>3, <2>4 DEF Sending
  <2> QED
    BY <2>1, <2>5 DEF SendInv
<1> QED
  BY <1>1, <1>2, <1>3, <1>4, <1>5, <1>6 DEF Next

LEMMA SendAlways == Spec => []SendInv
<1>1. Init => SendInv
  BY DEF Init, SendInv
<1> QED
  BY <1>1, SendStep, PTL DEF Spec

\* At each clock and for any bytes the host can follow what is sent, in which no seven
\* bits are without a change, and when the end is sent it has heard as many whole
\* bytes as usbSendAndReti was told to send.
THEOREM AnswersHeard == Spec => []AnswersWhole
<1>1. SendInv => AnswersWhole
  <2>1. SendInv /\ stage = "listen" /\ pc \in TxLabels => AnswersWhole
    BY DEF SendInv, AnswersWhole, Sending, StuffRight
  <2>2. SendInv /\ stage = "listen" /\ pc \in Ending => AnswersWhole
    BY DEF SendInv, AnswersWhole
  <2> QED
    BY <2>1, <2>2 DEF SendInv, AnswersWhole
<1> QED
  BY <1>1, SendAlways, PTL

\* Each byte the host hears is the one that is being sent: the bits of each are sent
\* in order, all of them and each once, wherever bits are stuffed.
THEOREM BytesHeard ==
  Spec => [][stage = "listen" /\ gotCount' > gotCount =>
               got' = said /\ gotCount' = saidCount]_vars
<1>1. SendInv /\ [Next]_vars =>
        [stage = "listen" /\ gotCount' > gotCount => got' = said /\ gotCount' = saidCount]_vars
  <2> SUFFICES ASSUME SendInv, Next, stage = "listen", gotCount' > gotCount
               PROVE  got' = said /\ gotCount' = saidCount
    OBVIOUS
  <2>1. gotCount \in Nat
    BY DEF SendInv, Sending, Taken
  <2>2. CASE Send
    <3>1. CASE SendBit
      <4>1. Sending /\ HostHears(line')
        BY <2>2, <3>1 DEF SendInv, SendBit, Send
      <4>2. BitHeard(0 \in shift)
        BY <3>1, <4>1, HostHearsBit
      <4> QED
        BY <2>1, <4>2 DEF BitHeard
    <3>2. CASE SendStuffed
      <4>1. Sending /\ again /\ run = 6
        BY <3>2 DEF SendInv, SendStuffed, Sending, StuffRight
      <4>2. gotCount' = gotCount
        BY <2>2, <3>2, <4>1 DEF Sending, SendStuffed, HostHears, Change, Send
      <4> QED
        BY <2>1, <4>2
    <3>3. CASE EndPacket
      <4>1. gotCount' = gotCount
        BY <2>2, <3>3 DEF EndPacket, HostHears, Send, SendInv, Ending
      <4> QED
        BY <2>1, <4>1
    <3> QED
      BY <2>2, <3>1, <3>2, <3>3 DEF Send, Transmit
  <2>3. CASE HostPacket \/ Return
    BY <2>1, <2>3 DEF HostPacket, Return
  <2>4. CASE Receive \/ Answer
    BY <2>4 DEF Receive, HostSync, HostData, HostBreaks, Answer, SendInv, TxLabels, Ending
  <2> QED
    BY <2>2, <2>3, <2>4 DEF Next
<1> QED
  BY <1>1, SendAlways, PTL DEF Spec

-----------------------------------------------------------------------------
(* What is received was sent *)

\* The four high bits of a PID are the complement of the four low ones: with the 1 the
\* sync byte ends with there are never six 1s in or before it.
RealPids == \A p \in Pids : \A i \in 0 .. 3 : i \in p <=> i + 4 \notin p

\* What the handler waits for while the host sends the sync byte.
Synchronising ==
  /\ place \in 0 .. 7 /\ saidCount = 0 /\ left \in Nat /\ left >= 1
  /\ \/ pc = "waitForJ" /\ place \in 0 .. 5 /\ cnt = 3
     \/ pc = "waitForJ" /\ place \in {1, 3, 5} /\ cnt = 2
     \/ pc = "waitForK" /\ place \in {2, 4, 6}
     \/ pc = "foundK" /\ place \in {3, 5, 7} /\ line = "K"

\* The bits of a byte that the host sent, and the 1s since the last change: in a PID
\* they may begin with the sync byte.
Saying ==
  /\ line \in {"J", "K"} /\ place \in 1 .. 8 /\ run \in 0 .. 6
  /\ left \in Nat /\ saidCount \in Nat
  /\ saidCount = 0 => place = 8 /\ run = 1 /\ line = "K" /\ left >= 1
  /\ saidCount > 0 => said \in Byte /\ (run > 0 => place - 1 \in said)
  /\ saidCount = 1 =>
       /\ said \in Pids
       /\ \/ run = place + 1 /\ 0 .. place - 1 \subseteq said
          \/ run < place /\ place - run .. place - 1 \subseteq said /\ place - run - 1 \notin said

\* The register holds a 1 for each change of the last six bits: those hidden from the next
\* look count as changes, as do the bits of the sync byte.
SeenRun == IF saidCount = 0 \/ (saidCount = 1 /\ run = place + 1) THEN run - 1 ELSE run
Back(d) == IF d <= bit THEN bit - d ELSE bit - d + 8
Window ==
  /\ \A d \in 0 .. 5 : d < SeenRun => Back(d) \notin shift
  /\ SeenRun <= 5 => Back(SeenRun) \in shift
  /\ bit < 6 => bit + 1 \notin shift /\ bit + 2 \notin shift
  /\ bit = 6 => 7 \notin shift
\* With those put right the register holds the byte.
Decoded ==
  /\ shift \subseteq Bit /\ x3 \subseteq Bit /\ bit \in x3 \cup shift
  /\ \A i \in Bit :
       IF i > bit THEN i \in x3
       ELSE saidCount = 0 \/ (i \in Xor(x3, shift) <=> i \in said)

Loop ==
  /\ pc = "rxLoop" /\ bit = place - 1
  /\ gotCount = IF place = 8 /\ run < 6 THEN saidCount ELSE saidCount - 1
  /\ Window /\ Decoded

PidLoop180 ==
  LET j == IF saidCount = 0 THEN 0 ELSE place IN
  /\ pc = IF j = 0 THEN "pid" ELSE "bitloopPid"
  /\ saidCount <= 1 /\ j <= 7
  /\ shift = {i \in Bit : i = 7 - j \/ (i >= 8 - j /\ i - 8 + j \notin said)}
  /\ x3 = Bit /\ bit = 7

DataLoop180 ==
  /\ pc = "rxDataStart" /\ bit = place - 1
  /\ saidCount > 0 /\ (saidCount = 1 => place = 8)
  /\ gotCount = saidCount - 1
  /\ again => run < 6
  /\ Window /\ Decoded

\* At 16 MHz the bits leave at the bottom of shift; what x3 puts right moves two
\* places at a time.
Place160 ==
  <<place, pc, bitcnt + saidCount>> \in
    {<<1, "odd", 86>>, <<2, "even", 171>>, <<3, "odd", 171>>, <<4, "even", 256>>, <<5, "odd", 256>>,
     <<6, "bit6", 85>>, <<7, "bit7", 85>>, <<8, "bit0", 85>>}
Offset ==
  IF place >= 6 THEN 0
  ELSE IF pc = "odd" THEN (IF SixOnes(shift) THEN 7 ELSE 5) - place
  ELSE 6 - place
DecodedAt(p, off, r, x, byte) ==
  /\ \A i \in 0 .. p - 1 : (i + 8 - p \in r <=> i + off \in x) <=> i \notin byte
  /\ \A i \in Bit : i >= p + off => i \notin x
RunAt(n, r) ==
  /\ \A d \in 0 .. 5 : d < n => 7 - d \in r
  /\ n <= 5 => 7 - n \notin r
Loop160Inv ==
  /\ shift \subseteq Bit /\ x3 \subseteq Bit
  /\ saidCount = 0 => pc = "first" /\ shift = {} /\ x3 = {4} /\ bitcnt = 85
  /\ saidCount > 0 =>
       /\ Place160 /\ bitcnt \in Nat
       /\ gotCount = IF place = 8 /\ run < 6 THEN saidCount ELSE saidCount - 1
       /\ place < 8 \/ run = 6 => DecodedAt(place, Offset, shift, x3, said)
       /\ saidCount = 1 /\ place < 8 => x3 = {Offset} /\ shift \subseteq 8 - place .. 7
       /\ saidCount > 1 \/ place = 8 => RunAt(run, shift)

Loop200Inv ==
  /\ bitcnt = 6 - run
  /\ IF place = 8 THEN pc = "bit0" /\ shift = {6} /\ gotCount = saidCount
     ELSE /\ pc = IF place = 7 THEN "bit7" ELSE "bitloop"
          /\ gotCount = saidCount - 1
          /\ shift = {i \in Bit : i = 6 - place \/ (i >= 8 - place /\ i - 8 + place \in said)}

InByte ==
  /\ last = line
  /\ clock \in Unrolled => Loop
  /\ clock = 160 => Loop160Inv
  /\ clock = 180 => PidLoop180 \/ DataLoop180
  /\ clock = 200 => Loop200Inv

\* The first of the two bits of SE0 was sampled, and the next is looked at.
InEnd ==
  /\ left = 0 /\ gotCount = saidCount
  /\ line = "SE0" /\ last = "SE0"
  /\ clock \in Unrolled => pc = "rxLoop" /\ bit = 0 /\ ~again /\ saidCount > 0
  /\ clock = 160 => pc = "odd"
  /\ clock = 180 => pc = "rxDataStart" /\ bit = 0
  /\ clock = 200 => pc = "bitloop" /\ bitcnt = 6

DecodeInv ==
  /\ stage = "sync" => Synchronising
  /\ stage = "data" => \/ pc = "overflow" /\ saidCount > USB_BUFSIZE
                       \/ pc \in Receiving /\ Saying /\ InByte
                       \/ pc \in Receiving /\ place = 9 /\ run # 6 /\ InEnd
  /\ stage = "over" => pc = "se0" /\ gotCount = saidCount /\ cnt = USB_BUFSIZE - saidCount

LEMMA PidRun ==
  RealPids /\ Saying /\ saidCount <= 1 => run <= 5 /\ (saidCount = 1 /\ place = 8 => run <= 4)
<1> SUFFICES ASSUME RealPids, Saying, saidCount <= 1
             PROVE  run <= 5 /\ (saidCount = 1 /\ place = 8 => run <= 4)
  OBVIOUS
<1>1. CASE saidCount = 0
  BY <1>1 DEF Saying
<1>2. CASE saidCount = 1 /\ run = place + 1 /\ 0 .. place - 1 \subseteq said
  <2>1. said \in Pids /\ place \in 1 .. 8
    BY <1>2 DEF Saying
  <2>2. ~(0 \in said /\ 4 \in said)
    BY <2>1 DEF RealPids
  <2>3. place < 5
    BY <1>2, <2>1, <2>2
  <2> QED
    BY <1>2, <2>1, <2>3
<1>3. CASE saidCount = 1 /\ run < place /\ place - run .. place - 1 \subseteq said
  <2>1. said \in Pids /\ place \in 1 .. 8 /\ run \in 0 .. 6
    BY <1>3 DEF Saying
  <2>2. CASE run >= 5
    <3>1. /\ place - run \in 0 .. 3 /\ place - run + 4 \in place - run .. place - 1
          /\ place - run \in place - run .. place - 1
      BY <1>3, <2>1, <2>2
    <3> QED
      BY <1>3, <2>1, <3>1 DEF RealPids
  <2> QED
    BY <2>1, <2>2
<1> QED
  BY <1>1, <1>2, <1>3 DEF Saying

LEMMA PidEnd ==
  RealPids /\ Saying /\ saidCount = 1 /\ place = 8 =>
    \E r \in 0 .. 4 : r = run /\ 8 - r .. 7 \subseteq said /\ 7 - r \notin said
<1> SUFFICES ASSUME RealPids, Saying, saidCount = 1, place = 8
             PROVE  \E r \in 0 .. 4 : r = run /\ 8 - r .. 7 \subseteq said /\ 7 - r \notin said
  OBVIOUS
<1>1. PICK r \in 0 .. 4 : r = run
  BY PidRun DEF Saying
<1>2. 8 - r .. 8 - 1 \subseteq said /\ 8 - r - 1 \notin said
  BY <1>1 DEF Saying
<1>3. 8 - 1 = 7 /\ 8 - r - 1 = 7 - r
  BY <1>1
<1> QED
  BY <1>1, <1>2, <1>3

\* What the host says: a stuffed bit; the next bit, of this byte or another; or the end.
SaysStuffed(s) ==
  /\ run = 6 /\ saidCount > 1
  /\ s = Change(line) /\ run' = 0
  /\ UNCHANGED <<left, place, saying>>
SaysBit(s, one) ==
  /\ run < 6
  /\ s = IF one THEN line ELSE Change(line)
  /\ run' = IF one THEN run + 1 ELSE 0
  /\ IF place < 8 THEN place' = place + 1 /\ UNCHANGED saying
                  ELSE place' = 1 /\ saidCount' = saidCount + 1 /\ said' \in Byte
  /\ one <=> place' - 1 \in said'
SaysEnd(s) ==
  /\ run < 6 /\ place = 8 /\ place' = 9 /\ left = 0 /\ saidCount > 0
  /\ s = "SE0"
  /\ UNCHANGED <<left, run, saying>>

LEMMA HostSays ==
  ASSUME RealPids, Saying, stage = "data", NEW s, HostData(s), line' = s
  PROVE  \/ SaysStuffed(s) /\ Saying'
         \/ (\E one \in BOOLEAN : SaysBit(s, one)) /\ Saying'
         \/ SaysEnd(s)
<1>0. line \in {"J", "K"} /\ Change(line) \in {"J", "K"} /\ place \in 1 .. 8 /\ run \in 0 .. 6
  BY DEF Saying, Change
<1>1. CASE run = 6
  <2>1. saidCount > 1
    BY <1>1, PidRun DEF Saying
  <2>2. s = Change(line) /\ run' = 0 /\ UNCHANGED <<left, place, saying>>
    BY <1>1 DEF HostData
  <2>3. UNCHANGED <<said, saidCount>>
    BY <2>2 DEF saying
  <2> QED
    BY <1>0, <1>1, <2>1, <2>2, <2>3 DEF SaysStuffed, Saying
<1>2. CASE run < 6 /\ place < 8
  <2> DEFINE one == place \in said
  <2>1. OneBit(said, place, s) /\ UNCHANGED <<left, saying>>
    BY <1>2 DEF HostData
  <2>2. /\ s = (IF one THEN line ELSE Change(line)) /\ place' = place + 1
        /\ run' = (IF one THEN run + 1 ELSE 0) /\ said' = said /\ saidCount' = saidCount /\
           left' = left
    BY <2>1 DEF OneBit, saying
  <2>3. \E o \in BOOLEAN : SaysBit(s, o)
    <3>1. CASE one
      <4>1. SaysBit(s, TRUE)
        BY <1>0, <1>2, <2>1, <2>2, <3>1 DEF SaysBit
      <4> QED
        BY <4>1
    <3>2. CASE ~one
      <4>1. SaysBit(s, FALSE)
        BY <1>0, <1>2, <2>1, <2>2, <3>2 DEF SaysBit
      <4> QED
        BY <4>1
    <3> QED
      BY <3>1, <3>2
  <2>4. saidCount > 0 /\ saidCount \in Nat /\ said \in Byte /\ left \in Nat
    BY <1>2 DEF Saying
  <2>5. ASSUME saidCount = 1
        PROVE  \/ run' = place' + 1 /\ 0 .. place' - 1 \subseteq said
               \/ run' < place' /\ place' - run' .. place' - 1 \subseteq said /\
                  place' - run' - 1 \notin said
    <3>1. CASE ~one
      BY <1>0, <2>2, <3>1
    <3>2. CASE one /\ run = place + 1 /\ 0 .. place - 1 \subseteq said
      <4>1. \A i \in 0 .. place : i = place \/ i \in 0 .. place - 1
        BY <1>0
      <4> QED
        BY <1>0, <2>2, <3>2, <4>1
    <3>3. CASE one /\ run < place /\ place - run .. place - 1 \subseteq said /\
            place - run - 1 \notin said
      <4>1. \A i \in place - run .. place : i = place \/ i \in place - run .. place - 1
        BY <1>0
      <4>2. run' = run + 1 /\ place' = place + 1
        BY <2>2, <3>3
      <4>3. place' - run' = place - run /\ place' - 1 = place
        BY <1>0, <4>2
      <4> QED
        BY <1>0, <3>3, <4>1, <4>2, <4>3
    <3> QED
      BY <2>5, <3>1, <3>2, <3>3 DEF Saying
  <2>6. said \in Pids \/ saidCount # 1
    BY DEF Saying
  <2>7. run' > 0 => place' - 1 \in said'
    BY <1>0, <2>2
  <2> HIDE DEF one
  <2>8. Saying'
    BY <1>0, <1>2, <2>2, <2>4, <2>5, <2>6, <2>7 DEF Saying
  <2> QED
    BY <2>3, <2>8
<1>3. CASE run < 6 /\ place = 8 /\ left > 0
  <2> DEFINE one == 0 \in said'
  <2>1. /\ said' \in IF saidCount = 0 THEN Pids ELSE Contents
        /\ OneBit(said', 0, s) /\ saidCount' = saidCount + 1 /\ left' = left - 1
    BY <1>3 DEF HostData, Saying
  <2>2. /\ s = (IF one THEN line ELSE Change(line)) /\ place' = 1
        /\ run' = (IF one THEN run + 1 ELSE 0) /\ said' \in Byte
    BY <2>1, BytesAssumption DEF OneBit
  <2>3. \E o \in BOOLEAN : SaysBit(s, o)
    <3>1. CASE one
      <4>1. SaysBit(s, TRUE)
        BY <1>0, <1>3, <2>1, <2>2, <3>1 DEF SaysBit
      <4> QED
        BY <4>1
    <3>2. CASE ~one
      <4>1. SaysBit(s, FALSE)
        BY <1>0, <1>3, <2>1, <2>2, <3>2 DEF SaysBit
      <4> QED
        BY <4>1
    <3> QED
      BY <3>1, <3>2
  <2>4. saidCount \in Nat /\ left \in Nat /\ (saidCount = 0 => run = 1)
    BY <1>3 DEF Saying
  <2>5. saidCount' = 1 =>
          /\ said' \in Pids
          /\ IF one THEN run' = place' + 1 /\ 0 .. place' - 1 \subseteq said'
             ELSE /\ run' < place'
                  /\ place' - run' .. place' - 1 \subseteq said'
                  /\ place' - run' - 1 \notin said'
    BY <1>0, <2>1, <2>2, <2>4
  <2>6. run' > 0 => place' - 1 \in said'
    BY <2>2
  <2> HIDE DEF one
  <2>7. Saying'
    BY <1>0, <1>3, <2>1, <2>2, <2>4, <2>5, <2>6 DEF Saying
  <2> QED
    BY <2>3, <2>7
<1>4. CASE run < 6 /\ place = 8 /\ left = 0
  <2>1. saidCount > 0
    BY <1>4 DEF Saying
  <2> QED
    BY <1>4, <2>1 DEF HostData, SaysEnd
<1> QED
  BY <1>0, <1>1, <1>2, <1>3, <1>4 DEF Saying

LEMMA SeenRunRange == RealPids /\ Saying => SeenRun \in 0 .. 6 /\ (SeenRun = 6 <=> run = 6)
BY PidRun DEF Saying, SeenRun

LEMMA SeenRunKept ==
  ASSUME RealPids, Saying, NEW s
  PROVE  /\ SeenRun \in 0 .. 6 /\ (SeenRun = 6 <=> run = 6)
         /\ SaysStuffed(s) => SeenRun' = 0
         /\ \A one \in BOOLEAN : SaysBit(s, one) => SeenRun' = IF one THEN SeenRun + 1 ELSE 0
<1>1. /\ run \in 0 .. 6 /\ saidCount \in Nat /\ place \in 1 .. 8
      /\ saidCount = 0 => run = 1 /\ place = 8
      /\ saidCount = 1 => run = place + 1 \/ run < place
      /\ saidCount <= 1 => run <= 5
      /\ saidCount = 1 /\ place = 8 => run <= 4
  BY PidRun DEF Saying
<1>2. SaysStuffed(s) => SeenRun' = 0
  BY <1>1 DEF SaysStuffed, SeenRun, saying
<1>3. ASSUME NEW one \in BOOLEAN, SaysBit(s, one)
      PROVE  SeenRun' = IF one THEN SeenRun + 1 ELSE 0
  <2>1. CASE place < 8
    <3>1. place' = place + 1 /\ saidCount' = saidCount /\ run' = IF one THEN run + 1 ELSE 0
      BY <1>3, <2>1 DEF SaysBit, saying
    <3> QED
      BY <1>1, <2>1, <3>1 DEF SeenRun
  <2>2. CASE place = 8
    <3>1. place' = 1 /\ saidCount' = saidCount + 1 /\ run' = IF one THEN run + 1 ELSE 0
      BY <1>3, <2>2 DEF SaysBit
    <3> QED
      BY <1>1, <2>2, <3>1 DEF SeenRun
  <2> QED
    BY <1>1, <2>1, <2>2
<1> QED
  BY <1>1, <1>2, <1>3 DEF SeenRun

\* shift is looked at for six 1s: the place of each of the last six bits in it, and those
\* that do not count.
LEMMA WindowStuffed ==
  ASSUME Window, Decoded, bit \in Bit, SeenRun \in 0 .. 6
  PROVE  StuffedNext(bit, shift) <=> SeenRun = 6
<1> USE DEF Bit
<1>1. CASE SeenRun <= 5
  <2>1. Back(SeenRun) \in shift /\ Back(SeenRun) > bit - 6
    BY <1>1 DEF Window, Back
  <2> QED
    BY <1>1, <2>1 DEF StuffedNext
<1>2. CASE SeenRun = 6
  <2>1. \A d \in 0 .. 5 : Back(d) \notin shift
    BY <1>2 DEF Window
  <2>2. ASSUME NEW i \in shift PROVE i \in 0 .. bit - 6
    <3>1. i \in 0 .. 7
      BY DEF Decoded
    <3>2. CASE i <= bit
      <4>1. bit - i > 5
        <5>1. bit - i \in 0 .. 5 => Back(bit - i) = i
          BY <3>1, <3>2 DEF Back
        <5> QED
          BY <2>1, <2>2, <3>1, <3>2, <5>1
      <4> QED
        BY <3>1, <4>1
    <3>3. CASE i > bit
      <4>1. bit < 6 => i # bit + 1 /\ i # bit + 2
        BY <2>2 DEF Window
      <4>2. bit = 6 => i # 7
        BY <2>2 DEF Window
      <4>3. bit + 8 - i \in 0 .. 5
        BY <3>1, <3>3, <4>1, <4>2
      <4>4. Back(bit + 8 - i) = i
        BY <3>1, <3>3 DEF Back
      <4> QED
        BY <2>1, <2>2, <4>3, <4>4
    <3> QED
      BY <3>1, <3>2, <3>3
  <2> QED
    BY <1>2, <2>2 DEF StuffedNext
<1> QED
  BY <1>1, <1>2

\* A bit is loaded: shift loses bit k, or gets it, and the two to come.
Loaded(k, one) ==
  shift' = (IF one THEN shift \ {k} ELSE shift \cup {k}) \cap Keep(k)

LEMMA WindowBit ==
  ASSUME Window, Decoded, bit \in Bit, bit' = (bit + 1) % 8, NEW one \in BOOLEAN, Loaded(bit', one),
         SeenRun \in 0 .. 5, SeenRun' = IF one THEN SeenRun + 1 ELSE 0
  PROVE  Window'
<1> USE DEF Bit
<1>1. PICK k \in 0 .. 7 : k = bit' /\ k = IF bit = 7 THEN 0 ELSE bit + 1
  OBVIOUS
<1>2. \A i \in 0 .. 7 : i \in shift' <=>
        /\ IF i = k THEN ~one ELSE i \in shift
        /\ k < 6 => i # k + 1 /\ i # k + 2
  BY <1>1 DEF Loaded, Keep
<1>3. \A d \in 0 .. 4 : /\ Back(d + 1)' = Back(d) /\ Back(d) \in 0 .. 7 /\ Back(d) # k
                        /\ k < 6 => Back(d) # k + 1 /\ Back(d) # k + 2
  BY <1>1 DEF Back
<1>4. \A d \in 0 .. 4 : Back(d + 1)' \in shift' <=> Back(d) \in shift
  BY <1>2, <1>3
<1>5. Back(0)' = k /\ (k \in shift' <=> ~one)
  BY <1>1, <1>2 DEF Back
<1>6. (bit' < 6 => bit' + 1 \notin shift' /\ bit' + 2 \notin shift') /\
      (bit' = 6 => 7 \notin shift')
  <2>1. k < 6 => k + 1 \notin shift' /\ k + 2 \notin shift'
    BY <1>2
  <2>2. k = 6 => 7 \notin shift'
    <3>1. k = 6 => bit = 5
      BY <1>1
    <3>2. bit = 5 => 7 \notin shift
      BY DEF Window
    <3> QED
      BY <1>2, <3>1, <3>2
  <2> QED
    BY <1>1, <2>1, <2>2
<1>7. CASE one
  <2>1. PICK n \in 0 .. 5 : n = SeenRun /\ SeenRun' = n + 1
    BY <1>7
  <2>2. \A d \in 0 .. 5 : d < n + 1 => Back(d)' \notin shift'
    <3> SUFFICES ASSUME NEW d \in 0 .. 5, d < n + 1 PROVE Back(d)' \notin shift'
      OBVIOUS
    <3>1. CASE d = 0
      BY <1>5, <1>7, <3>1
    <3>2. CASE d > 0
      <4>1. PICK e \in 0 .. 4 : d = e + 1
        BY <3>2
      <4>2. e < SeenRun
        BY <2>1, <4>1
      <4>3. Back(e) \notin shift
        BY <4>2 DEF Window
      <4> QED
        BY <1>4, <4>1, <4>3
    <3> QED
      BY <3>1, <3>2
  <2>3. n + 1 <= 5 => Back(n + 1)' \in shift'
    <3>1. n <= 4 => Back(n) \in shift
      BY <2>1 DEF Window
    <3> QED
      BY <1>4, <2>1, <3>1
  <2> QED
    BY <1>6, <2>1, <2>2, <2>3 DEF Window
<1>8. CASE ~one
  <2>1. SeenRun' = 0
    BY <1>8
  <2> QED
    BY <1>5, <1>6, <1>8, <2>1 DEF Window
<1> QED
  BY <1>7, <1>8

LEMMA WindowHide ==
  ASSUME Window, bit \in Bit, bit' = bit, shift' = shift \cup {bit}, SeenRun' = 0
  PROVE  Window'
<1>1. Back(0)' = bit
  BY DEF Back, Bit
<1>2. (bit < 6 => bit + 1 \notin shift' /\ bit + 2 \notin shift') /\ (bit = 6 => 7 \notin shift')
  BY DEF Window, Bit
<1> QED
  BY <1>1, <1>2 DEF Window

LEMMA DecodedBit ==
  ASSUME Decoded, bit \in Bit, bit' = (bit + 1) % 8, NEW one \in BOOLEAN, Loaded(bit', one),
         x3' = IF bit' = 0 THEN Bit ELSE x3,
         one <=> bit' \in said',
         bit' # 0 => saidCount > 0 /\ said' = said
  PROVE  Decoded'
<1> USE DEF Bit
<1>1. PICK k \in 0 .. 7 : k = bit' /\ k = IF bit = 7 THEN 0 ELSE bit + 1
  OBVIOUS
<1>2. \A i \in 0 .. 7 : i \in shift' <=>
        /\ IF i = k THEN ~one ELSE i \in shift
        /\ k < 6 => i # k + 1 /\ i # k + 2
  BY <1>1 DEF Loaded, Keep
<1>3. shift' \subseteq Bit /\ x3' \subseteq Bit /\ x3 \subseteq Bit
  BY <1>1 DEF Decoded, Loaded, Keep
<1>4. \A i \in 0 .. 7 : i >= k => i \in x3'
  BY <1>1 DEF Decoded
<1>5. ASSUME NEW i \in 0 .. 7, i < k
      PROVE  i \in Xor(x3', shift') <=> i \in said'
  <2>1. k # 0 /\ i <= bit /\ x3' = x3 /\ said' = said /\ saidCount > 0
    BY <1>1, <1>5
  <2>2. i \in shift' <=> i \in shift
    BY <1>2, <1>5
  <2>3. i \in Xor(x3, shift) <=> i \in said
    BY <2>1 DEF Decoded
  <2> QED
    BY <2>1, <2>2, <2>3 DEF Xor
<1>6. k \in Xor(x3', shift') <=> k \in said'
  BY <1>1, <1>2, <1>4 DEF Xor
<1> QED
  BY <1>1, <1>3, <1>4, <1>5, <1>6 DEF Decoded

\* The bit before a stuffed one is a 1.
LEMMA DecodedHide ==
  ASSUME Decoded, bit \in Bit, bit' = bit, shift' = shift \cup {bit}, x3' = x3 \ {bit},
         UNCHANGED saying, saidCount > 0, bit \notin shift
  PROVE  Decoded' /\ Xor(x3', shift') = Xor(x3, shift)
<1>0. UNCHANGED <<said, saidCount>>
  BY DEF saying
<1>1. bit \in x3
  BY DEF Decoded
<1> QED
  BY <1>0, <1>1 DEF Decoded, Xor, Bit

LEMMA Whole ==
  ASSUME Decoded, bit = 7, saidCount \in Nat, saidCount > 0, said \in Byte
  PROVE  Xor(x3, shift) = said
<1>1. \A i \in Bit : i \in Xor(x3, shift) <=> i \in said
  BY DEF Decoded, Bit
<1> QED
  BY <1>1 DEF Decoded, Xor, Byte

\* What Delivered says of a step.
Right == gotCount' > gotCount => got' = said /\ gotCount' = saidCount

\* The receive loop keeps up with the host, or drops a packet that is too long.
KeptUp ==
  \/ pc' = "overflow" /\ saidCount' > USB_BUFSIZE
  \/ pc' \in Receiving' /\ Saying' /\ InByte'

LEMMA SawNoSE0 ==
  ASSUME NEW s \in {"J", "K"}, line \in {"J", "K"}, NEW phase \in Phases(s)
  PROVE  ~SE0Seen(s, phase)
BY DEF SE0Seen, SE0Between, Phases

LEMMA LoopKept ==
  ASSUME clock \in Unrolled, clock' = clock, last' = line', Saying', Loop'
  PROVE  KeptUp
BY DEF KeptUp, InByte, Loop, Receiving, Unrolled

LEMMA UnrolledStuffed ==
  ASSUME RealPids, StoreInv, stage = "data", Saying, InByte, clock \in Unrolled,
         NEW s, NEW phase \in Phases(s), LoopUnrolled(s, phase),
         SaysStuffed(s), Saying', line' = s, clock' = clock
  PROVE  KeptUp /\ Right
<1>1. Loop /\ last = line /\ line \in {"J", "K"} /\ s \in {"J", "K"} /\ s = Change(last)
  BY DEF InByte, SaysStuffed, Saying, Change
<1>2. run = 6 /\ run' = 0 /\ UNCHANGED <<place, said, saidCount, saying>> /\ saidCount > 1 /\
      saidCount \in Nat
  BY DEF SaysStuffed, Saying, saying
<1>3. bit \in Bit /\ bit = place - 1 /\ Window /\ Decoded /\ pc = "rxLoop"
  BY <1>1 DEF Loop, Saying, Bit
<1>4. SeenRun = 6 /\ SeenRun \in 0 .. 6 /\ SeenRun' = 0
  BY <1>2, SeenRunKept
<1>5. Stuffed /\ ~SE0Seen(s, phase)
  BY <1>1, <1>3, <1>4, WindowStuffed, SawNoSE0 DEF Stuffed
<1>6. /\ shift' = shift \cup {bit} /\ x3' = x3 \ {bit} /\ last' = s
      /\ IF bit = 7 THEN Store(Xor(x3', shift')) ELSE UNCHANGED heard
      /\ UNCHANGED <<pc, bit>>
  BY <1>1, <1>5 DEF LoopUnrolled, AfterStuffed, Leave
<1>7. Window'
  BY <1>3, <1>4, <1>6, WindowHide
<1>8. bit \notin shift
  BY <1>3, <1>4 DEF Window, Back, Bit
<1>9. Decoded' /\ Xor(x3', shift') = Xor(x3, shift)
  BY <1>2, <1>3, <1>6, <1>8, DecodedHide
<1>10. gotCount = saidCount - 1
  BY <1>1, <1>2 DEF Loop
<1>11. CASE bit = 7
  <2>1. got' = said /\ gotCount' = saidCount
    BY <1>2, <1>3, <1>6, <1>9, <1>10, <1>11, Whole DEF Store, Saying
  <2> QED
    <3>1. pc' = "rxLoop" /\ bit' = place' - 1 /\ place' = 8
      BY <1>2, <1>3, <1>6, <1>11 DEF Saying
    <3>2. Loop'
      BY <1>2, <1>7, <1>9, <2>1, <3>1 DEF Loop
    <3> QED
      BY <1>6, <2>1, <3>2, LoopKept DEF Right
<1>12. CASE bit # 7
  <2>1. gotCount' = gotCount
    BY <1>6, <1>12 DEF heard
  <2> QED
    <3>1. Loop'
      BY <1>2, <1>3, <1>6, <1>7, <1>9, <1>10, <1>12, <2>1 DEF Loop
    <3>2. gotCount \in Nat
      BY DEF StoreInv
    <3> QED
      BY <1>6, <2>1, <3>1, <3>2, LoopKept DEF Right
<1> QED
  BY <1>11, <1>12

LEMMA UnrolledBit ==
  ASSUME RealPids, StoreInv, stage = "data", Saying, InByte, clock \in Unrolled,
         NEW s, NEW phase \in Phases(s), LoopUnrolled(s, phase),
         NEW one \in BOOLEAN, SaysBit(s, one), Saying', line' = s, clock' = clock
  PROVE  KeptUp /\ Right
<1> DEFINE k == (bit + 1) % 8
<1>1. Loop /\ last = line /\ line \in {"J", "K"} /\ s \in {"J", "K"} /\
      (DMinus(s) = DMinus(last) <=> one)
  BY DEF InByte, SaysBit, Saying, Change, DMinus
<1>2. bit \in Bit /\ bit = place - 1 /\ Window /\ Decoded /\ pc = "rxLoop" /\ place \in 1 .. 8
  BY <1>1 DEF Loop, Saying, Bit
<1>3. /\ k = place' - 1 /\ k \in Bit /\ (k = 0 <=> place = 8) /\ (k = 7 <=> place' = 8) /\
         place' \in 1 .. 8
      /\ k # 0 => k = bit + 1
      /\ k = 0 => bit = 7
  BY <1>2 DEF SaysBit, Bit
<1>4. /\ SeenRun \in 0 .. 5 /\ SeenRun' = IF one THEN SeenRun + 1 ELSE 0
      /\ SeenRun' \in 0 .. 6 /\ (SeenRun' = 6 <=> run' = 6)
  <2>1. SeenRun \in 0 .. 5 /\ SeenRun' = IF one THEN SeenRun + 1 ELSE 0
    BY SeenRunKept DEF SaysBit
  <2>2. SeenRun' \in 0 .. 6 /\ (SeenRun' = 6 <=> run' = 6)
    <3>1. (RealPids /\ Saying => SeenRun \in 0 .. 6 /\ (SeenRun = 6 <=> run = 6))'
      BY SeenRunRange, PTL
    <3> QED
      BY <3>1
  <2> QED
    BY <2>1, <2>2
<1>5. ~Stuffed /\ ~SE0Seen(s, phase)
  BY <1>1, <1>2, <1>4, WindowStuffed, SawNoSE0 DEF Stuffed
<1>6. saidCount \in Nat /\ gotCount = (IF bit = 7 THEN saidCount ELSE saidCount - 1) /\
      gotCount \in Nat
  BY <1>1, <1>2 DEF Loop, SaysBit, Saying, StoreInv
<1>7. CASE Full(k) /\ pc' = "overflow" /\ UNCHANGED heard
  <2>1. cnt = 0 /\ Counts(k) /\ Counted = 11
    <3>1. Counted \in Int
      BY <1>6 DEF Counted, Unrolled
    <3>2. pc \in Receiving
      BY <1>2 DEF Receiving, Unrolled
    <3> QED
      BY <1>7, <3>1, <3>2 DEF Full, StoreInv, USB_BUFSIZE
  <2>2. ~Unstored
    BY <1>2, <1>5 DEF Unstored, Stuffed
  <2>3. saidCount' = IF k = 0 THEN saidCount + 1 ELSE saidCount
    BY <1>2, <1>3 DEF SaysBit, saying
  <2> HIDE DEF k
  <2>4. saidCount' > 11
    <3>1. CASE clock \in {120, 165}
      BY <1>2, <1>3, <1>6, <2>1, <2>2, <2>3, <3>1 DEF Counted, Counts, Bit
    <3>2. CASE clock = 128
      BY <1>2, <1>3, <1>6, <2>1, <2>2, <2>3, <3>2 DEF Counted, Counts, Bit
    <3>3. CASE clock = 150
      BY <1>2, <1>3, <1>6, <2>1, <2>2, <2>3, <3>3 DEF Counted, Counts, Bit
    <3> QED
      BY <3>1, <3>2, <3>3 DEF Unrolled
  <2>5. gotCount' = gotCount
    BY <1>7 DEF heard
  <2> QED
    BY <1>6, <1>7, <2>4, <2>5 DEF KeptUp, Right, USB_BUFSIZE
<1>8. CASE /\ shift' = LoadBit(k, s)
           /\ x3' = IF k = 0 THEN Bit ELSE x3
           /\ last' = s
           /\ bit' = k
           /\ IF k = 7 /\ ~StuffedNext(7, shift')
              THEN Store(Xor(x3, shift')) ELSE UNCHANGED heard
           /\ UNCHANGED pc
  <2>1. Loaded(bit', one)
    BY <1>1, <1>8 DEF Loaded, LoadBit
  <2>2. Window'
    BY <1>2, <1>4, <1>8, <2>1, WindowBit
  <2>3. (one <=> bit' \in said') /\
        (bit' # 0 => saidCount > 0 /\ said' = said /\ saidCount' = saidCount)
    BY <1>3, <1>8, <1>2 DEF SaysBit, saying, Saying
  <2>4. Decoded'
    BY <1>2, <1>8, <2>1, <2>3, DecodedBit
  <2>5. StuffedNext(bit', shift') <=> run' = 6
    <3>1. (Window /\ Decoded /\ bit \in Bit /\ SeenRun \in 0 .. 6 =>
          (StuffedNext(bit, shift) <=> SeenRun = 6))'
      BY WindowStuffed, PTL
    <3> QED
      BY <1>3, <1>4, <1>8, <2>2, <2>4, <3>1
  <2>6. gotCount' = (IF place' = 8 /\ run' < 6 THEN saidCount' ELSE saidCount' - 1) /\ Right
    <3>1. CASE k = 7
      <4>1. Xor(x3', shift') = said'
        <5>1. (Decoded /\ bit = 7 /\ saidCount \in Nat /\ saidCount > 0 /\ said \in Byte =>
              Xor(x3, shift) = said)'
          BY Whole, PTL
        <5> QED
          BY <1>6, <1>8, <2>3, <2>4, <3>1, <5>1 DEF Saying
      <4>2. x3' = x3 /\ said' = said /\ saidCount' = saidCount
        BY <1>8, <2>3, <3>1
      <4>3. run' \in 0 .. 6
        BY DEF Saying
      <4>4. IF run' < 6 THEN got' = said /\ gotCount' = gotCount + 1 ELSE gotCount' = gotCount
        BY <1>8, <2>5, <3>1, <4>1, <4>2, <4>3 DEF Store, heard
      <4> QED
        BY <1>3, <1>6, <1>8, <2>5, <3>1, <4>2, <4>4 DEF Right
    <3>2. CASE k # 7
      <4>1. gotCount' = gotCount
        BY <1>8, <3>2 DEF heard
      <4>2. saidCount' = IF k = 0 THEN saidCount + 1 ELSE saidCount
        BY <1>2, <1>3 DEF SaysBit, saying
      <4> HIDE DEF k
      <4> QED
        BY <1>3, <1>6, <3>2, <4>1, <4>2 DEF Right
    <3> QED
      BY <3>1, <3>2
  <2>7. Loop'
    BY <1>2, <1>3, <1>8, <2>2, <2>4, <2>6 DEF Loop
  <2> QED
    BY <1>8, <2>6, <2>7, LoopKept
<1> QED
  BY <1>5, <1>7, <1>8 DEF LoopUnrolled, Leave

\* The end of the packet: the loops but for that at 15 MHz take the first bit of SE0
\* for a bit of data, and see the second.
EndSeen ==
  \/ pc' = "overflow" /\ saidCount' > USB_BUFSIZE
  \/ pc' \in Receiving' /\ InEnd'

LEMMA EndKept ==
  ASSUME clock \in Clocks, clock' = clock, left' = 0, gotCount' = saidCount', line' = "SE0",
         last' = "SE0",
         clock \in Unrolled => pc' = "rxLoop" /\ bit' = 0 /\ ~again' /\ saidCount' > 0,
         clock = 160 => pc' = "odd",
         clock = 180 => pc' = "rxDataStart" /\ bit' = 0,
         clock = 200 => pc' = "bitloop" /\ bitcnt' = 6
  PROVE  pc' \in Receiving' /\ InEnd'
<1>1. pc' \in Receiving'
  BY ClocksAssumption DEF Receiving, Unrolled
<1> QED
  BY <1>1 DEF InEnd

LEMMA UnrolledEnd ==
  ASSUME RealPids, StoreInv, stage = "data", Saying, InByte, clock \in Unrolled,
         NEW s, NEW phase \in Phases(s), LoopUnrolled(s, phase),
         SaysEnd(s), line' = s, clock' = clock
  PROVE  EndSeen /\ Right
<1>1. Loop /\ place = 8 /\ run \in 0 .. 5 /\ left' = 0 /\ saidCount \in Nat /\ saidCount > 0 /\
      s = "SE0"
  BY DEF InByte, SaysEnd, Saying
<1>2. bit = 7 /\ Window /\ Decoded /\ pc = "rxLoop" /\ gotCount = saidCount /\
      saidCount' = saidCount
  BY <1>1 DEF Loop, SaysEnd, saying
<1>3. ~Stuffed /\ ~Unstored
  <2>1. SeenRun \in 0 .. 6 /\ SeenRun # 6
    BY <1>1, SeenRunRange
  <2> QED
    BY <1>2, <2>1, WindowStuffed DEF Stuffed, Unstored, Bit
<1>4. ~SE0Seen(s, phase)
  BY <1>2, <1>3 DEF SE0Seen, SE0Between
<1>5. CASE Full(0) /\ pc' = "overflow" /\ UNCHANGED heard
  <2>1. clock = 150 /\ cnt = 0 /\ gotCount > 0
    BY <1>5 DEF Full, Counts, Unrolled
  <2>2. Counted = gotCount - 1
    BY <1>1, <1>2, <1>3, <2>1 DEF Counted
  <2>3. cnt = 11 - Counted
    BY <1>2, <2>1 DEF StoreInv, Receiving, Unrolled, USB_BUFSIZE
  <2> QED
    BY <1>1, <1>2, <1>5, <2>1, <2>2, <2>3 DEF EndSeen, Right, heard, USB_BUFSIZE
<1>6. CASE last' = s /\ bit' = 0 /\ ~again' /\ UNCHANGED <<pc, heard>>
  <2>1. gotCount' = gotCount
    BY <1>6 DEF heard
  <2>2. clock \in Clocks
    BY DEF StoreInv
  <2> QED
    BY <1>1, <1>2, <1>6, <2>1, <2>2, EndKept DEF EndSeen, Right, Unrolled
<1> QED
  BY <1>2, <1>3, <1>4, <1>5, <1>6 DEF LoopUnrolled, Leave

LEMMA UnrolledSE0 ==
  ASSUME StoreInv, stage = "data", InEnd, clock \in Unrolled,
         NEW s, NEW phase \in Phases(s), LoopUnrolled(s, phase), s = "SE0", UNCHANGED saying
  PROVE  /\ pc' = "se0" /\ gotCount' = saidCount' /\ cnt' = USB_BUFSIZE - saidCount'
         /\ gotCount' = gotCount
<1>1. pc = "rxLoop" /\ bit = 0 /\ ~again /\ saidCount > 0 /\ gotCount = saidCount /\
      last = "SE0" /\ line = "SE0"
  BY DEF InEnd
<1>2. phase = "SE0"
  BY <1>1 DEF Phases
<1>3. SE0Seen(s, phase)
  BY <1>1, <1>2 DEF SE0Seen, SE0Between, Unrolled, DMinus
<1>4. pc' = "se0" /\ UNCHANGED <<cnt, gotCount, saidCount>>
  BY <1>3 DEF LoopUnrolled, Leave, rxRegs, heard, saying
<1>5. Counted = gotCount
  BY <1>1 DEF Counted, Unstored, Unrolled
<1>6. cnt = USB_BUFSIZE - Counted
  BY <1>1 DEF StoreInv, Receiving, Unrolled
<1> QED
  BY <1>1, <1>4, <1>5, <1>6

LEMMA RorBits ==
  ASSUME NEW r, r \subseteq Bit, NEW c \in BOOLEAN
  PROVE  Ror(r, c) = {i \in Bit : i + 1 \in r \/ (i = 7 /\ c)}
<1>1. Lsr(r) = {i \in Bit : i + 1 \in r}
  BY LsrBits
<1> QED
  BY <1>1 DEF Ror, Bit

LEMMA PidBit180 ==
  ASSUME RealPids, StoreInv, stage = "data", Saying, InByte, clock = 180, PidLoop180,
         NEW s, Loop180(s),
         NEW one \in BOOLEAN, SaysBit(s, one), Saying', line' = s, clock' = clock
  PROVE  KeptUp /\ Right
<1> DEFINE j == IF saidCount = 0 THEN 0 ELSE place
<1>1. last = line /\ line \in {"J", "K"} /\ s \in {"J", "K"} /\ (DMinus(s) # DMinus(last) <=> ~one)
  BY DEF InByte, SaysBit, Saying, Change, DMinus
<1>2. /\ saidCount \in Nat /\ saidCount <= 1 /\ j \in 0 .. 7 /\ (saidCount = 0 => place = 8) /\
         place \in 1 .. 8
      /\ x3 = Bit /\ bit = 7 /\ pc \in {"pid", "bitloopPid"}
  BY DEF PidLoop180, Saying
<1>3. place' = j + 1 /\ saidCount' = 1 /\ (one <=> j \in said') /\ (j > 0 => said' = said)
  BY <1>2 DEF SaysBit, saying
<1>4. /\ shift' = Ror(shift, ~one)
      /\ last' = s /\ pc' = IF 0 \in shift THEN "rxDataStart" ELSE "bitloopPid"
      /\ UNCHANGED <<x3, bit, again, heard>>
  BY <1>1, <1>2 DEF Loop180, PidBit
<1>5. shift = {i \in Bit : i = 7 - j \/ (i >= 8 - j /\ i - 8 + j \notin said)}
  BY DEF PidLoop180
<1> HIDE DEF j
<1>6. shift' = {i \in Bit : (i = 6 - j /\ j < 7) \/ (i >= 7 - j /\ i - 7 + j \notin said')}
  <2>1. shift' = {i \in Bit : i + 1 \in shift \/ (i = 7 /\ ~one)}
    BY <1>4, <1>5, RorBits
  <2>2. ASSUME NEW i \in Bit
        PROVE  i + 1 \in shift \/ (i = 7 /\ ~one) <=>
               (i = 6 - j /\ j < 7) \/ (i >= 7 - j /\ i - 7 + j \notin said')
    <3>1. CASE i = 7
      <4>1. i + 1 \notin Bit
        BY <3>1 DEF Bit
      <4>3. i + 1 \notin shift
        BY <1>5, <4>1
      <4>2. i - 7 + j = j /\ i >= 7 - j /\ i # 6 - j
        BY <1>2, <3>1
      <4> QED
        BY <1>3, <3>1, <4>2, <4>3
    <3>2. CASE i < 7
      <4>1. i + 1 \in Bit
        BY <3>2 DEF Bit
      <4>2. i + 1 \in shift <=> i + 1 = 7 - j \/ (i + 1 >= 8 - j /\ i + 1 - 8 + j \notin said)
        <5>1. PICK m \in Bit : m = i + 1
          BY <4>1
        <5>2. m \in shift <=> m = 7 - j \/ (m >= 8 - j /\ m - 8 + j \notin said)
          BY <1>5
        <5> QED
          BY <5>1, <5>2
      <4>3. i + 1 - 8 + j = i - 7 + j /\ (i + 1 = 7 - j <=> i = 6 - j) /\
            (i + 1 >= 8 - j <=> i >= 7 - j)
        BY <1>2 DEF Bit
      <4>4. i = 6 - j => j < 7
        BY <1>2 DEF Bit
      <4>5. i >= 7 - j => j > 0
        BY <1>2, <3>2 DEF Bit
      <4> QED
        BY <1>3, <3>2, <4>2, <4>3, <4>4, <4>5
    <3> QED
      BY <3>1, <3>2 DEF Bit
  <2> QED
    BY <2>1, <2>2
<1>7. 0 \in shift <=> j = 7
  <2>1. 0 \in Bit
    BY DEF Bit
  <2>2. 0 = 7 - j <=> j = 7
    BY <1>2
  <2>3. ~(0 >= 8 - j)
    BY <1>2
  <2> QED
    BY <1>5, <2>1, <2>2, <2>3
<1>8. gotCount = 0 /\ gotCount' = 0
  BY <1>2, <1>4 DEF StoreInv, Before, heard
<1>9. CASE j < 7
  <2>1. PidLoop180'
    <3>1. shift' = {i \in Bit : i = 7 - (j + 1) \/ (i >= 8 - (j + 1) /\
          i - 8 + (j + 1) \notin said')}
      <4>1. ASSUME NEW i \in Bit
            PROVE  /\ i = 7 - (j + 1) <=> i = 6 - j
                   /\ i >= 8 - (j + 1) <=> i >= 7 - j
                   /\ i - 8 + (j + 1) = i - 7 + j
        BY <1>2 DEF Bit
      <4> QED
        BY <1>6, <1>9, <4>1
    <3> QED
      BY <1>2, <1>3, <1>4, <1>7, <1>9, <3>1 DEF PidLoop180
  <2> QED
    BY <1>1, <1>2, <1>4, <1>7, <1>8, <1>9, <2>1 DEF KeptUp, Right, InByte, Receiving, Unrolled
<1>10. CASE j = 7
  <2>1. place' = 8 /\ pc' = "rxDataStart" /\ bit' = 7 /\ x3' = Bit
    BY <1>2, <1>3, <1>4, <1>7, <1>10
  <2>2. \A i \in Bit : i \in shift' <=> i \notin said'
    <3>1. \A i \in Bit : i - 7 + j = i /\ i >= 7 - j
      BY <1>10 DEF Bit
    <3> QED
      BY <1>6, <1>10, <3>1
  <2>3. PICK r \in 0 .. 4 : r = run' /\ 8 - r .. 7 \subseteq said' /\ 7 - r \notin said'
    <3>1. (RealPids /\ Saying /\ saidCount = 1 /\ place = 8 =>
            \E r \in 0 .. 4 : r = run /\ 8 - r .. 7 \subseteq said /\ 7 - r \notin said)'
      BY PidEnd, PTL
    <3> QED
      BY <1>3, <2>1, <3>1
  <2>4. shift' \subseteq Bit
    BY <1>6
  <2>5. Window'
    <3>1. SeenRun' = r
      <4>1. run' = r /\ ~(r = 8 + 1)
        BY <2>3
      <4> QED
        BY <1>3, <2>1, <4>1 DEF SeenRun
    <3>2. \A d \in 0 .. 5 : Back(d)' = 7 - d
      BY <2>1 DEF Back
    <3>3. \A d \in 0 .. 5 : d < r => 7 - d \in 8 - r .. 7 /\ 7 - d \in Bit
      BY DEF Bit
    <3>4. 7 - r \in Bit /\ r \in 0 .. 5
      BY DEF Bit
    <3>5. \A d \in 0 .. 5 : d < r => 7 - d \notin shift'
      BY <2>2, <2>3, <3>3
    <3>6. 7 - r \in shift'
      BY <2>2, <2>3, <3>4
    <3> QED
      BY <2>1, <3>1, <3>2, <3>4, <3>5, <3>6 DEF Window
  <2>6. Decoded'
    BY <2>1, <2>2, <2>4 DEF Decoded, Xor, Bit
  <2>7. DataLoop180'
    <3>1. run' < 6
      BY <2>3
    <3> QED
      BY <1>3, <1>8, <2>1, <2>5, <2>6, <3>1 DEF DataLoop180
  <2> QED
    BY <1>1, <1>4, <1>8, <2>1, <2>7 DEF KeptUp, Right, InByte, Receiving, Unrolled
<1> QED
  BY <1>2, <1>9, <1>10

LEMMA DataKept180 ==
  ASSUME clock = 180, clock' = clock, last' = line', DataLoop180'
  PROVE  pc' \in Receiving' /\ InByte'
BY DEF DataLoop180, InByte, Receiving, Unrolled

LEMMA NotStuffed180 ==
  ASSUME RealPids, Saying, DataLoop180, run < 6
  PROVE  ~Stuffed180
<1>1. SeenRun \in 0 .. 6 /\ SeenRun # 6
  BY SeenRunRange DEF Saying
<1>2. bit \in Bit
  BY DEF DataLoop180, Saying, Bit
<1> QED
  BY <1>1, <1>2, WindowStuffed DEF DataLoop180, Stuffed180

LEMMA DataStuffed180 ==
  ASSUME RealPids, Saying, InByte, clock = 180, DataLoop180,
         NEW s, Loop180(s), SaysStuffed(s), Saying', line' = s, clock' = clock
  PROVE  KeptUp /\ Right
<1>1. last = line /\ s \in {"J", "K"} /\ s # last /\ last # "SE0"
  BY DEF InByte, SaysStuffed, Saying, Change
<1>2. run = 6 /\ run' = 0 /\ UNCHANGED <<place, said, saidCount, saying>> /\ saidCount > 1 /\
      saidCount \in Nat
  BY DEF SaysStuffed, Saying, saying
<1>3. bit \in Bit /\ bit = place - 1 /\ Window /\ Decoded /\ pc = "rxDataStart" /\ ~again
  BY <1>2 DEF DataLoop180, Saying, Bit
<1>4. SeenRun = 6 /\ SeenRun \in 0 .. 6 /\ SeenRun' = 0
  BY <1>2, SeenRunKept
<1>5. Stuffed180
  BY <1>1, <1>3, <1>4, WindowStuffed DEF Stuffed180
<1>6. /\ shift' = shift \cup {bit} /\ x3' = x3 \ {bit} /\ last' = s
      /\ UNCHANGED <<pc, bit, gotCount>>
  BY <1>1, <1>3, <1>5 DEF Loop180, PidBit, Unstuff180, DataBit180, heard
<1>7. Window'
  BY <1>3, <1>4, <1>6, WindowHide
<1>8. bit \notin shift
  BY <1>3, <1>4 DEF Window, Back, Bit
<1>9. Decoded'
  BY <1>2, <1>3, <1>6, <1>8, DecodedHide
<1>10. DataLoop180'
  BY <1>2, <1>3, <1>6, <1>7, <1>9 DEF DataLoop180
<1>11. gotCount \in Nat
  BY <1>2 DEF DataLoop180
<1> QED
  BY <1>6, <1>10, <1>11, DataKept180 DEF KeptUp, Right

LEMMA DataBitStep180 ==
  ASSUME RealPids, StoreInv, stage = "data", Saying, InByte, clock = 180, DataLoop180,
         NEW s, Loop180(s),
         NEW one \in BOOLEAN, SaysBit(s, one), Saying', line' = s, clock' = clock
  PROVE  KeptUp /\ Right
<1> DEFINE k == (bit + 1) % 8
<1>1. last = line /\ last \in {"J", "K"} /\ s \in {"J", "K"} /\ (DMinus(s) = DMinus(last) <=> one)
  BY DEF InByte, SaysBit, Saying, Change, DMinus
<1>2. /\ bit \in Bit /\ bit = place - 1 /\ Window /\ Decoded /\ pc = "rxDataStart" /\
         place \in 1 .. 8
      /\ saidCount \in Nat /\ saidCount > 0 /\ gotCount = saidCount - 1 /\ run \in 0 .. 5
  BY DEF DataLoop180, Saying, Bit, SaysBit
<1>3. k = place' - 1 /\ k \in Bit /\ (k = 0 <=> bit = 7) /\ place' \in 1 .. 8
  BY <1>2 DEF SaysBit, Bit
<1>4. SeenRun \in 0 .. 5 /\ SeenRun' = IF one THEN SeenRun + 1 ELSE 0
  <2>1. SeenRun \in 0 .. 6 /\ SeenRun # 6
    BY <1>2, SeenRunKept
  <2>2. SeenRun' = IF one THEN SeenRun + 1 ELSE 0
    BY SeenRunKept
  <2> QED
    BY <2>1, <2>2
<1>5. ~Stuffed180
  BY <1>2, NotStuffed180
<1>6. IF k = 0 THEN saidCount' = saidCount + 1 ELSE saidCount' = saidCount /\ said' = said
  BY <1>2, <1>3 DEF SaysBit, saying
<1>7. CASE k = 0 /\ cnt = 0 /\ Leave("overflow")
  <2>1. cnt = 11 - gotCount
    BY <1>2 DEF StoreInv, Counted, Receiving, Unrolled, USB_BUFSIZE
  <2> QED
    BY <1>2, <1>6, <1>7, <2>1 DEF KeptUp, Right, Leave, heard, USB_BUFSIZE
<1>8. CASE /\ shift' = LoadBit(k, s)
           /\ again' = FALSE
           /\ last' = s
           /\ bit' = k
           /\ IF k = 0
                THEN x3' = Bit /\ cnt' = cnt - 1 /\ Store(Xor(x3, shift))
                ELSE UNCHANGED <<x3, cnt, heard>>
           /\ UNCHANGED <<pc, bitcnt>>
  <2>1. Loaded(bit', one)
    BY <1>1, <1>8 DEF Loaded, LoadBit
  <2>2. Window'
    BY <1>2, <1>4, <1>8, <2>1, WindowBit
  <2>3. (one <=> bit' \in said') /\ (bit' # 0 => saidCount > 0 /\ said' = said)
    BY <1>2, <1>3, <1>6, <1>8 DEF SaysBit
  <2>4. x3' = IF bit' = 0 THEN Bit ELSE x3
    BY <1>8
  <2>5. Decoded'
    BY <1>2, <1>8, <2>1, <2>3, <2>4, DecodedBit
  <2>6. gotCount' = saidCount' - 1 /\ Right
    <3>1. CASE k = 0
      <4>1. Xor(x3, shift) = said
        BY <1>2, <1>3, <3>1, Whole DEF Saying
      <4> QED
        BY <1>2, <1>6, <1>8, <3>1, <4>1 DEF Store, Right
    <3>2. CASE k # 0
      BY <1>2, <1>6, <1>8, <3>2 DEF heard, Right
    <3> QED
      BY <3>1, <3>2
  <2>7. saidCount' > 0 /\ (saidCount' = 1 => place' = 8)
    <3>1. CASE k = 0
      BY <1>2, <1>6, <3>1
    <3>2. CASE k # 0
      BY <1>2, <1>3, <1>6, <3>2 DEF DataLoop180
    <3> QED
      BY <3>1, <3>2
  <2>8. DataLoop180'
    BY <1>2, <1>3, <1>8, <2>2, <2>5, <2>6, <2>7 DEF DataLoop180
  <2> QED
    BY <1>8, <2>6, <2>8, DataKept180 DEF KeptUp
<1> QED
  BY <1>1, <1>2, <1>3, <1>5, <1>7, <1>8 DEF Loop180, PidBit, Unstuff180, DataBit180, Bit

LEMMA DataEnd180 ==
  ASSUME RealPids, StoreInv, stage = "data", Saying, InByte, clock = 180,
         NEW s, Loop180(s), SaysEnd(s), line' = s, clock' = clock
  PROVE  EndSeen /\ Right
<1>1. place = 8 /\ run \in 0 .. 5 /\ left' = 0 /\ saidCount \in Nat /\ saidCount > 0 /\ s = "SE0"
      /\ saidCount' = saidCount
  BY DEF SaysEnd, Saying, saying
<1>2. DataLoop180
  BY <1>1 DEF InByte, PidLoop180
<1>3. bit = 7 /\ Window /\ Decoded /\ pc = "rxDataStart" /\ gotCount = saidCount - 1
  BY <1>1, <1>2 DEF DataLoop180
<1>4. ~Stuffed180
  BY <1>1, <1>2, NotStuffed180
<1>5. CASE cnt = 0 /\ Leave("overflow")
  <2>1. cnt = 11 - gotCount
    BY <1>3 DEF StoreInv, Counted, Receiving, Unrolled, USB_BUFSIZE
  <2> QED
    BY <1>1, <1>3, <1>5, <2>1 DEF EndSeen, Right, Leave, heard, USB_BUFSIZE
<1>6. CASE bit' = 0 /\ last' = s /\ Store(Xor(x3, shift)) /\ UNCHANGED pc
  <2>1. Xor(x3, shift) = said
    BY <1>1, <1>3, Whole DEF Saying
  <2>2. got' = said /\ gotCount' = saidCount
    BY <1>1, <1>3, <1>6, <2>1 DEF Store
  <2>3. clock \in Clocks
    BY DEF StoreInv
  <2> QED
    BY <1>1, <1>3, <1>6, <2>2, <2>3, EndKept DEF EndSeen, Right, Unrolled
<1> QED
  BY <1>3, <1>4, <1>5, <1>6 DEF Loop180, PidBit, Unstuff180, DataBit180

LEMMA SE0Kept180 ==
  ASSUME StoreInv, stage = "data", InEnd, clock = 180,
         NEW s, Loop180(s), s = "SE0", UNCHANGED saying
  PROVE  /\ pc' = "se0" /\ gotCount' = saidCount' /\ cnt' = USB_BUFSIZE - saidCount'
         /\ gotCount' = gotCount
<1>1. pc = "rxDataStart" /\ bit = 0 /\ gotCount = saidCount /\ last = "SE0"
  BY DEF InEnd
<1>2. ~Stuffed180
  BY <1>1 DEF Stuffed180
<1>3. Leave("se0")
  BY <1>1, <1>2 DEF Loop180, PidBit, Unstuff180, DataBit180
<1>4. pc' = "se0" /\ UNCHANGED <<cnt, gotCount, saidCount>>
  BY <1>3 DEF Leave, rxRegs, heard, saying
<1>5. cnt = USB_BUFSIZE - gotCount
  BY <1>1 DEF StoreInv, Counted, Receiving, Unrolled
<1> QED
  BY <1>1, <1>4, <1>5

LEMMA Stuffed200 ==
  ASSUME Saying, InByte, clock = 200,
         NEW s, Loop200(s), SaysStuffed(s), Saying', line' = s, clock' = clock
  PROVE  KeptUp /\ Right
<1>1. run = 6 /\ run' = 0 /\ UNCHANGED <<place, said, saidCount>> /\ saidCount > 1 /\
      saidCount \in Nat
  BY DEF SaysStuffed, Saying, saying
<1>2. Loop200Inv /\ bitcnt = 0
  BY <1>1 DEF InByte, Loop200Inv
<1>3. bitcnt' = 6 /\ last' = s /\ UNCHANGED <<pc, shift, gotCount>>
  BY <1>2 DEF Loop200, heard
<1>4. gotCount \in Nat
  BY <1>1, <1>2 DEF Loop200Inv
<1>5. Loop200Inv'
  BY <1>1, <1>2, <1>3 DEF Loop200Inv
<1>6. pc' \in {"bit0", "bitloop", "bit7"}
  BY <1>5 DEF Loop200Inv
<1> QED
  BY <1>3, <1>4, <1>5, <1>6 DEF KeptUp, Right, InByte, Receiving, Unrolled

LEMMA Bit200 ==
  ASSUME StoreInv, stage = "data", Saying, InByte, clock = 200,
         NEW s, Loop200(s),
         NEW one \in BOOLEAN, SaysBit(s, one), Saying', line' = s, clock' = clock
  PROVE  KeptUp /\ Right
<1> DEFINE j == IF place = 8 THEN 0 ELSE place
<1>1. last = line /\ s \in {"J", "K"} /\ (s = last <=> one)
  BY DEF InByte, SaysBit, Saying, Change
<1>2. Loop200Inv /\ place \in 1 .. 8 /\ j \in 0 .. 7 /\ run \in 0 .. 5 /\ saidCount \in Nat
  BY DEF InByte, Saying, SaysBit
<1>3. place' = j + 1 /\ (one <=> j \in said') /\ (j > 0 => said' = said)
      /\ saidCount' = IF j = 0 THEN saidCount + 1 ELSE saidCount
  BY <1>2 DEF SaysBit, saying
<1>4. shift = {i \in Bit : i = 6 - j \/ (i >= 8 - j /\ i - 8 + j \in said)}
  <2>1. CASE place = 8
    BY <1>2, <2>1 DEF Loop200Inv, Bit
  <2>2. CASE place # 8
    BY <1>2, <2>2 DEF Loop200Inv
  <2> QED
    BY <2>1, <2>2
<1>5. pc = (IF j = 0 THEN "bit0" ELSE IF j = 7 THEN "bit7" ELSE "bitloop")
      /\ gotCount = IF j = 0 THEN saidCount ELSE saidCount - 1
  BY <1>2 DEF Loop200Inv
<1>6. bitcnt = 6 - run /\ bitcnt # 0
  BY <1>2 DEF Loop200Inv
<1> HIDE DEF j
<1>7. Ror(shift, one) = {i \in Bit : (i = 5 - j /\ j < 6) \/ (i >= 7 - j /\ i - 7 + j \in said')}
  <2>1. Ror(shift, one) = {i \in Bit : i + 1 \in shift \/ (i = 7 /\ one)}
    BY <1>4, RorBits
  <2>2. ASSUME NEW i \in Bit
        PROVE  i + 1 \in shift \/ (i = 7 /\ one) <=>
               (i = 5 - j /\ j < 6) \/ (i >= 7 - j /\ i - 7 + j \in said')
    <3>1. CASE i = 7
      <4>1. i + 1 \notin Bit
        BY <3>1 DEF Bit
      <4>2. i + 1 \notin shift
        BY <1>4, <4>1
      <4>3. i - 7 + j = j /\ i >= 7 - j /\ i # 5 - j
        BY <1>2, <3>1
      <4> QED
        BY <1>3, <3>1, <4>2, <4>3
    <3>2. CASE i < 7
      <4>1. PICK m \in Bit : m = i + 1
        BY <3>2 DEF Bit
      <4>2. m \in shift <=> m = 6 - j \/ (m >= 8 - j /\ m - 8 + j \in said)
        BY <1>4
      <4>3. m - 8 + j = i - 7 + j /\ (m = 6 - j <=> i = 5 - j) /\ (m >= 8 - j <=> i >= 7 - j)
        BY <1>2, <4>1 DEF Bit
      <4>4. i = 5 - j => j < 6
        BY <1>2 DEF Bit
      <4>5. i >= 7 - j => j > 0
        BY <1>2, <3>2 DEF Bit
      <4> QED
        BY <1>3, <3>2, <4>1, <4>2, <4>3, <4>4, <4>5
    <3> QED
      BY <3>1, <3>2 DEF Bit
  <2> QED
    BY <2>1, <2>2
<1>8. 0 \in shift <=> j = 6
  <2>1. 0 \in Bit
    BY DEF Bit
  <2>2. 0 = 6 - j <=> j = 6
    BY <1>2
  <2>3. ~(0 >= 8 - j)
    BY <1>2
  <2> QED
    BY <1>4, <2>1, <2>2, <2>3
<1>9. run' = (IF one THEN run + 1 ELSE 0) /\ Count(one) = 6 - run'
  <2>1. run' = (IF one THEN run + 1 ELSE 0)
    BY DEF SaysBit
  <2> QED
    BY <1>2, <1>6, <2>1 DEF Count
<1>10. CASE j < 7
  <2>1. /\ shift' = Ror(shift, one) /\ bitcnt' = Count(one)
        /\ pc' = IF 0 \in shift THEN "bit7" ELSE "bitloop"
        /\ UNCHANGED heard /\ last' = s
    BY <1>1, <1>2, <1>5, <1>6, <1>10 DEF Loop200
  <2>2. shift' = {i \in Bit : i = 6 - (j + 1) \/ (i >= 8 - (j + 1) /\ i - 8 + (j + 1) \in said')}
    <3>1. ASSUME NEW i \in Bit
          PROVE  /\ i = 6 - (j + 1) <=> i = 5 - j /\ j < 6
                 /\ i >= 8 - (j + 1) <=> i >= 7 - j
                 /\ i - 8 + (j + 1) = i - 7 + j
      BY <1>2 DEF Bit
    <3> QED
      BY <1>7, <2>1, <3>1
  <2>3. gotCount' = saidCount' - 1 /\ gotCount' = gotCount /\ gotCount \in Nat
    BY <1>2, <1>3, <1>5, <2>1 DEF StoreInv, heard
  <2>4. Loop200Inv'
    <3>1. place' # 8 /\ (place' = 7 <=> j = 6)
      BY <1>2, <1>3, <1>10
    <3>2. pc' = IF place' = 7 THEN "bit7" ELSE "bitloop"
      BY <1>8, <2>1, <3>1
    <3>3. bitcnt' = 6 - run'
      BY <1>9, <2>1
    <3> QED
      BY <1>3, <2>2, <2>3, <3>1, <3>2, <3>3 DEF Loop200Inv
  <2> QED
    BY <1>8, <2>1, <2>3, <2>4 DEF KeptUp, Right, InByte, Receiving, Unrolled
<1>11. CASE j = 7
  <2>1. pc = "bit7" /\ gotCount = saidCount - 1 /\ saidCount' = saidCount /\ said' = said /\
        place' = 8
    BY <1>3, <1>5, <1>11
  <2>2. cnt = 11 - gotCount /\ cnt \in Nat
    BY <1>2, <2>1 DEF StoreInv, Counted, Receiving, Unrolled, USB_BUFSIZE
  <2>3. CASE cnt = 0
    BY <1>2, <1>6, <2>1, <2>2, <2>3 DEF Loop200, heard, KeptUp, Right, USB_BUFSIZE
  <2>4. CASE cnt # 0
    <3>1. /\ Store(Ror(shift, one)) /\ shift' = {6} /\ bitcnt' = Count(one)
          /\ pc' = "bit0" /\ last' = s
      BY <1>1, <1>6, <2>1, <2>2, <2>4 DEF Loop200
    <3>2. Ror(shift, one) = said
      <4>1. \A i \in Bit : i >= 7 - j /\ i - 7 + j = i /\ ~(j < 6)
        BY <1>11 DEF Bit
      <4>2. said \in Byte
        BY <2>1, <1>2, <1>11, <1>5 DEF Saying, StoreInv
      <4> QED
        BY <1>7, <2>1, <4>1, <4>2 DEF Byte
    <3>3. got' = said' /\ gotCount' = saidCount'
      BY <1>2, <2>1, <3>1, <3>2 DEF Store
    <3>4. Loop200Inv'
      BY <1>9, <2>1, <3>1, <3>3 DEF Loop200Inv
    <3> QED
      BY <2>1, <3>1, <3>3, <3>4 DEF KeptUp, Right, InByte, Receiving, Unrolled
  <2> QED
    BY <2>3, <2>4
<1> QED
  BY <1>2, <1>10, <1>11

LEMMA End200 ==
  ASSUME StoreInv, stage = "data", Saying, InByte, clock = 200,
         NEW s, Loop200(s), SaysEnd(s), line' = s, clock' = clock
  PROVE  EndSeen /\ Right
<1>1. place = 8 /\ run \in 0 .. 5 /\ left' = 0 /\ saidCount \in Nat /\ s = "SE0" /\
      saidCount' = saidCount
      /\ line # "SE0"
  BY DEF SaysEnd, Saying, saying
<1>2. last = line /\ pc = "bit0" /\ shift = {6} /\ gotCount = saidCount /\ bitcnt # 0
  BY <1>1 DEF InByte, Loop200Inv
<1>3. pc' = "bitloop" /\ bitcnt' = 6 /\ last' = s /\ gotCount' = gotCount
  BY <1>1, <1>2 DEF Loop200, Count, heard
<1>4. clock \in Clocks
  BY DEF StoreInv
<1> QED
  BY <1>1, <1>2, <1>3, <1>4, EndKept DEF EndSeen, Right, Unrolled

LEMMA SE0Kept200 ==
  ASSUME StoreInv, stage = "data", InEnd, clock = 200,
         NEW s, Loop200(s), s = "SE0", UNCHANGED saying
  PROVE  /\ pc' = "se0" /\ gotCount' = saidCount' /\ cnt' = USB_BUFSIZE - saidCount'
         /\ gotCount' = gotCount
<1>1. pc = "bitloop" /\ bitcnt = 6 /\ gotCount = saidCount
  BY DEF InEnd
<1>2. pc' = "se0" /\ UNCHANGED <<cnt, gotCount, saidCount>>
  BY <1>1 DEF Loop200, heard, saying
<1>3. cnt = USB_BUFSIZE - gotCount
  BY <1>1 DEF StoreInv, Counted, Receiving, Unrolled
<1> QED
  BY <1>1, <1>2, <1>3

LEMMA DecodedRor ==
  ASSUME NEW p \in 1 .. 7, NEW o \in 0 .. 6, NEW e \in 0 .. 6, NEW r, NEW x, NEW y, NEW byte,
         NEW one \in BOOLEAN,
         r \subseteq Bit, x \subseteq Bit, e \in {o, o - 2}, p + o <= 7, one <=> p \in byte,
         \A i \in Bit : i \in y <=> i + (o - e) \in x,
         DecodedAt(p, o, r, x, byte)
  PROVE  DecodedAt(p + 1, e, Ror(r, one), y, byte)
<1>1. Ror(r, one) = {i \in Bit : i + 1 \in r \/ (i = 7 /\ one)}
  BY RorBits
<1>2. \A i : i \in x => i \in Bit /\ i < p + o
  BY DEF DecodedAt, Bit
<1>3. ASSUME NEW i \in 0 .. p
      PROVE  (i + 8 - (p + 1) \in Ror(r, one) <=> i + e \in y) <=> i \notin byte
  <2>1. PICK m \in Bit : m = i + 8 - (p + 1)
    BY DEF Bit
  <2>2. PICK n \in Bit : n = i + e
    BY DEF Bit
  <2>3. n \in y <=> i + o \in x
    <3>1. n + (o - e) = i + o
      BY <2>2
    <3> QED
      BY <3>1
  <2>4. CASE i = p
    <3>1. m = 7 /\ m + 1 \notin r
      BY <2>1, <2>4 DEF Bit
    <3>2. i + o \notin x
      BY <1>2, <2>4
    <3> QED
      BY <1>1, <2>1, <2>2, <2>3, <2>4, <3>1, <3>2
  <2>5. CASE i < p
    <3>1. m # 7 /\ m + 1 = i + 8 - p /\ i \in 0 .. p - 1
      BY <2>1, <2>5
    <3>2. (i + 8 - p \in r <=> i + o \in x) <=> i \notin byte
      BY <3>1 DEF DecodedAt
    <3> QED
      BY <1>1, <2>1, <2>2, <2>3, <3>1, <3>2
  <2> QED
    BY <2>4, <2>5
<1>4. ASSUME NEW i \in Bit, i >= p + 1 + e PROVE i \notin y
  <2>1. PICK m \in Int : m = i + (o - e) /\ m >= p + o
    BY <1>4 DEF Bit
  <2>2. m \notin x
    BY <1>2, <2>1
  <2> QED
    BY <2>1, <2>2
<1>5. p + 1 - 1 = p
  OBVIOUS
<1> QED
  BY <1>3, <1>4, <1>5 DEF DecodedAt

LEMMA DecodedUnstuff ==
  ASSUME NEW p \in 1 .. 8, NEW o \in 0 .. 6, NEW e \in 0 .. 6, NEW r, NEW x, NEW y, NEW byte,
         r \subseteq Bit, x \subseteq Bit, e \in {o, o - 2}, p + o <= 8, p - 1 \in byte,
         \A i \in Bit : i \in y <=> i + (o - e) \in x \/ i + (o - e) = p - 1 + o,
         DecodedAt(p, o, r, x, byte)
  PROVE  DecodedAt(p, e, r \ {7}, y, byte)
<1>1. \A i : i \in x => i \in Bit /\ i < p + o
  BY DEF DecodedAt, Bit
<1>2. ASSUME NEW i \in 0 .. p - 1
      PROVE  (i + 8 - p \in r \ {7} <=> i + e \in y) <=> i \notin byte
  <2>1. PICK n \in Bit : n = i + e
    BY DEF Bit
  <2>2. n + (o - e) = i + o
    BY <2>1
  <2>3. n \in y <=> i + o \in x \/ i + o = p - 1 + o
    BY <2>2
  <2>4. CASE i = p - 1
    <3>1. i + 8 - p = 7
      BY <2>4
    <3> QED
      BY <2>1, <2>3, <2>4, <3>1
  <2>5. CASE i < p - 1
    <3>1. i + 8 - p # 7 /\ i + o # p - 1 + o
      BY <2>5
    <3>2. (i + 8 - p \in r <=> i + o \in x) <=> i \notin byte
      BY DEF DecodedAt
    <3> QED
      BY <2>1, <2>3, <3>1, <3>2
  <2> QED
    BY <2>4, <2>5
<1>3. ASSUME NEW i \in Bit, i >= p + e PROVE i \notin y
  <2>1. PICK m \in Int : m = i + (o - e) /\ m >= p + o /\ m # p - 1 + o
    BY <1>3 DEF Bit
  <2>2. m \notin x
    BY <1>1, <2>1
  <2> QED
    BY <2>1, <2>2
<1> QED
  BY <1>2, <1>3 DEF DecodedAt

LEMMA DecodedWhole ==
  ASSUME NEW r, NEW x, NEW byte, r \subseteq Bit, x \subseteq Bit, byte \in Byte,
         DecodedAt(8, 0, r, x, byte)
  PROVE  Xor(x, r) = byte
<1>1. \A i \in Bit : (i \in r <=> i \in x) <=> i \notin byte
  <2> SUFFICES ASSUME NEW i \in Bit PROVE (i \in r <=> i \in x) <=> i \notin byte
    OBVIOUS
  <2>1. i \in 0 .. 8 - 1 /\ i + 8 - 8 = i /\ i + 0 = i
    BY DEF Bit
  <2> QED
    BY <2>1 DEF DecodedAt
<1> QED
  BY <1>1 DEF Xor, Byte

LEMMA RunRor ==
  ASSUME NEW n \in 0 .. 5, NEW r, r \subseteq Bit, NEW one \in BOOLEAN, RunAt(n, r)
  PROVE  RunAt(IF one THEN n + 1 ELSE 0, Ror(r, one))
<1>1. Ror(r, one) = {i \in Bit : i + 1 \in r \/ (i = 7 /\ one)}
  BY RorBits
<1>2. 7 \in Ror(r, one) <=> one
  BY <1>1 DEF Bit
<1>3. CASE ~one
  BY <1>2, <1>3 DEF RunAt
<1>4. CASE one
  <2>1. \A d \in 0 .. 4 : 7 - (d + 1) \in Ror(r, one) <=> 7 - d \in r
    <3> SUFFICES ASSUME NEW d \in 0 .. 4 PROVE 7 - (d + 1) \in Ror(r, one) <=> 7 - d \in r
      OBVIOUS
    <3>1. 7 - (d + 1) \in Bit /\ 7 - (d + 1) + 1 = 7 - d /\ 7 - (d + 1) # 7
      BY DEF Bit
    <3> QED
      BY <1>1, <3>1
  <2>2. \A d \in 0 .. 5 : d < n + 1 => 7 - d \in Ror(r, one)
    <3> SUFFICES ASSUME NEW d \in 0 .. 5, d < n + 1 PROVE 7 - d \in Ror(r, one)
      OBVIOUS
    <3>1. CASE d = 0
      <4>1. 7 - d = 7
        BY <3>1
      <4> QED
        BY <1>2, <1>4, <4>1
    <3>2. CASE d > 0
      <4>1. PICK c \in 0 .. 4 : d = c + 1 /\ c < n
        BY <3>2
      <4>2. 7 - c \in r
        BY <4>1 DEF RunAt
      <4> QED
        BY <2>1, <4>1, <4>2
    <3> QED
      BY <3>1, <3>2
  <2>3. n + 1 <= 5 => 7 - (n + 1) \notin Ror(r, one)
    <3>1. 7 - n \notin r
      BY DEF RunAt
    <3> QED
      BY <2>1, <3>1
  <2> QED
    BY <1>4, <2>2, <2>3 DEF RunAt
<1> QED
  BY <1>3, <1>4

LEMMA SixRun ==
  ASSUME NEW n \in 0 .. 6, NEW r, RunAt(n, r)
  PROVE  SixOnes(r) <=> n = 6
<1>1. CASE n = 6
  <2>1. ASSUME NEW i \in 2 .. 7 PROVE i \in r
    <3>1. 7 - i \in 0 .. 5 /\ 7 - i < n /\ 7 - (7 - i) = i
      BY <1>1
    <3> QED
      BY <3>1 DEF RunAt
  <2> QED
    BY <1>1, <2>1 DEF SixOnes
<1>2. CASE n # 6
  <2>1. 7 - n \in 2 .. 7 /\ 7 - n \notin r
    BY <1>2 DEF RunAt
  <2> QED
    BY <1>2, <2>1 DEF SixOnes
<1> QED
  BY <1>1, <1>2

LEMMA LsrTwice ==
  ASSUME NEW r, r \subseteq Bit
  PROVE  Lsr(Lsr(r)) \subseteq Bit /\ \A i \in Bit : i \in Lsr(Lsr(r)) <=> i + 2 \in r
<1>1. Lsr(r) = {i \in Bit : i + 1 \in r}
  BY LsrBits
<1>2. Lsr(Lsr(r)) = {i \in Bit : i + 1 \in Lsr(r)}
  BY <1>1, LsrBits
<1>3. ASSUME NEW i \in Bit PROVE i \in Lsr(Lsr(r)) <=> i + 2 \in r
  <2>1. i + 2 \in r => i + 1 \in Bit
    BY DEF Bit
  <2>2. i + 1 + 1 = i + 2
    BY DEF Bit
  <2> QED
    BY <1>1, <1>2, <2>1, <2>2
<1> QED
  BY <1>2, <1>3

LEMMA Places160 ==
  ASSUME Place160, saidCount \in Nat, bitcnt \in Nat
  PROVE  /\ place \in 1 .. 8
         /\ place = 1 => pc = "odd" /\ bitcnt = 86 - saidCount
         /\ place = 2 => pc = "even" /\ bitcnt = 171 - saidCount
         /\ place = 3 => pc = "odd" /\ bitcnt = 171 - saidCount
         /\ place = 4 => pc = "even" /\ bitcnt = 256 - saidCount
         /\ place = 5 => pc = "odd" /\ bitcnt = 256 - saidCount
         /\ place = 6 => pc = "bit6" /\ bitcnt = 85 - saidCount
         /\ place = 7 => pc = "bit7" /\ bitcnt = 85 - saidCount
         /\ place = 8 => pc = "bit0" /\ bitcnt = 85 - saidCount
<1>1. \/ place = 1 /\ pc = "odd" /\ bitcnt + saidCount = 86
      \/ place = 2 /\ pc = "even" /\ bitcnt + saidCount = 171
      \/ place = 3 /\ pc = "odd" /\ bitcnt + saidCount = 171
      \/ place = 4 /\ pc = "even" /\ bitcnt + saidCount = 256
      \/ place = 5 /\ pc = "odd" /\ bitcnt + saidCount = 256
      \/ place = 6 /\ pc = "bit6" /\ bitcnt + saidCount = 85
      \/ place = 7 /\ pc = "bit7" /\ bitcnt + saidCount = 85
      \/ place = 8 /\ pc = "bit0" /\ bitcnt + saidCount = 85
  BY DEF Place160
<1> QED
  BY <1>1

LEMMA Kept160 ==
  ASSUME clock = 160, clock' = clock, last' = line', saidCount' \in Nat, saidCount' > 0, Loop160Inv'
  PROVE  pc' \in Receiving' /\ InByte'
<1>1. Place160' => pc' \in {"odd", "even", "bit6", "bit7", "bit0"}
  BY DEF Place160
<1> QED
  BY <1>1 DEF Loop160Inv, InByte, Receiving, Unrolled

LEMMA Six160 ==
  ASSUME RealPids, Saying, Loop160Inv, saidCount > 0
  PROVE  SixOnes(shift) <=> run = 6
<1>1. CASE saidCount = 1 /\ place < 8
  <2>1. run <= 5
    BY <1>1, PidRun
  <2>2. shift \subseteq 8 - place .. 7 /\ x3 = {Offset} /\ DecodedAt(place, Offset, shift, x3, said)
    BY <1>1 DEF Loop160Inv
  <2>3. place \in 1 .. 7 /\ said \in Pids
    BY <1>1 DEF Saying
  <2>4. ASSUME SixOnes(shift) PROVE FALSE
    <3>1. 2 \in shift
      BY <2>4 DEF SixOnes
    <3>2. place \in {6, 7}
      BY <2>2, <2>3, <3>1
    <3>3. Offset = 0
      BY <3>2 DEF Offset
    <3>4. ASSUME NEW i \in {1, 5} PROVE i \in said
      <4>1. i + 8 - place \in 2 .. 7 /\ i \in 0 .. place - 1 /\ i + 0 # 0
        BY <3>2
      <4>2. i + 8 - place \in shift
        BY <2>4, <4>1 DEF SixOnes
      <4>3. i + 0 \notin x3
        BY <2>2, <3>3, <4>1
      <4> QED
        BY <2>2, <3>3, <4>1, <4>2, <4>3 DEF DecodedAt
    <3>5. 1 \in 0 .. 3 /\ 1 + 4 = 5
      OBVIOUS
    <3> QED
      BY <2>3, <3>4, <3>5 DEF RealPids
  <2> QED
    BY <2>1, <2>4 DEF Saying
<1>2. CASE ~(saidCount = 1 /\ place < 8)
  BY <1>2, SixRun DEF Loop160Inv, Saying
<1> QED
  BY <1>1, <1>2

LEMMA Stuffed160 ==
  ASSUME RealPids, Saying, InByte, clock = 160,
         NEW s, Loop160(s), SaysStuffed(s), Saying', line' = s, clock' = clock
  PROVE  KeptUp /\ Right
<1>1. last = line /\ s \in {"J", "K"}
  BY DEF InByte, SaysStuffed, Saying, Change
<1>2. /\ run = 6 /\ run' = 0 /\ UNCHANGED <<place, said, saidCount>> /\ saidCount > 1 /\
         saidCount \in Nat
      /\ place \in 1 .. 8 /\ place - 1 \in said /\ said \in Byte
  BY DEF SaysStuffed, Saying, saying
<1>3. /\ shift \subseteq Bit /\ x3 \subseteq Bit /\ Place160 /\ bitcnt \in Nat
      /\ gotCount = saidCount - 1
      /\ DecodedAt(place, Offset, shift, x3, said)
  BY <1>2 DEF InByte, Loop160Inv
<1>4. SixOnes(shift)
  BY <1>2, Six160 DEF InByte
<1>5. pc # "first"
  BY <1>2, <1>3, Places160
<1>6. /\ shift' = shift \ {7} /\ last' = s
      /\ UNCHANGED <<pc, bitcnt>>
      /\ IF pc = "bit0" THEN Store(x3') ELSE UNCHANGED heard
      /\ x3' = CASE pc = "odd" -> Lsr(Lsr(x3 \cup {6}))
                 [] pc \in {"even", "bit6"} -> x3 \cup {5}
                 [] pc = "bit7" -> x3 \cup {6}
                 [] pc = "bit0" -> Xor(x3 \cup {7}, shift')
  BY <1>1, <1>4, <1>5 DEF Loop160
<1>7. RunAt(0, shift') /\ ~SixOnes(shift') /\ shift' \subseteq Bit
  <2>1. 7 - 0 = 7
    OBVIOUS
  <2> QED
    BY <1>3, <1>6, <2>1 DEF RunAt, SixOnes
<1>8. Place160'
  BY <1>2, <1>3, <1>6 DEF Place160
<1>9. saidCount' = saidCount /\ saidCount > 1 /\ saidCount \in Nat /\ place' = place /\ run' = 0
       /\ bitcnt' \in Nat /\ RunAt(run', shift')
  BY <1>2, <1>3, <1>6, <1>7
<1>10. CASE place = 8
  <2>1. pc = "bit0" /\ Offset = 0
    BY <1>2, <1>3, <1>10, Places160 DEF Offset
  <2>2. x3' = Xor(x3 \cup {7}, shift \ {7}) /\ Store(x3')
    BY <1>6, <2>1
  <2>3. DecodedAt(8, 0, shift \ {7}, x3 \cup {7}, said)
    <3>1. \A i \in Bit : i \in x3 \cup {7} <=> i + (0 - 0) \in x3 \/ i + (0 - 0) = 8 - 1 + 0
      BY DEF Bit
    <3> QED
      BY <1>2, <1>3, <1>10, <2>1, <3>1, DecodedUnstuff
  <2>4. x3' = said
    <3>1. shift \ {7} \subseteq Bit /\ x3 \cup {7} \subseteq Bit
      BY <1>3 DEF Bit
    <3> QED
      BY <1>2, <2>2, <2>3, <3>1, DecodedWhole
  <2>5. got' = said /\ gotCount' = saidCount
    BY <1>2, <1>3, <2>2, <2>4 DEF Store
  <2>6. Loop160Inv'
    <3>1. x3' \subseteq Bit
      BY <1>2, <2>4 DEF Byte
    <3> QED
      BY <1>7, <1>8, <1>10, <1>9, <2>5, <3>1 DEF Loop160Inv
  <2> QED
    BY <1>2, <1>6, <2>5, <2>6, Kept160 DEF KeptUp, Right
<1>11. CASE place < 8
  <2>1. pc # "bit0"
    BY <1>2, <1>3, <1>11, Places160
  <2>2. gotCount' = gotCount
    BY <1>6, <2>1 DEF heard
  <2>3. x3' \subseteq Bit /\ DecodedAt(place', Offset', shift', x3', said')
    <3>1. CASE place \in {1, 3, 5}
      <4>1. pc = "odd" /\ Offset = 7 - place /\ Offset' = 5 - place
        BY <1>2, <1>3, <1>4, <1>6, <1>7, <3>1, Places160 DEF Offset
      <4>2. x3' = Lsr(Lsr(x3 \cup {6})) /\ x3 \cup {6} \subseteq Bit
        BY <1>3, <1>6, <4>1 DEF Bit
      <4>3. x3' \subseteq Bit /\ \A i \in Bit : i \in x3' <=> i + 2 \in x3 \cup {6}
        BY <4>2, LsrTwice
      <4> DEFINE o == 7 - place
                 e == 5 - place
      <4>4. o \in 0 .. 6 /\ e \in 0 .. 6 /\ e \in {o, o - 2} /\ o - e = 2 /\ place + o <= 8 /\
            place - 1 + o = 6
        BY <3>1
      <4>5. DecodedAt(place, o, shift, x3, said)
        BY <1>3, <4>1
      <4> HIDE DEF o, e
      <4>6. \A i \in Bit : i \in x3' <=> i + (o - e) \in x3 \/ i + (o - e) = place - 1 + o
        BY <4>3, <4>4 DEF Bit
      <4>7. DecodedAt(place, e, shift \ {7}, x3', said)
        BY <1>2, <1>3, <4>4, <4>5, <4>6, DecodedUnstuff
      <4> QED
        BY <1>2, <1>6, <4>1, <4>3, <4>7 DEF e
    <3>2. CASE place \in {2, 4, 6}
      <4>1. pc \in {"even", "bit6"} /\ Offset = 6 - place /\ Offset' = 6 - place
        BY <1>2, <1>3, <1>6, <3>2, Places160 DEF Offset
      <4>2. x3' = x3 \cup {5} /\ x3' \subseteq Bit
        BY <1>3, <1>6, <4>1 DEF Bit
      <4> DEFINE o == 6 - place
      <4>4. o \in 0 .. 6 /\ o \in {o, o - 2} /\ o - o = 0 /\ place + o <= 8 /\ place - 1 + o = 5
        BY <3>2
      <4>5. DecodedAt(place, o, shift, x3, said)
        BY <1>3, <4>1
      <4> HIDE DEF o
      <4>6. \A i \in Bit : i \in x3' <=> i + (o - o) \in x3 \/ i + (o - o) = place - 1 + o
        BY <4>2, <4>4 DEF Bit
      <4>7. DecodedAt(place, o, shift \ {7}, x3', said)
        BY <1>2, <1>3, <4>4, <4>5, <4>6, DecodedUnstuff
      <4> QED
        BY <1>2, <1>6, <4>1, <4>2, <4>7 DEF o
    <3>3. CASE place = 7
      <4>1. pc = "bit7" /\ Offset = 0 /\ Offset' = 0
        BY <1>2, <1>3, <1>6, <3>3, Places160 DEF Offset
      <4>2. x3' = x3 \cup {6} /\ x3' \subseteq Bit
        BY <1>3, <1>6, <4>1 DEF Bit
      <4>6. \A i \in Bit : i \in x3' <=> i + (0 - 0) \in x3 \/ i + (0 - 0) = 7 - 1 + 0
        BY <4>2 DEF Bit
      <4>7. DecodedAt(7, 0, shift \ {7}, x3', said)
        BY <1>2, <1>3, <3>3, <4>1, <4>6, DecodedUnstuff
      <4> QED
        BY <1>2, <1>6, <3>3, <4>1, <4>2, <4>7
    <3> QED
      BY <1>2, <1>11, <3>1, <3>2, <3>3
  <2>4. Loop160Inv'
    BY <1>3, <1>7, <1>8, <1>11, <1>9, <2>2, <2>3 DEF Loop160Inv
  <2>5. gotCount \in Nat
    BY <1>2, <1>3
  <2> QED
    BY <1>2, <1>6, <2>2, <2>4, <2>5, Kept160 DEF KeptUp, Right
<1> QED
  BY <1>2, <1>10, <1>11

\* What a step that samples a bit finds.
Found160(s, one) ==
  /\ last = line /\ s \in {"J", "K"} /\ (s = last <=> one)
  /\ place \in 1 .. 8 /\ run \in 0 .. 5 /\ run' = (IF one THEN run + 1 ELSE 0)
  /\ saidCount \in 0 .. 12
  /\ ~SixOnes(shift)
  /\ IF place < 8 THEN place' = place + 1 /\ said' = said /\ saidCount' = saidCount
                  ELSE place' = 1 /\ saidCount' = saidCount + 1
  /\ one <=> place' - 1 \in said'

LEMMA Finds160 ==
  ASSUME RealPids, StoreInv, stage = "data", Saying, InByte, clock = 160, NEW s, Loop160(s),
         NEW one \in BOOLEAN, SaysBit(s, one), line' = s
  PROVE  Found160(s, one)
<1>1. last = line /\ s \in {"J", "K"} /\ (s = last <=> one)
  BY DEF InByte, SaysBit, Saying, Change
<1>2. /\ place \in 1 .. 8 /\ run \in 0 .. 5 /\ run' = (IF one THEN run + 1 ELSE 0)
      /\ IF place < 8 THEN place' = place + 1 /\ said' = said /\ saidCount' = saidCount
                      ELSE place' = 1 /\ saidCount' = saidCount + 1
      /\ one <=> place' - 1 \in said'
  BY DEF Saying, SaysBit, saying
<1>3. ~SixOnes(shift)
  <2>1. CASE saidCount = 0
    BY <2>1 DEF InByte, Loop160Inv, SixOnes
  <2>2. CASE saidCount > 0
    BY <1>2, <2>2, Six160 DEF InByte
  <2> QED
    BY <2>1, <2>2 DEF Saying
<1>4. saidCount \in 0 .. 12
  <2>1. saidCount \in Nat /\ (saidCount > 0 => gotCount \in {saidCount, saidCount - 1})
    BY DEF Saying, InByte, Loop160Inv
  <2>2. pc \in Receiving
    BY DEF Loop160, Receiving, Unrolled
  <2>3. cnt \in Nat /\ cnt = 11 - Counted /\ gotCount \in Nat
    BY <2>2 DEF StoreInv, USB_BUFSIZE
  <2>4. Counted = gotCount \/ Counted = gotCount + 1
    BY DEF Counted
  <2> QED
    BY <2>1, <2>3, <2>4
<1> QED
  BY <1>1, <1>2, <1>3, <1>4 DEF Found160

LEMMA FirstBit160 ==
  ASSUME Saying, InByte, clock = 160, saidCount = 0, StoreInv, stage = "data",
         NEW s, Loop160(s), NEW one \in BOOLEAN, Found160(s, one), Saying', line' = s,
         clock' = clock
  PROVE  KeptUp /\ Right
<1>1. /\ line = "K" /\ place = 8 /\ run = 1 /\ pc = "first" /\ shift = {} /\ x3 = {4} /\ bitcnt = 85
      /\ gotCount = 0
  BY DEF Saying, InByte, Loop160Inv, StoreInv, Before
<1>2. place' = 1 /\ saidCount' = 1 /\ (one <=> 0 \in said') /\ (s = "J" <=> ~one)
  BY <1>1 DEF Found160
<1>3. /\ pc' = "odd" /\ shift' = (IF one THEN {} ELSE {7}) /\ x3' = {4} /\ bitcnt' = 85 /\ last' = s
      /\ got' = got /\ gotCount' = 0
  BY <1>1, <1>2 DEF Loop160, Found160, DMinus, heard
<1>4. ~SixOnes(shift')
  BY <1>3 DEF SixOnes
<1>5. Offset' = 4
  BY <1>2, <1>3, <1>4 DEF Offset
<1>6. Place160'
  BY <1>2, <1>3 DEF Place160
<1>7. DecodedAt(place', Offset', shift', x3', said')
  <2>1. \A i \in 0 .. 1 - 1 : i = 0 /\ i + 8 - 1 = 7 /\ i + 4 = 4
    OBVIOUS
  <2>2. 7 \in shift' <=> 0 \notin said'
    BY <1>2, <1>3
  <2>3. DecodedAt(1, 4, shift', {4}, said')
    BY <2>1, <2>2 DEF DecodedAt, Bit
  <2> QED
    BY <1>2, <1>3, <1>5, <2>3
<1>8. shift' \subseteq Bit /\ x3' \subseteq Bit /\ shift' \subseteq 8 - place' .. 7
  BY <1>2, <1>3 DEF Bit
<1>9. Loop160Inv'
  BY <1>2, <1>3, <1>5, <1>6, <1>7, <1>8 DEF Loop160Inv
<1> QED
  BY <1>1, <1>2, <1>3, <1>9, Kept160 DEF KeptUp, Right

LEMMA ByteBegins160 ==
  ASSUME Saying, InByte, clock = 160, saidCount > 0, place = 8,
         NEW s, Loop160(s), NEW one \in BOOLEAN, Found160(s, one), Saying', line' = s,
         clock' = clock
  PROVE  KeptUp /\ Right
<1>1. /\ pc = "bit0" /\ bitcnt = 85 - saidCount /\ shift \subseteq Bit /\ x3 \subseteq Bit
      /\ gotCount = saidCount /\ RunAt(run, shift) /\ saidCount \in 1 .. 12
  BY Places160 DEF InByte, Loop160Inv, Found160
<1>2. place' = 1 /\ saidCount' = saidCount + 1 /\ (one <=> 0 \in said')
  BY DEF Found160
<1> DEFINE kept == x3 \cap 0 .. 5
<1>3. /\ pc' = "odd" /\ shift' = Ror(shift, one) /\ last' = s
      /\ x3' = IF SixOnes(shift') THEN kept ELSE Lsr(Lsr(kept))
      /\ bitcnt' = bitcnt /\ gotCount' = gotCount
  BY <1>1 DEF Loop160, Found160, heard
<1>4. kept \subseteq Bit /\ \A i \in kept : i <= 5
  BY <1>1 DEF Bit
<1> HIDE DEF kept
<1>5. Ror(shift, one) = {i \in Bit : i + 1 \in shift \/ (i = 7 /\ one)}
  BY <1>1, RorBits
<1>6. (7 \in shift' <=> one) /\ shift' \subseteq Bit
  BY <1>1, <1>3, <1>5 DEF Bit
<1>7. Place160'
  <2>1. bitcnt' + saidCount' = 86
    BY <1>1, <1>2, <1>3
  <2> QED
    BY <1>2, <1>3, <2>1 DEF Place160
<1>8. x3' \subseteq Bit /\ \A i \in x3' : i < Offset'
  <2>1. CASE SixOnes(shift')
    <3>1. Offset' = 6
      BY <1>2, <1>3, <2>1 DEF Offset
    <3> QED
      BY <1>3, <1>4, <2>1, <3>1 DEF Bit
  <2>2. CASE ~SixOnes(shift')
    <3>1. Offset' = 4
      BY <1>2, <1>3, <2>2 DEF Offset
    <3>2. x3' = Lsr(Lsr(kept))
      BY <1>3, <2>2
    <3>3. x3' \subseteq Bit /\ \A i \in Bit : i \in x3' <=> i + 2 \in kept
      BY <1>4, <3>2, LsrTwice
    <3>4. ASSUME NEW i \in x3' PROVE i < 4
      <4>1. i \in Bit /\ i + 2 \in kept
        BY <3>3
      <4> QED
        BY <1>4, <4>1 DEF Bit
    <3> QED
      BY <3>1, <3>3, <3>4
  <2> QED
    BY <2>1, <2>2
<1>9. PICK o \in 4 .. 6 : o = Offset'
  BY <1>2, <1>3 DEF Offset
<1>10. DecodedAt(place', Offset', shift', x3', said')
  <2>1. \A i \in 0 .. 1 - 1 : i = 0 /\ i + 8 - 1 = 7 /\ i + o = o
    OBVIOUS
  <2>2. \A i \in x3' : i < o
    BY <1>8, <1>9
  <2>3. o \notin x3' /\ \A i \in Bit : i >= 1 + o => i \notin x3'
    BY <2>2 DEF Bit
  <2>4. DecodedAt(1, o, shift', x3', said')
    BY <1>2, <1>6, <2>1, <2>3 DEF DecodedAt
  <2> QED
    BY <1>2, <1>9, <2>4
<1>11. RunAt(run', shift')
  BY <1>1, <1>3, RunRor DEF Found160
<1>12. bitcnt' \in Nat /\ saidCount' > 0 /\ saidCount' > 1 /\ saidCount' \in Nat /\
       gotCount' = saidCount' - 1
  BY <1>1, <1>2, <1>3
<1>13. Loop160Inv'
  BY <1>2, <1>6, <1>7, <1>8, <1>10, <1>11, <1>12 DEF Loop160Inv
<1>14. last' = line' /\ gotCount' = gotCount /\ gotCount \in Nat
  BY <1>1, <1>3
<1> QED
  <2>1. pc' \in Receiving' /\ InByte'
    BY <1>12, <1>13, <1>14, Kept160
  <2>2. Right
    BY <1>14 DEF Right
  <2> QED
    BY <2>1, <2>2 DEF KeptUp

LEMMA ShiftIn160 ==
  ASSUME NEW p \in 1 .. 7, NEW r, r \subseteq Bit, r \subseteq 8 - p .. 7, NEW one \in BOOLEAN
  PROVE  Ror(r, one) \subseteq 8 - (p + 1) .. 7
<1>1. Ror(r, one) = {i \in Bit : i + 1 \in r \/ (i = 7 /\ one)}
  BY RorBits
<1>2. ASSUME NEW i \in Bit, i + 1 \in r PROVE i \in 8 - (p + 1) .. 7
  <2>1. i + 1 \in 8 - p .. 7
    BY <1>2
  <2> QED
    BY <2>1 DEF Bit
<1>3. 7 \in 8 - (p + 1) .. 7
  OBVIOUS
<1> QED
  BY <1>1, <1>2, <1>3

LEMMA ByteGoesOn160 ==
  ASSUME RealPids, Saying, InByte, clock = 160, saidCount > 0, place < 7,
         NEW s, Loop160(s), NEW one \in BOOLEAN, Found160(s, one), Saying', line' = s,
         clock' = clock,
         ~(pc = "bit6" /\ cnt = 0)
  PROVE  KeptUp /\ Right
<1>1. /\ shift \subseteq Bit /\ x3 \subseteq Bit /\ Place160 /\ bitcnt \in Nat
      /\ gotCount = saidCount - 1 /\ saidCount \in 1 .. 12
      /\ DecodedAt(place, Offset, shift, x3, said)
      /\ saidCount = 1 => x3 = {Offset} /\ shift \subseteq 8 - place .. 7
      /\ saidCount > 1 => RunAt(run, shift)
  BY DEF InByte, Loop160Inv, Found160
<1>2. place' = place + 1 /\ said' = said /\ saidCount' = saidCount /\ place \in 1 .. 6 /\
      (one <=> place \in said')
  BY DEF Found160
<1>3. ~SixOnes(shift) /\ s # "SE0" /\ pc \notin {"first", "bit0", "bit7"}
  BY <1>1, <1>2, Places160 DEF Found160
<1>4. shift' = Ror(shift, one) /\ last' = s /\ got' = got /\ gotCount' = gotCount
  BY <1>3 DEF Loop160, Found160, heard
<1>5. shift' \subseteq Bit
  <2>1. Ror(shift, one) = {i \in Bit : i + 1 \in shift \/ (i = 7 /\ one)}
    BY <1>1, RorBits
  <2> QED
    BY <1>4, <2>1
<1>6. saidCount = 1 => shift' \subseteq 8 - place' .. 7
  BY <1>1, <1>2, <1>4, ShiftIn160
<1>7. saidCount > 1 => RunAt(run', shift')
  BY <1>1, <1>4, RunRor DEF Found160
<1>8. PICK o \in 0 .. 6 : o = Offset /\ (place \in {2, 4, 6} => o = 6 - place) /\
        (place \in {1, 3, 5} => o = 5 - place)
  <2>1. CASE place \in {1, 3, 5}
    BY <1>1, <1>3, <2>1, Places160 DEF Offset
  <2>2. CASE place \in {2, 4, 6}
    BY <1>1, <1>3, <2>2, Places160 DEF Offset
  <2> QED
    BY <1>2, <2>1, <2>2
<1>9. place + o <= 6
  BY <1>2, <1>8
<1>10. \A i \in x3 : i \in Bit /\ i < place + o
  <2>1. DecodedAt(place, o, shift, x3, said)
    BY <1>1, <1>8
  <2> QED
    BY <1>1, <1>2, <2>1 DEF DecodedAt, Bit
<1>11. CASE place \in {2, 4}
  <2> DEFINE kept == x3 \cap 0 .. 5
  <2>1. pc = "even"
    BY <1>1, <1>11, Places160
  <2>2. pc' = "odd" /\ bitcnt' = bitcnt /\ x3' = IF SixOnes(shift') THEN kept ELSE Lsr(Lsr(kept))
    BY <1>3, <1>4, <2>1 DEF Loop160, Found160
  <2>3. kept = x3
    BY <1>8, <1>10, <1>11 DEF Bit
  <2> HIDE DEF kept
  <2>4. Place160'
    BY <1>1, <1>2, <1>11, <2>2, Places160 DEF Place160
  <2>5. x3' \subseteq Bit /\ DecodedAt(place', Offset', shift', x3', said') /\
        (saidCount = 1 => x3' = {Offset'})
    <3>1. CASE SixOnes(shift')
      <4>1. Offset' = o
        BY <1>2, <1>8, <1>11, <2>2, <3>1 DEF Offset
      <4>2. x3' = x3
        BY <2>2, <2>3, <3>1
      <4>3. \A i \in Bit : i \in x3' <=> i + (o - o) \in x3
        BY <4>2 DEF Bit
      <4>4. DecodedAt(place + 1, o, Ror(shift, one), x3', said)
        BY <1>1, <1>2, <1>8, <1>9, <4>3, DecodedRor
      <4> QED
        BY <1>1, <1>2, <1>4, <1>8, <4>1, <4>2, <4>4
    <3>2. CASE ~SixOnes(shift')
      <4>1. o - 2 \in 0 .. 6 /\ Offset' = o - 2
        BY <1>2, <1>8, <1>11, <2>2, <3>2 DEF Offset
      <4>2. x3' \subseteq Bit /\ \A i \in Bit : i \in x3' <=> i + 2 \in x3
        BY <1>1, <2>2, <2>3, <3>2, LsrTwice
      <4>3. \A i \in Bit : i \in x3' <=> i + (o - (o - 2)) \in x3
        BY <4>2 DEF Bit
      <4>4. DecodedAt(place + 1, o - 2, Ror(shift, one), x3', said)
        BY <1>1, <1>2, <1>8, <1>9, <4>1, <4>3, DecodedRor
      <4>5. ASSUME saidCount = 1 PROVE x3' = {o - 2}
        <5>1. x3 = {o}
          BY <1>1, <1>8, <4>5
        <5>2. \A i \in Bit : i \in x3' <=> i = o - 2
          BY <4>2, <5>1 DEF Bit
        <5>3. o - 2 \in Bit
          BY <4>1 DEF Bit
        <5> QED
          BY <4>2, <5>2, <5>3
      <4> QED
        BY <1>2, <1>4, <4>1, <4>2, <4>4, <4>5
    <3> QED
      BY <3>1, <3>2
  <2>6. saidCount' = saidCount /\ saidCount > 0 /\ saidCount \in Nat /\ place' < 8 /\
        gotCount' = saidCount' - 1 /\ bitcnt' \in Nat
    BY <1>1, <1>2, <1>4, <1>11, <2>2
  <2>7. Loop160Inv'
    BY <1>5, <1>6, <1>7, <2>4, <2>5, <2>6 DEF Loop160Inv
  <2>8. last' = line' /\ gotCount' = gotCount /\ gotCount \in Nat
    BY <1>1, <1>4
  <2> QED
    <3>1. pc' \in Receiving' /\ InByte'
      BY <2>6, <2>7, <2>8, Kept160
    <3>2. Right
      BY <2>8 DEF Right
    <3> QED
      BY <3>1, <3>2 DEF KeptUp
<1>12. CASE place \in {1, 3, 5, 6}
  <2>1. /\ pc = IF place = 6 THEN "bit6" ELSE "odd"
        /\ x3' = x3
        /\ IF place = 6 THEN pc' = "bit7" /\ bitcnt' = bitcnt
           ELSE bitcnt' = (bitcnt - 171) % 256 /\ pc' = IF bitcnt < 171 THEN "even" ELSE "bit6"
    BY <1>1, <1>3, <1>12, Places160 DEF Loop160, Found160
  <2>2. Place160'
    <3>1. CASE place = 1
      <4>1. bitcnt = 86 - saidCount
        BY <1>1, <3>1, Places160
      <4>2. bitcnt < 171 /\ bitcnt' = 171 - saidCount
        BY <1>1, <2>1, <3>1, <4>1
      <4> QED
        BY <1>1, <1>2, <2>1, <3>1, <4>2 DEF Place160
    <3>2. CASE place = 3
      <4>1. bitcnt = 171 - saidCount
        BY <1>1, <3>2, Places160
      <4>2. bitcnt < 171 /\ bitcnt' = 256 - saidCount
        BY <1>1, <2>1, <3>2, <4>1
      <4> QED
        BY <1>1, <1>2, <2>1, <3>2, <4>2 DEF Place160
    <3>3. CASE place = 5
      <4>1. bitcnt = 256 - saidCount
        BY <1>1, <3>3, Places160
      <4>2. ~(bitcnt < 171) /\ bitcnt' = 85 - saidCount
        BY <1>1, <2>1, <3>3, <4>1
      <4> QED
        BY <1>1, <1>2, <2>1, <3>3, <4>2 DEF Place160
    <3>4. CASE place = 6
      <4>1. bitcnt = 85 - saidCount
        BY <1>1, <3>4, Places160
      <4> QED
        BY <1>1, <1>2, <2>1, <3>4, <4>1 DEF Place160
    <3> QED
      BY <1>12, <3>1, <3>2, <3>3, <3>4
  <2>3. Offset' = o
    <3>1. CASE place \in {1, 3}
      <4>1. ~(place' >= 6) /\ pc' = "even" /\ 6 - place' = 5 - place
        BY <1>1, <1>2, <2>1, <3>1, Places160
      <4>2. Offset' = 6 - place'
        BY <4>1 DEF Offset
      <4>3. o = 5 - place
        BY <1>8, <3>1
      <4> QED
        BY <4>1, <4>2, <4>3
    <3>2. CASE place \in {5, 6}
      BY <1>2, <1>8, <3>2 DEF Offset
    <3> QED
      BY <1>12, <3>1, <3>2
  <2>4. DecodedAt(place', Offset', shift', x3', said')
    <3>1. \A i \in Bit : i \in x3' <=> i + (o - o) \in x3
      BY <2>1 DEF Bit
    <3>2. DecodedAt(place + 1, o, Ror(shift, one), x3', said)
      BY <1>1, <1>2, <1>8, <1>9, <3>1, DecodedRor
    <3> QED
      BY <1>2, <1>4, <2>3, <3>2
  <2>5. x3' \subseteq Bit /\ (saidCount = 1 => x3' = {Offset'})
    BY <1>1, <1>8, <2>1, <2>3
  <2>6. saidCount' = saidCount /\ saidCount > 0 /\ saidCount \in Nat /\ place' < 8 /\
        gotCount' = saidCount' - 1
    BY <1>1, <1>2, <1>4, <1>12
  <2>7. bitcnt' \in Nat
    BY <1>1, <1>12, <2>1
  <2>8. Loop160Inv'
    BY <1>5, <1>6, <1>7, <2>2, <2>4, <2>5, <2>6, <2>7 DEF Loop160Inv
  <2>9. last' = line' /\ gotCount' = gotCount /\ gotCount \in Nat
    BY <1>1, <1>4
  <2> QED
    <3>1. pc' \in Receiving' /\ InByte'
      BY <2>6, <2>8, <2>9, Kept160
    <3>2. Right
      BY <2>9 DEF Right
    <3> QED
      BY <3>1, <3>2 DEF KeptUp
<1> QED
  BY <1>2, <1>11, <1>12

LEMMA ByteEnds160 ==
  ASSUME RealPids, Saying, InByte, clock = 160, saidCount > 0, place = 7,
         NEW s, Loop160(s), NEW one \in BOOLEAN, Found160(s, one), Saying', line' = s,
         clock' = clock
  PROVE  KeptUp /\ Right
<1>1. /\ shift \subseteq Bit /\ x3 \subseteq Bit /\ pc = "bit7" /\ bitcnt \in Nat /\
         bitcnt = 85 - saidCount
      /\ gotCount = saidCount - 1 /\ saidCount \in 1 .. 12
      /\ DecodedAt(7, 0, shift, x3, said)
      /\ saidCount = 1 => x3 = {0}
      /\ saidCount > 1 => RunAt(run, shift)
  BY Places160 DEF InByte, Loop160Inv, Found160, Offset
<1>2. place' = 8 /\ said' = said /\ saidCount' = saidCount /\ (one <=> 7 \in said') /\ said \in Byte
  BY <1>1 DEF Found160, Saying
<1>3. /\ pc' = "bit0" /\ shift' = Ror(shift, one) /\ last' = s /\ bitcnt' = bitcnt
      /\ SixOnes(shift') => x3' = x3 /\ gotCount' = gotCount
      /\ ~SixOnes(shift') => x3' = Xor(x3, shift') /\ Store(x3')
  BY <1>1 DEF Loop160, Found160, heard
<1>4. shift' \subseteq Bit
  <2>1. Ror(shift, one) = {i \in Bit : i + 1 \in shift \/ (i = 7 /\ one)}
    BY <1>1, RorBits
  <2> QED
    BY <1>3, <2>1
<1>5. DecodedAt(8, 0, shift', x3, said)
  <2>1. \A i \in Bit : i \in x3 <=> i + (0 - 0) \in x3
    BY DEF Bit
  <2>2. DecodedAt(7 + 1, 0, Ror(shift, one), x3, said)
    BY <1>1, <1>2, <2>1, DecodedRor
  <2> QED
    BY <1>3, <2>2
<1>6. RunAt(run', shift')
  <2>1. CASE saidCount > 1
    BY <1>1, <1>3, <2>1, RunRor DEF Found160
  <2>2. CASE saidCount = 1
    <3>1. (RealPids /\ Saying /\ saidCount = 1 /\ place = 8 =>
            \E r \in 0 .. 4 : r = run /\ 8 - r .. 7 \subseteq said /\ 7 - r \notin said)'
      BY PidEnd, PTL
    <3>2. PICK r \in 0 .. 4 : r = run' /\ 8 - r .. 7 \subseteq said /\ 7 - r \notin said
      BY <1>2, <2>2, <3>1
    <3>3. ASSUME NEW i \in 1 .. 7 PROVE i \in shift' <=> i \in said
      <4>1. i \in 0 .. 8 - 1 /\ i + 8 - 8 = i /\ i + 0 = i /\ i # 0
        OBVIOUS
      <4>2. i \notin x3
        BY <1>1, <2>2, <4>1
      <4> QED
        BY <1>5, <4>1, <4>2 DEF DecodedAt
    <3>4. ASSUME NEW d \in 0 .. 5, d < r PROVE 7 - d \in shift'
      <4>1. 7 - d \in 8 - r .. 7 /\ 7 - d \in 1 .. 7
        BY <3>4
      <4> QED
        BY <3>2, <3>3, <4>1
    <3>5. 7 - r \in 1 .. 7
      OBVIOUS
    <3>6. 7 - r \notin shift'
      BY <3>2, <3>3, <3>5
    <3>7. RunAt(r, shift')
      BY <3>4, <3>6 DEF RunAt
    <3> QED
      BY <3>2, <3>7
  <2> QED
    BY <1>1, <2>1, <2>2
<1>7. SixOnes(shift') <=> run' = 6
  <2>1. PICK r \in 0 .. 6 : r = run'
    BY DEF Saying
  <2>2. RunAt(r, shift')
    BY <1>6, <2>1
  <2> QED
    BY <2>1, <2>2, SixRun
<1>8. Place160'
  <2>1. bitcnt' + saidCount' = 85
    BY <1>1, <1>2, <1>3
  <2> QED
    BY <1>2, <1>3, <2>1 DEF Place160
<1>9. saidCount' \in Nat /\ saidCount' > 0 /\ bitcnt' \in Nat /\ gotCount \in Nat /\ last' = line'
  BY <1>1, <1>2, <1>3
<1>10. CASE run' = 6
  <2>1. x3' = x3 /\ gotCount' = gotCount /\ gotCount' = saidCount' - 1
    BY <1>1, <1>2, <1>3, <1>7, <1>10
  <2>2. Offset' = 0
    BY <1>2 DEF Offset
  <2>3. DecodedAt(place', Offset', shift', x3', said')
    BY <1>2, <1>5, <2>1, <2>2
  <2>4. Loop160Inv'
    BY <1>1, <1>2, <1>4, <1>6, <1>8, <1>9, <1>10, <2>1, <2>3 DEF Loop160Inv
  <2>5. pc' \in Receiving' /\ InByte'
    BY <1>9, <2>4, Kept160
  <2>6. Right
    <3>1. gotCount' = gotCount /\ gotCount \in Nat
      BY <1>9, <2>1
    <3> QED
      BY <3>1 DEF Right
  <2> QED
    BY <2>5, <2>6 DEF KeptUp
<1>11. CASE run' # 6
  <2>1. x3' = said /\ Store(x3')
    BY <1>1, <1>2, <1>3, <1>4, <1>5, <1>7, <1>11, DecodedWhole
  <2>2. got' = said /\ gotCount' = saidCount /\ x3' \subseteq Bit
    BY <1>1, <1>2, <2>1 DEF Store, Byte
  <2>3. run' < 6
    BY <1>11 DEF Saying
  <2>4. Loop160Inv'
    BY <1>2, <1>4, <1>6, <1>8, <1>9, <1>11, <2>2, <2>3 DEF Loop160Inv
  <2>5. pc' \in Receiving' /\ InByte'
    BY <1>9, <2>4, Kept160
  <2> QED
    BY <2>2, <2>5 DEF KeptUp, Right
<1> QED
  BY <1>10, <1>11

LEMMA Bit160 ==
  ASSUME RealPids, StoreInv, stage = "data", Saying, InByte, clock = 160, NEW s, Loop160(s),
         NEW one \in BOOLEAN, SaysBit(s, one), Saying', line' = s, clock' = clock
  PROVE  KeptUp /\ Right
<1>1. Found160(s, one)
  BY Finds160
<1>2. saidCount \in Nat /\ place \in 1 .. 8
  BY DEF Saying
<1>3. CASE pc = "bit6" /\ cnt = 0
  <2>1. saidCount > 0 /\ place = 6
    <3>1. saidCount > 0
      BY <1>2, <1>3 DEF InByte, Loop160Inv
    <3> QED
      BY <1>2, <1>3, <3>1, Places160 DEF InByte, Loop160Inv
  <2>2. gotCount = saidCount - 1
    BY <2>1 DEF InByte, Loop160Inv
  <2>3. pc' = "overflow" /\ gotCount' = gotCount
    BY <1>1, <1>3 DEF Loop160, Found160, Leave, heard
  <2>4. gotCount = 11
    <3>1. Counted = gotCount
      BY <1>3 DEF Counted, Unstored, Unrolled
    <3>2. cnt = 11 - Counted /\ gotCount \in Nat
      BY <1>3 DEF StoreInv, Receiving, Unrolled, USB_BUFSIZE
    <3> QED
      BY <1>3, <3>1, <3>2
  <2>5. saidCount' = saidCount /\ saidCount = 12
    BY <1>1, <1>2, <2>1, <2>2, <2>4 DEF Found160
  <2> QED
    BY <2>3, <2>4, <2>5 DEF KeptUp, Right, USB_BUFSIZE
<1>4. CASE saidCount = 0
  BY <1>1, <1>4, FirstBit160
<1>5. CASE saidCount > 0 /\ place = 8
  BY <1>1, <1>5, ByteBegins160
<1>6. CASE saidCount > 0 /\ place = 7
  BY <1>1, <1>6, ByteEnds160
<1>7. CASE saidCount > 0 /\ place < 7 /\ ~(pc = "bit6" /\ cnt = 0)
  BY <1>1, <1>7, ByteGoesOn160
<1> QED
  BY <1>2, <1>3, <1>4, <1>5, <1>6, <1>7

LEMMA End160 ==
  ASSUME RealPids, StoreInv, stage = "data", Saying, InByte, clock = 160,
         NEW s, Loop160(s), SaysEnd(s), line' = s, clock' = clock
  PROVE  EndSeen /\ Right
<1>1. /\ place = 8 /\ run \in 0 .. 5 /\ left' = 0 /\ saidCount \in Nat /\ saidCount > 0 /\ s = "SE0"
      /\ saidCount' = saidCount
  BY DEF SaysEnd, Saying, saying
<1>2. pc = "bit0" /\ gotCount = saidCount /\ ~SixOnes(shift)
  BY <1>1, Places160, Six160 DEF InByte, Loop160Inv
<1>3. pc' = "odd" /\ last' = s /\ gotCount' = gotCount
  BY <1>1, <1>2 DEF Loop160, heard
<1>4. clock \in Clocks
  BY DEF StoreInv
<1> QED
  BY <1>1, <1>2, <1>3, <1>4, EndKept DEF EndSeen, Right, Unrolled

LEMMA SE0Kept160 ==
  ASSUME StoreInv, stage = "data", InEnd, clock = 160,
         NEW s, Loop160(s), s = "SE0", UNCHANGED saying
  PROVE  /\ pc' = "se0" /\ gotCount' = saidCount' /\ cnt' = USB_BUFSIZE - saidCount'
         /\ gotCount' = gotCount
<1>1. pc = "odd" /\ gotCount = saidCount
  BY DEF InEnd
<1>2. pc' = "se0" /\ UNCHANGED <<cnt, gotCount, saidCount>>
  BY <1>1 DEF Loop160, Leave, rxRegs, heard, saying
<1>3. Counted = gotCount
  BY <1>1 DEF Counted, Unstored, Unrolled
<1>4. cnt = USB_BUFSIZE - Counted
  BY <1>1 DEF StoreInv, Receiving, Unrolled
<1> QED
  BY <1>1, <1>2, <1>3, <1>4

LEMMA Samples ==
  ASSUME clock \in Clocks, pc \in Receiving, NEW s, Sample(s)
  PROVE  \/ clock \in Unrolled /\ \E phase \in Phases(s) : LoopUnrolled(s, phase)
         \/ clock = 160 /\ Loop160(s)
         \/ clock = 180 /\ Loop180(s)
         \/ clock = 200 /\ Loop200(s)
<1>1. ~Sync(s)
  BY ClocksAssumption DEF Sync, Receiving, Unrolled
<1> QED
  BY <1>1 DEF Sample, LoopUnrolled, Loop160, Loop180, Loop200

LEMMA DataStep ==
  ASSUME RealPids, StoreInv, stage = "data", pc \in Receiving, Saying, InByte,
         NEW s, HostData(s), Sample(s), line' = s, clock' = clock
  PROVE  Right /\ (KeptUp \/ (EndSeen /\ place' = 9 /\ run' # 6))
<1>1. \/ clock \in Unrolled /\ \E phase \in Phases(s) : LoopUnrolled(s, phase)
      \/ clock = 160 /\ Loop160(s)
      \/ clock = 180 /\ Loop180(s)
      \/ clock = 200 /\ Loop200(s)
  BY Samples DEF StoreInv
<1>2. CASE SaysStuffed(s) /\ Saying'
  <2>1. CASE clock = 180 /\ Loop180(s)
    <3>1. DataLoop180
      BY <1>2, <2>1 DEF InByte, PidLoop180, SaysStuffed, Saying
    <3> QED
      BY <1>2, <2>1, <3>1, DataStuffed180
  <2> QED
    BY <1>1, <1>2, <2>1, UnrolledStuffed, Stuffed160, Stuffed200
<1>3. ASSUME NEW one \in BOOLEAN, SaysBit(s, one), Saying'
      PROVE  KeptUp /\ Right
  <2>1. CASE clock = 180 /\ Loop180(s)
    BY <1>3, <2>1, PidBit180, DataBitStep180 DEF InByte
  <2> QED
    BY <1>1, <1>3, <2>1, UnrolledBit, Bit160, Bit200
<1>4. CASE SaysEnd(s)
  <2>1. EndSeen /\ Right
    BY <1>1, <1>4, UnrolledEnd, End160, DataEnd180, End200
  <2>2. place' = 9 /\ run' # 6
    BY <1>4 DEF SaysEnd, Saying
  <2> QED
    BY <2>1, <2>2
<1>5. \/ SaysStuffed(s) /\ Saying'
      \/ (\E one \in BOOLEAN : SaysBit(s, one)) /\ Saying'
      \/ SaysEnd(s)
  BY HostSays
<1> QED
  BY <1>2, <1>3, <1>4, <1>5

LEMMA EndStep ==
  ASSUME StoreInv, stage = "data", pc \in Receiving, place = 9, run # 6, InEnd,
         NEW s, HostData(s), Sample(s), line' = s, clock' = clock
  PROVE  /\ stage' = "over" /\ pc' = "se0" /\ gotCount' = saidCount' /\
            cnt' = USB_BUFSIZE - saidCount'
         /\ gotCount' = gotCount
<1>1. s = "SE0" /\ stage' = "over" /\ UNCHANGED saying
  BY DEF HostData
<1>2. \/ clock \in Unrolled /\ \E phase \in Phases(s) : LoopUnrolled(s, phase)
      \/ clock = 160 /\ Loop160(s)
      \/ clock = 180 /\ Loop180(s)
      \/ clock = 200 /\ Loop200(s)
  BY Samples DEF StoreInv
<1> QED
  BY <1>1, <1>2, UnrolledSE0, SE0Kept160, SE0Kept180, SE0Kept200

LEMMA StartStep ==
  ASSUME StoreInv, stage # "listen", Synchronising, pc = "foundK", StartLoop,
         place' = 8, run' = 1, line' = "K", UNCHANGED <<clock, left, saying>>
  PROVE  pc' \in Receiving' /\ Saying' /\ InByte'
<1>1. gotCount = 0 /\ clock \in Clocks
  BY DEF StoreInv, Before
<1>2. saidCount = 0 /\ left \in Nat /\ left >= 1
  BY DEF Synchronising
<1>3. saidCount' = 0 /\ left' = left /\ gotCount' = 0 /\ last' = "K" /\ bit' = 7
  BY <1>1, <1>2 DEF saying, StartLoop, heard
<1>4. Saying'
  BY <1>2, <1>3 DEF Saying
<1>5. CASE clock \in Unrolled
  <2>1. pc' = "rxLoop" /\ shift' = Bit /\ x3' = Bit
    BY <1>5 DEF StartLoop, Unrolled
  <2>2. SeenRun' = 0
    BY <1>3 DEF SeenRun
  <2>3. Back(0)' = 7
    BY <1>3 DEF Back
  <2>4. Window'
    BY <1>3, <2>1, <2>2, <2>3 DEF Window, Bit
  <2>5. Decoded'
    BY <1>3, <2>1 DEF Decoded, Bit
  <2>6. Loop'
    BY <1>3, <2>1, <2>4, <2>5 DEF Loop
  <2> QED
    BY <1>3, <1>4, <1>5, <2>1, <2>6 DEF InByte, Receiving, Unrolled
<1>6. CASE clock = 160
  BY <1>3, <1>4, <1>6 DEF StartLoop, InByte, Receiving, Unrolled, Loop160Inv, Bit
<1>7. CASE clock = 180
  <2>1. pc' = "pid" /\ shift' = {7} /\ x3' = Bit
    BY <1>7 DEF StartLoop, Unrolled
  <2>2. {7} = {i \in Bit : i = 7 - 0 \/ (i >= 8 - 0 /\ i - 8 + 0 \notin said')}
    BY DEF Bit
  <2>3. PidLoop180'
    BY <1>3, <2>1, <2>2 DEF PidLoop180
  <2> QED
    BY <1>3, <1>4, <1>7, <2>1, <2>3 DEF InByte, Receiving, Unrolled
<1>8. CASE clock = 200
  <2>1. pc' = "bit0" /\ shift' = {6} /\ bitcnt' = 5
    BY <1>8 DEF StartLoop, Unrolled
  <2>2. Loop200Inv'
    BY <1>3, <2>1 DEF Loop200Inv
  <2> QED
    BY <1>3, <1>4, <1>8, <2>1, <2>2 DEF InByte, Receiving, Unrolled
<1> QED
  BY <1>1, <1>5, <1>6, <1>7, <1>8, ClocksAssumption DEF Unrolled

LEMMA SyncStep ==
  ASSUME StoreInv, stage = "sync", Synchronising, NEW s, HostSync(s), Sample(s), line' = s,
         clock' = clock
  PROVE  /\ UNCHANGED heard
         /\ \/ stage' = "sync" /\ Synchronising'
            \/ stage' = "data" /\ pc' \in Receiving' /\ Saying' /\ InByte'
<1>1. place \in 0 .. 7 /\ saidCount = 0 /\ left \in Nat /\ left >= 1
  BY DEF Synchronising
<1>2. UNCHANGED <<left, saying, saidCount>> /\ s = IF place \in {1, 3, 5} THEN "J" ELSE "K"
  BY DEF HostSync, saying
<1>3. Sync(s)
  BY DEF Synchronising, Sample, LoopUnrolled, Loop160, Loop180, PidBit, Loop200
<1>4. UNCHANGED heard
  BY <1>3 DEF Sync, WaitForJ, Leave, StartLoop
<1>5. CASE place = 7
  <2>1. pc = "foundK" /\ s = "K" /\ place' = 8 /\ run' = 1 /\ stage' = "data"
    BY <1>2, <1>5 DEF Synchronising, HostSync
  <2>2. StartLoop
    BY <1>3, <2>1 DEF Sync, DMinus
  <2> QED
    BY <1>2, <1>4, <2>1, <2>2, StartStep
<1>6. CASE place < 7
  <2>1. stage' = "sync" /\ place' = place + 1
    BY <1>6 DEF HostSync
  <2>2. CASE pc = "waitForJ"
    <3>1. cnt' = cnt - 1 /\ pc' = IF DMinus(s) \/ cnt' = 0 THEN "waitForK" ELSE "waitForJ"
      BY <1>3, <2>2 DEF Sync, WaitForJ
    <3>2. CASE place \in {1, 3, 5}
      <4>1. pc' = "waitForK" /\ place' \in {2, 4, 6}
        BY <1>2, <2>1, <3>1, <3>2 DEF DMinus
      <4> QED
        BY <1>1, <1>2, <1>4, <2>1, <4>1 DEF Synchronising
    <3>3. CASE place \in {0, 2, 4}
      <4>1. cnt = 3
        BY <2>2, <3>3 DEF Synchronising
      <4>2. pc' = "waitForJ" /\ place' \in {1, 3, 5} /\ cnt' = 2
        BY <1>2, <2>1, <3>1, <3>3, <4>1 DEF DMinus
      <4> QED
        BY <1>1, <1>2, <1>4, <2>1, <4>2 DEF Synchronising
    <3>4. place \in 0 .. 5
      BY <2>2 DEF Synchronising
    <3> QED
      BY <3>2, <3>3, <3>4
  <2>3. CASE pc = "waitForK"
    <3>1. place \in {2, 4, 6} /\ s = "K"
      BY <1>2, <2>3 DEF Synchronising
    <3>2. pc' = "foundK" /\ place' \in {3, 5, 7}
      BY <1>3, <2>1, <2>3, <3>1 DEF Sync, DMinus, Leave
    <3> QED
      BY <1>1, <1>2, <1>4, <2>1, <3>1, <3>2 DEF Synchronising
  <2>4. CASE pc = "foundK"
    <3>1. place \in {3, 5} /\ s = "J"
      BY <1>2, <1>6, <2>4 DEF Synchronising
    <3>2. pc' = "waitForK" /\ place' \in {4, 6}
      BY <1>3, <2>1, <2>4, <3>1 DEF Sync, DMinus, Leave
    <3> QED
      BY <1>1, <1>2, <1>4, <2>1, <3>2 DEF Synchronising
  <2> QED
    BY <2>2, <2>3, <2>4 DEF Synchronising
<1> QED
  BY <1>1, <1>5, <1>6

LEMMA ReceiveStep ==
  ASSUME RealPids, StoreInv, DecodeInv, Receive
  PROVE  DecodeInv' /\ (stage' # "broken" => Right)
<1>1. PICK s \in Lines : (HostSync(s) \/ HostData(s) \/ HostBreaks(s)) /\ Sample(s) /\ line' = s
  BY DEF Receive
<1>2. clock' = clock /\ stage \in {"sync", "data", "broken"} /\ pc \in RxLabels /\ gotCount \in Nat
  BY DEF Receive, StoreInv
<1>3. CASE HostBreaks(s)
  BY <1>3 DEF HostBreaks, DecodeInv
<1>4. CASE HostSync(s)
  <2>1. stage = "sync" /\ Synchronising
    BY <1>4 DEF HostSync, DecodeInv
  <2>2. /\ UNCHANGED heard
        /\ \/ stage' = "sync" /\ Synchronising'
           \/ stage' = "data" /\ pc' \in Receiving' /\ Saying' /\ InByte'
    BY <1>1, <1>2, <1>4, <2>1, SyncStep
  <2>3. gotCount' = gotCount
    BY <2>2 DEF heard
  <2>4. Right
    BY <1>2, <2>3 DEF Right
  <2> QED
    BY <2>2, <2>4 DEF DecodeInv
<1>5. CASE HostData(s) /\ place # 9
  <2>1. stage = "data" /\ pc \in Receiving /\ Saying /\ InByte
    BY <1>2, <1>5 DEF HostData, DecodeInv, RxLabels
  <2>2. Right /\ (KeptUp \/ (EndSeen /\ place' = 9 /\ run' # 6))
    BY <1>1, <1>2, <1>5, <2>1, DataStep
  <2>3. stage' = "data"
    BY <1>5, <2>1 DEF HostData
  <2> QED
    BY <2>2, <2>3 DEF DecodeInv, KeptUp, EndSeen
<1>6. CASE HostData(s) /\ place = 9
  <2>1. stage = "data" /\ pc \in Receiving /\ run # 6 /\ InEnd
    BY <1>2, <1>6 DEF HostData, DecodeInv, RxLabels, Saying
  <2>2. /\ stage' = "over" /\ pc' = "se0" /\ gotCount' = saidCount' /\
           cnt' = USB_BUFSIZE - saidCount'
        /\ gotCount' = gotCount
    BY <1>1, <1>2, <1>6, <2>1, EndStep
  <2>3. Right
    <3>1. gotCount' = gotCount
      BY <2>2
    <3> QED
      BY <1>2, <3>1 DEF Right
  <2> QED
    BY <2>2, <2>3 DEF DecodeInv
<1> QED
  BY <1>1, <1>3, <1>4, <1>5, <1>6

LEMMA DecodeStep ==
  ASSUME RealPids, StoreInv, DecodeInv, [Next]_vars
  PROVE  DecodeInv'
<1>1. CASE HostPacket
  BY <1>1 DEF HostPacket, DecodeInv, Synchronising, SyncRounds
<1>2. CASE Receive
  BY <1>2, ReceiveStep
<1>3. CASE Answer \/ Send \/ Return
  BY <1>3 DEF Answer, Send, Return, DecodeInv
<1>4. CASE UNCHANGED vars
  <2>1. UNCHANGED <<clock, pc, line, shift, x3, last, bit, again, cnt, bitcnt, said, saidCount,
                    gotCount, stage, left, place, run>>
    BY <1>4 DEF vars, saying, heard, hostVars
  <2>2. (Synchronising' <=> Synchronising) /\ (Saying' <=> Saying)
    BY <2>1 DEF Synchronising, Saying
  <2>3. Receiving' = Receiving /\ SeenRun' = SeenRun /\ Offset' = Offset /\ (Place160' <=> Place160)
    BY <2>1 DEF Receiving, SeenRun, Offset, Place160
  <2>4. (Window' <=> Window) /\ (Decoded' <=> Decoded)
    BY <2>1, <2>3 DEF Window, Decoded, Back
  <2>5. (Loop' <=> Loop) /\ (PidLoop180' <=> PidLoop180) /\ (DataLoop180' <=> DataLoop180)
    BY <2>1, <2>4 DEF Loop, PidLoop180, DataLoop180
  <2>6. (Loop160Inv' <=> Loop160Inv) /\ (Loop200Inv' <=> Loop200Inv)
    BY <2>1, <2>3 DEF Loop160Inv, Loop200Inv
  <2>7. (InByte' <=> InByte) /\ (InEnd' <=> InEnd)
    BY <2>1, <2>5, <2>6 DEF InByte, InEnd
  <2> QED
    BY <2>1, <2>2, <2>3, <2>7 DEF DecodeInv
<1> QED
  BY <1>1, <1>2, <1>3, <1>4 DEF Next

LEMMA DecodeAlways ==
  ASSUME RealPids
  PROVE  Spec => [](StoreInv /\ DecodeInv)
<1>1. Init => StoreInv /\ DecodeInv
  BY ClocksAssumption DEF Init, DecodeInv, StoreInv, StoresFit, Receiving, Before, Unrolled,
       USB_BUFSIZE
<1>2. StoreInv /\ DecodeInv /\ [Next]_vars => StoreInv' /\ DecodeInv'
  BY StoreStep, DecodeStep
<1> QED
  BY <1>1, <1>2, PTL DEF Spec

\* A packet that is not broken off is received whole: its end is seen where it is, the count
\* of bytes in cnt is that of the bytes sent, and only one longer than the buffer is dropped.
THEOREM PacketsReceived ==
  ASSUME RealPids
  PROVE  Spec => []PacketsWhole
<1>1. StoreInv /\ DecodeInv => PacketsWhole
  <2> SUFFICES ASSUME StoreInv, DecodeInv, stage \in {"sync", "data", "over"}
               PROVE  /\ stage = "over" <=> pc = "se0"
                      /\ pc = "se0" => USB_BUFSIZE - cnt = saidCount /\ gotCount = saidCount
                      /\ pc \in {"overflow", "sofError"} => saidCount > USB_BUFSIZE
    BY DEF PacketsWhole
  <2>1. CASE stage = "sync"
    BY <2>1 DEF DecodeInv, Synchronising
  <2>2. CASE stage = "data"
    BY <2>2, ClocksAssumption DEF DecodeInv, Receiving, StoreInv, Unrolled
  <2>3. CASE stage = "over"
    BY <2>3 DEF DecodeInv, StoreInv, USB_BUFSIZE
  <2> QED
    BY <2>1, <2>2, <2>3
<1> QED
  BY <1>1, DecodeAlways, PTL

\* Every byte stored in usbRxBuf, and every byte the host hears, is the one that was sent,
\* in the order sent: at every clock, for all bytes, wherever bits are stuffed and however
\* late the handler began.
THEOREM AllDelivered ==
  ASSUME RealPids
  PROVE  Spec => Delivered
<1>1. StoreInv /\ DecodeInv /\ [Next]_vars =>
        (stage # "listen" /\ stage' # "broken" => [Right]_vars)
  <2> SUFFICES ASSUME StoreInv, DecodeInv, Next, stage # "listen", stage' # "broken"
               PROVE  Right
    OBVIOUS
  <2>1. gotCount \in Nat
    BY DEF StoreInv
  <2>2. CASE Receive
    BY <2>2, ReceiveStep
  <2>3. CASE HostPacket \/ Answer \/ Return
    BY <2>1, <2>3 DEF HostPacket, Answer, Return, Right
  <2>4. CASE Send
    BY <2>4 DEF Send
  <2> QED
    BY <2>2, <2>3, <2>4 DEF Next
<1>2. StoreInv /\ DecodeInv /\ [Next]_vars
        /\ [stage = "listen" /\ gotCount' > gotCount => got' = said /\ gotCount' = saidCount]_vars
        => [gotCount' > gotCount /\ stage' # "broken" => got' = said /\ gotCount' = saidCount]_vars
  BY <1>1 DEF Right
<1> QED
  BY <1>2, DecodeAlways, BytesHeard, PTL DEF Spec, Delivered

=============================================================================
