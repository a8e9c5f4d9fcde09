--------------------------------- MODULE Wire --------------------------------
(***************************************************************************)
(* A packet of the host, received bit by bit, and one of the device in     *)
(* answer.  The host obeys the USB rules for the lines, but may break a    *)
(* packet off anywhere: then the lines keep one state.  What the handler   *)
(* does between the packets is in UsbDrv.                                  *)
(***************************************************************************)
EXTENDS Receiver, Transmitter

CONSTANT MaxBytes    \* of a packet of the host

VARIABLES
  stage,       \* what the host does: "idle", "sync", "data", "over", "broken", "listen"
  left,        \* the bytes of the packet it still has to say, or to hear
  place,       \* the next bit of the byte, or of the sync byte
  run,         \* the 1s it said or heard since the last change
  bits         \* the bits of the byte it heard so far

hostVars == <<stage, left, place, run, bits>>
saying == <<said, saidCount>>
vars == <<clock, pc, line, shift, x3, last, bit, again, cnt, history, ones,
          bitcnt, saying, heard, hostVars>>

Init ==
  /\ clock \in Clocks
  /\ pc = "idle" /\ line = "J"
  /\ shift = {} /\ x3 = {} /\ last = "J" /\ bit = 0 /\ again = FALSE
  /\ bitcnt = 0 /\ cnt = 0 /\ history = {} /\ ones = 0
  /\ said = {} /\ saidCount = 0 /\ got = {} /\ gotCount = 0
  /\ stage = "idle" /\ left = 0 /\ place = 0 /\ run = 0 /\ bits = {}

-----------------------------------------------------------------------------
(* The host sends *)

\* The interrupt is due to the first edge; at most five bits pass before the
\* handler looks ("max allowable interrupt latency: 59 cycles").
HostPacket ==
  /\ pc = "idle"
  /\ pc' = "waitForJ"
  /\ stage' = "sync"
  /\ left' \in 1 .. MaxBytes
  /\ place' \in 0 .. 5
  /\ line' = "J"
  /\ cnt' = SyncRounds
  /\ saidCount' = 0 /\ gotCount' = 0
  /\ UNCHANGED <<clock, shift, x3, last, bit, again, bitcnt, txRegs, said, got, run, bits>>

HostSync(s) ==
  /\ stage = "sync"
  /\ s = IF place \in {1, 3, 5} THEN "J" ELSE "K"
  /\ IF place < 7 THEN place' = place + 1 /\ UNCHANGED <<stage, run>>
                  ELSE stage' = "data" /\ place' = 8 /\ run' = 1
  /\ UNCHANGED <<left, saying>>

OneBit(byte, k, s) ==
  /\ s = IF k \in byte THEN line ELSE Change(line)
  /\ run' = IF k \in byte THEN run + 1 ELSE 0
  /\ place' = k + 1

HostData(s) ==
  /\ stage = "data"
  /\ \/ \* a stuffed bit
        /\ run = 6
        /\ s = Change(line)
        /\ run' = 0
        /\ UNCHANGED <<stage, left, place, saying>>
     \/ run < 6 /\ place < 8 /\ OneBit(said, place, s)
        /\ UNCHANGED <<stage, left, saying>>
     \/ /\ run < 6 /\ place = 8 /\ left > 0
        /\ said' \in IF saidCount = 0 THEN Pids ELSE Contents
        /\ OneBit(said', 0, s)
        /\ saidCount' = saidCount + 1
        /\ left' = left - 1
        /\ UNCHANGED stage
     \/ \* the end: two bits of SE0
        /\ run < 6 /\ place \in {8, 9} /\ left = 0
        /\ s = "SE0"
        /\ place' = place + 1
        /\ stage' = IF place = 9 THEN "over" ELSE "data"
        /\ UNCHANGED <<left, run, saying>>

HostBreaks(s) ==
  /\ stage \in {"sync", "data", "broken"}
  /\ stage = "broken" => s = line
  /\ stage' = "broken"
  /\ place' = 0 /\ run' = 0 /\ left' = 0
  /\ UNCHANGED saying

Receive ==
  /\ stage \in {"sync", "data", "broken"}
  /\ pc \in RxLabels
  /\ \E s \in Lines :
       /\ HostSync(s) \/ HostData(s) \/ HostBreaks(s)
       /\ Sample(s)
       /\ line' = s
  /\ UNCHANGED <<clock, txRegs, bits>>

-----------------------------------------------------------------------------
(* The host listens *)

HostHears(s) ==
  \/ s = "SE0" /\ UNCHANGED <<got, gotCount, left, place, run, bits>>
  \/ \* a stuffed bit
     /\ s # "SE0" /\ line # "SE0" /\ run = 6
     /\ run' = IF s = line THEN 7 ELSE 0
     /\ UNCHANGED <<got, gotCount, left, place, bits>>
  \/ /\ s # "SE0" /\ line # "SE0" /\ run # 6
     /\ run' = IF s = line THEN run + 1 ELSE 0
     /\ LET now == IF s = line THEN bits \cup {place} ELSE bits
        IN  IF place < 7
            THEN place' = place + 1 /\ bits' = now /\ UNCHANGED <<got, gotCount, left>>
            ELSE /\ got' = now /\ gotCount' = gotCount + 1
                 /\ left' = left - 1
                 /\ place' = 0 /\ bits' = {}
  \/ s = "J" /\ line = "SE0" /\ UNCHANGED <<got, gotCount, left, place, run, bits>>

\* A packet in the buffer is answered with a handshake (2 bytes) or data.
Answer ==
  /\ pc = "se0"
  /\ stage' = "listen"
  /\ \E bytes \in 2 .. 12 : usbSendAndReti(bytes) /\ left' = bytes
  /\ x3' = {} /\ last' = "J" /\ bit' = 0
  /\ gotCount' = 0 /\ place' = 0 /\ run' = 0
  /\ UNCHANGED <<clock, got, bits>>

Send ==
  /\ stage = "listen"
  /\ Transmit
  /\ HostHears(line')
  /\ UNCHANGED <<clock, x3, last, bit, stage>>

\* doReturn; the registers are popped.
Return ==
  /\ pc \in {"se0", "overflow", "sofError", "doReturn"}
  /\ pc' = "idle" /\ line' = "J"
  /\ shift' = {} /\ x3' = {} /\ last' = "J" /\ bit' = 0 /\ again' = FALSE
  /\ bitcnt' = 0 /\ cnt' = 0 /\ history' = {} /\ ones' = 0
  /\ said' = {} /\ saidCount' = 0 /\ got' = {} /\ gotCount' = 0
  /\ stage' = "idle" /\ left' = 0 /\ place' = 0 /\ run' = 0 /\ bits' = {}
  /\ UNCHANGED clock

Next == HostPacket \/ Receive \/ Answer \/ Send \/ Return

Spec == Init /\ [][Next]_vars
\* The code samples or sends a bit in each bit time, whatever the lines are.
FairSpec == Spec /\ WF_vars(Receive) /\ WF_vars(Send) /\ WF_vars(Return)

-----------------------------------------------------------------------------
(* Properties *)

\* Every byte that is stored in usbRxBuf, and every byte the host hears, is the
\* one that was said, in the order said, wherever bits are stuffed and however
\* late the handler began: NRZI, unstuffing and the repair with x3 are right.
Delivered ==
  [][gotCount' > gotCount /\ stage' # "broken" => got' = said /\ gotCount' = saidCount]_vars

\* A packet is seen to end where it ends and usbRxLen, which se0 takes from cnt,
\* counts its bytes; only packets longer than usbRxBuf are dropped.
PacketsWhole ==
  stage \in {"sync", "data", "over"} =>
    /\ stage = "over" <=> pc = "se0"
    /\ pc = "se0" => USB_BUFSIZE - cnt = saidCount /\ gotCount = saidCount
    /\ pc \in {"overflow", "sofError"} => saidCount > USB_BUFSIZE

\* The device sends what it was told to send, no more and no less, stuffed so
\* that the host can follow: for packets of up to 12 bytes with the sync byte.
AnswersWhole ==
  stage = "listen" =>
    /\ run <= 6
    /\ line = "SE0" => left = 0 /\ place = 0

\* usbRxBuf is not overrun, whatever is on the lines; at 15 MHz, where cnt is
\* counted down only after the byte was stored, it is by one byte.
StoresFit ==
  stage # "listen" => gotCount <= USB_BUFSIZE + (IF clock = 150 THEN 1 ELSE 0)

\* The handler returns, also from a packet that has no end.
HandlerReturns == pc # "idle" ~> pc = "idle"
=============================================================================
