----------------------------- MODULE I2cProofs ------------------------------
(***************************************************************************)
(* Proofs about module I2c: both libraries implement I2cBytes, for any     *)
(* bytes the controller sends, any number of restarts and replugs, and     *)
(* wherever in a byte they happen.                                         *)
(***************************************************************************)
EXTENDS I2c, TLAPS

-----------------------------------------------------------------------------
(* Types *)

Modes == {"idle", "address", "receive", "send"}
CallType == [op : {"init", "start", "stop", "write", "read"}, arg : 0 .. 255]

Devices == [mode : Modes, n : 0 .. 9, in : 0 .. 127, got : 0 .. 255, out : Bytes,
            pull : BOOLEAN, stretch : BOOLEAN]

\* The bits of a byte are 0 before the first and after the last of them.
DevType(d) ==
  /\ d \in Devices
  /\ d.in < 2 ^ d.n
  /\ d.n >= 8 \/ d.mode \in {"idle", "send"} => d.in = 0
  /\ d.mode = "address" /\ d.n = 0 => ~d.pull
  /\ d.mode = "idle" => d.n = 0 /\ ~d.stretch

\* The registers and the controller; the USI lets bit 7 out while SCL is low.
LineTypes ==
  /\ reg \in 0 .. 255 /\ ddr \in BOOLEAN /\ port \in BOOLEAN /\ latch \in BOOLEAN
  /\ sclOut \in BOOLEAN /\ DevType(dev)
  /\ lib = "bitbang" => latch
  /\ lib = "usi" /\ ~Scl => (latch <=> reg >= 128)
  /\ dev.n = 9 => Scl
  /\ ~attached => dev.mode = "idle" /\ ~dev.pull

Jobs == {"init", "connect", "select", "fetch"}
WasType == [call : CallType, ret : 0 .. 255, mode : Modes, got : 0 .. 255, offer : Bytes,
            attached : BOOLEAN, sync : BOOLEAN]
TypeInv ==
  /\ lib \in {"usi", "bitbang"} /\ attached \in BOOLEAN
  /\ job \in Jobs /\ at \in 1 .. Len(Calls[job]) /\ ip \in 1 .. Len(Steps) + 1
  /\ data \in 0 .. 255
  /\ was \in WasType /\ was.attached = attached
  /\ LineTypes

\* SDA is an input in the acknowledge of a write and in the byte of a read, with the USI.
InputAt(op) ==
  CASE op = "init" -> {1} [] op = "write" -> 29 .. 34 [] op = "read" -> 2 .. 28 [] OTHER -> {}
DriverInv ==
  /\ ddr <=> ~(lib = "usi" /\ ip \in InputAt(ThisCall.op))
  /\ ThisCall.op = "start" /\ ip > 4 => ~sclOut
  /\ ThisCall.op = "start" /\ ip = 6 => port

-----------------------------------------------------------------------------
(* Bits *)

\* i bits of the byte have left the register, or have come in.
Outgoing(r, byte, i) == r \div 2 ^ i = byte % 2 ^ (8 - i)
Incoming(r, byte, i) == r % 2 ^ i = byte \div 2 ^ (8 - i)

-----------------------------------------------------------------------------
(* The controller while it and the library agree: d is its state, w what the *)
(* call before left, a the argument of the call.                            *)

Offered(w) == IF w.attached THEN w.offer ELSE 255
AckBit(w) == IF w.attached THEN 0 ELSE 1
Kept(d, w) == d.got = w.got /\ d.out = w.offer

Deaf(d, w) == d.mode = "idle" /\ ~d.pull /\ Kept(d, w)

\* After k clocks of a byte, in the k-th or after it.
Hearing(d, w, a, k, up) ==
  /\ d.mode = w.mode /\ d.n = k /\ d.out = w.offer
  /\ d.in = (IF k < 8 THEN a \div 2 ^ (8 - k) ELSE 0)
  /\ d.got = (IF k < 8 THEN w.got ELSE a)
  /\ d.pull = (k = 9 \/ (k = 8 /\ ~up))
Sending(d, w, k, up) ==
  /\ d.mode = "send" /\ d.n = k /\ d.in = 0 /\ Kept(d, w)
  /\ d.pull = IF up THEN k < 9 /\ ~OneIn(d.out, k - 1) ELSE k < 8 /\ ~OneIn(d.out, k)
ToSend(d) == d.mode = "send" /\ d.n = 0 /\ d.in = 0 /\ d.pull = ~OneIn(d.out, 0)
ToReceive(d, mode) == d.mode = mode /\ d.n = 0 /\ d.in = 0 /\ ~d.pull

InWrite(d, w, a, k, up) == IF w.attached THEN Hearing(d, w, a, k, up) ELSE Deaf(d, w)
InRead(d, w, k, up) == IF w.attached THEN Sending(d, w, k, up) ELSE Deaf(d, w)
Written(d, w, a) ==
  IF w.attached
  THEN /\ d.got = a
       /\ IF w.mode = "address" /\ a = Own + 1 THEN ToSend(d)
          ELSE ToReceive(d, "receive") /\ d.out = w.offer
  ELSE Deaf(d, w)
Acked(d, w, a) == IF w.attached /\ a < 128 THEN Sending(d, w, 9, TRUE) ELSE Deaf(d, w)
Read(d, w, a) == IF w.attached /\ a < 128 THEN ToSend(d) /\ d.got = w.got ELSE Deaf(d, w)
\* The start is heard when SDA falls.
Started(d, w) == IF w.attached THEN ToReceive(d, "address") /\ Kept(d, w) ELSE Deaf(d, w)
Ended(d, w, n) ==
  IF w.attached /\ w.mode = "receive"
  THEN d.mode = "receive" /\ d.n = n /\ d.in = 0 /\ ~d.pull /\ Kept(d, w)
  ELSE Deaf(d, w)

-----------------------------------------------------------------------------
(* The steps of a call while library and controller agree *)

\* At the release of SCL, when the controller may hold it: the clock is still to come,
\* or was there.
Rising(low, high) == sclOut /\ IF dev.stretch THEN low ELSE high
High(high) == sclOut /\ ~dev.stretch /\ high
LowIs(low) == ~sclOut /\ low

Arg == ThisCall.arg

UsiWriteLow(i) == port /\ Outgoing(reg, Arg, i) /\ InWrite(dev, was, Arg, i, FALSE)
UsiWriteHigh(i) == port /\ Outgoing(reg, Arg, i + 1) /\ InWrite(dev, was, Arg, i + 1, TRUE)
UsiAckLow == port /\ reg = 255 /\ InWrite(dev, was, Arg, 8, FALSE)
UsiAckHigh == port /\ reg % 2 = AckBit(was) /\ InWrite(dev, was, Arg, 9, TRUE)
UsiWriteInv ==
  /\ ip = 1 => LowIs(port /\ InWrite(dev, was, Arg, 0, FALSE))
  /\ ip = 2 => LowIs(UsiWriteLow(0))
  /\ \A i \in 0 .. 7 :
       /\ ip = 3 + 3 * i => LowIs(UsiWriteLow(i))
       /\ ip = 4 + 3 * i => Rising(UsiWriteLow(i), UsiWriteHigh(i))
       /\ ip = 5 + 3 * i => High(UsiWriteHigh(i))
  /\ ip = 27 => LowIs(port /\ InWrite(dev, was, Arg, 8, FALSE))
  /\ ip \in 28 .. 30 => LowIs(UsiAckLow)
  /\ ip = 31 => Rising(UsiAckLow, UsiAckHigh)
  /\ ip = 32 => High(UsiAckHigh)
  /\ ip = 33 => LowIs(port /\ reg % 2 = AckBit(was) /\ Written(dev, was, Arg))
  /\ ip \in 34 .. 35 => LowIs(port /\ reg = 255 /\ data % 2 = AckBit(was) /\ Written(dev, was, Arg))

UsiReadLow(i) == port /\ Incoming(reg, Offered(was), i) /\ InRead(dev, was, i, FALSE)
UsiReadHigh(i) == port /\ Incoming(reg, Offered(was), i + 1) /\ InRead(dev, was, i + 1, TRUE)
UsiNackLow == port /\ data = Offered(was) /\ reg = Arg /\ InRead(dev, was, 8, FALSE)
UsiNackHigh == port /\ data = Offered(was) /\ Acked(dev, was, Arg)
UsiReadInv ==
  /\ ip = 1 => LowIs(port /\ InRead(dev, was, 0, FALSE))
  /\ ip = 2 => LowIs(UsiReadLow(0))
  /\ \A i \in 0 .. 7 :
       /\ ip = 3 + 3 * i => LowIs(UsiReadLow(i))
       /\ ip = 4 + 3 * i => Rising(UsiReadLow(i), UsiReadHigh(i))
       /\ ip = 5 + 3 * i => High(UsiReadHigh(i))
  /\ ip = 27 => LowIs(port /\ reg = Offered(was) /\ InRead(dev, was, 8, FALSE))
  /\ ip \in 28 .. 29 => LowIs(port /\ data = Offered(was) /\ InRead(dev, was, 8, FALSE))
  /\ ip \in 30 .. 31 => LowIs(UsiNackLow)
  /\ ip = 32 => Rising(UsiNackLow, UsiNackHigh)
  /\ ip = 33 => High(UsiNackHigh)
  /\ ip = 34 => LowIs(port /\ data = Offered(was) /\ Read(dev, was, Arg))
  /\ ip = 35 => LowIs(port /\ data = Offered(was) /\ reg = 255 /\ Read(dev, was, Arg))

BitWriteLow(i) ==
  (port <=> OneIn(Arg, i)) /\ Outgoing(reg, Arg, i + 1) /\ InWrite(dev, was, Arg, i, FALSE)
BitWriteHigh(i) == Outgoing(reg, Arg, i + 1) /\ InWrite(dev, was, Arg, i + 1, TRUE)
BitAckLow == port /\ reg = 0 /\ InWrite(dev, was, Arg, 8, FALSE)
BitAckHigh == port /\ reg = 0 /\ InWrite(dev, was, Arg, 9, TRUE)
BitWriteInv ==
  /\ ip = 1 => LowIs(InWrite(dev, was, Arg, 0, FALSE))
  /\ \A i \in 0 .. 7 :
       /\ ip = 2 + 4 * i => LowIs(Outgoing(reg, Arg, i) /\ InWrite(dev, was, Arg, i, FALSE))
       /\ ip = 3 + 4 * i => LowIs(BitWriteLow(i))
       /\ ip = 4 + 4 * i => Rising(BitWriteLow(i), BitWriteHigh(i))
       /\ ip = 5 + 4 * i => High(BitWriteHigh(i))
  /\ ip = 34 => LowIs(InWrite(dev, was, Arg, 8, FALSE))
  /\ ip = 35 => LowIs(reg = 0 /\ InWrite(dev, was, Arg, 8, FALSE))
  /\ ip = 36 => LowIs(BitAckLow)
  /\ ip = 37 => Rising(BitAckLow, BitAckHigh)
  /\ ip = 38 => High(BitAckHigh)
  /\ ip = 39 => High(reg = AckBit(was) /\ InWrite(dev, was, Arg, 9, TRUE))
  /\ ip = 40 => LowIs(reg = AckBit(was) /\ Written(dev, was, Arg))
  /\ ip = 41 => LowIs(data % 2 = AckBit(was) /\ Written(dev, was, Arg))

BitReadLow(i) == port /\ Incoming(reg, Offered(was), i) /\ InRead(dev, was, i, FALSE)
BitReadHigh(i) == port /\ Incoming(reg, Offered(was), i) /\ InRead(dev, was, i + 1, TRUE)
BitReadTaken(i) == Incoming(reg, Offered(was), i + 1) /\ InRead(dev, was, i + 1, TRUE)
BitNackLow == (port <=> Arg >= 128) /\ data = Offered(was) /\ InRead(dev, was, 8, FALSE)
BitNackHigh == data = Offered(was) /\ Acked(dev, was, Arg)
BitReadInv ==
  /\ ip = 1 => LowIs(InRead(dev, was, 0, FALSE))
  /\ \A i \in 0 .. 7 :
       /\ ip = 2 + 5 * i => LowIs(Incoming(reg, Offered(was), i) /\ InRead(dev, was, i, FALSE))
       /\ ip = 3 + 5 * i => LowIs(BitReadLow(i))
       /\ ip = 4 + 5 * i => Rising(BitReadLow(i), BitReadHigh(i))
       /\ ip = 5 + 5 * i => High(BitReadHigh(i))
       /\ ip = 6 + 5 * i => High(BitReadTaken(i))
  /\ ip = 42 => LowIs(reg = Offered(was) /\ InRead(dev, was, 8, FALSE))
  /\ ip = 43 => LowIs(data = Offered(was) /\ InRead(dev, was, 8, FALSE))
  /\ ip = 44 => LowIs(BitNackLow)
  /\ ip = 45 => Rising(BitNackLow, BitNackHigh)
  /\ ip = 46 => High(BitNackHigh)
  /\ ip = 47 => LowIs(data = Offered(was) /\ Read(dev, was, Arg))

StartInv ==
  /\ ip <= 3 => High(port /\ latch /\ Deaf(dev, was))
  /\ ip = 4 => High(Started(dev, was))
  /\ ip = 5 => LowIs(Started(dev, was))
  /\ ip = 6 => LowIs(port /\ Started(dev, was))

StopLow == ~port /\ (lib = "usi" => reg = 255) /\ Ended(dev, was, 0)
StopHigh == ~port /\ latch /\ Ended(dev, was, 1)
StopInv ==
  /\ ip = 1 => LowIs((lib = "usi" => reg = 255) /\ Ended(dev, was, 0))
  /\ ip = 2 => LowIs(StopLow)
  /\ ip = 3 => Rising(StopLow, StopHigh)
  /\ ip = 4 => High(StopHigh)
  /\ ip = 5 => High(port /\ latch /\ Deaf(dev, was))

ModeAt ==
  CASE at = 1 -> "idle" [] at = 2 -> "address"
    [] at > 2 /\ job = "fetch" -> IF at < 9 THEN "send" ELSE "idle"
    [] OTHER -> "receive"

SyncInv ==
  was.sync =>
    /\ job # "init" /\ was.mode = IF attached THEN ModeAt ELSE "idle"
    /\ ThisCall.op = "start" => StartInv
    /\ ThisCall.op = "stop" => StopInv
    /\ ThisCall.op = "write" => IF lib = "usi" THEN UsiWriteInv ELSE BitWriteInv
    /\ ThisCall.op = "read" => IF lib = "usi" THEN UsiReadInv ELSE BitReadInv

I2cInv == TypeInv /\ DriverInv /\ SyncInv

-----------------------------------------------------------------------------
(* The calls and their steps *)

LEMMA TheCalls ==
  ASSUME NEW j \in Jobs, NEW k \in 1 .. Len(Calls[j]), NEW c, c = Calls[j][k]
  PROVE  /\ c \in CallType /\ k \in 1 .. 9 /\ Len(Calls[j]) \in 1 .. 9
         /\ j = "init" => k = 1 /\ c = Op("init") /\ Len(Calls[j]) = 1
         /\ j = "connect" => Len(Calls[j]) = 5
         /\ j = "select" => Len(Calls[j]) = 4
         /\ j = "fetch" => Len(Calls[j]) = 9
         /\ c.op = "init" <=> j = "init"
         /\ c.op = "start" <=> j # "init" /\ k = 1
         /\ c.op = "stop" <=> j # "init" /\ k = Len(Calls[j])
         /\ c.op = "write" <=> j # "init" /\ (k = 2 \/ (k > 2 /\ k < Len(Calls[j]) /\ j # "fetch"))
         /\ c.op = "read" <=> j = "fetch" /\ k \in 3 .. 8
         /\ c.op = "write" /\ k = 2 => c.arg = IF j = "fetch" THEN Own + 1 ELSE Own
         /\ c.op = "read" => c.arg = IF k = 8 THEN 255 ELSE 0
<1>0. /\ Op("start") \in CallType /\ Op("stop") \in CallType /\ Op("init") \in CallType
      /\ W(Own) \in CallType /\ W(Own + 1) \in CallType /\ W(0) \in CallType /\ W(85) \in CallType
      /\ W(240) \in CallType /\ R(0) \in CallType /\ R(255) \in CallType
  BY DEF Op, W, R, CallType, Own
<1>1. CASE j = "init"
  <2>1. Calls[j] = <<Op("init")>>
    BY <1>1 DEF Calls
  <2>2. Len(Calls[j]) = 1 /\ k = 1 /\ c = Op("init")
    BY <2>1
  <2>3. c.op = "init"
    BY <2>2 DEF Op
  <2> QED
    BY <1>0, <1>1, <2>2, <2>3
<1>2. CASE j = "connect"
  <2>1. Calls[j] = <<Op("start"), W(Own), W(240), W(85), Op("stop")>>
    BY <1>2 DEF Calls
  <2>2. k \in 1 .. 5 /\ Len(Calls[j]) = 5
    BY <2>1
  <2>3. /\ k = 1 => c = Op("start")
        /\ k = 2 => c = W(Own)
        /\ k = 3 => c = W(240)
        /\ k = 4 => c = W(85)
        /\ k = 5 => c = Op("stop")
    BY <2>1, <2>2
  <2>4. CASE k = 1
    BY <1>0, <1>2, <2>2, <2>3, <2>4 DEF Op
  <2>5. CASE k = 2
    BY <1>0, <1>2, <2>2, <2>3, <2>5 DEF W
  <2>6. CASE k \in 3 .. 4
    BY <1>0, <1>2, <2>2, <2>3, <2>6 DEF W
  <2>7. CASE k = 5
    BY <1>0, <1>2, <2>2, <2>3, <2>7 DEF Op
  <2> QED
    BY <2>2, <2>4, <2>5, <2>6, <2>7
<1>3. CASE j = "select"
  <2>1. Calls[j] = <<Op("start"), W(Own), W(0), Op("stop")>>
    BY <1>3 DEF Calls
  <2>2. k \in 1 .. 4 /\ Len(Calls[j]) = 4
    BY <2>1
  <2>3. /\ k = 1 => c = Op("start")
        /\ k = 2 => c = W(Own)
        /\ k = 3 => c = W(0)
        /\ k = 4 => c = Op("stop")
    BY <2>1, <2>2
  <2>4. CASE k = 1
    BY <1>0, <1>3, <2>2, <2>3, <2>4 DEF Op
  <2>5. CASE k = 2
    BY <1>0, <1>3, <2>2, <2>3, <2>5 DEF W
  <2>6. CASE k = 3
    BY <1>0, <1>3, <2>2, <2>3, <2>6 DEF W
  <2>7. CASE k = 4
    BY <1>0, <1>3, <2>2, <2>3, <2>7 DEF Op
  <2> QED
    BY <2>2, <2>4, <2>5, <2>6, <2>7
<1>4. CASE j = "fetch"
  <2>1. Calls[j] = <<Op("start"), W(Own + 1), R(0), R(0), R(0), R(0), R(0), R(255), Op("stop")>>
    BY <1>4 DEF Calls
  <2>2. k \in 1 .. 9 /\ Len(Calls[j]) = 9
    BY <2>1
  <2>3. /\ k = 1 => c = Op("start")
        /\ k = 2 => c = W(Own + 1)
        /\ k \in 3 .. 7 => c = R(0)
        /\ k = 8 => c = R(255)
        /\ k = 9 => c = Op("stop")
    BY <2>1, <2>2
  <2>4. CASE k = 1
    BY <1>0, <1>4, <2>2, <2>3, <2>4 DEF Op
  <2>5. CASE k = 2
    BY <1>0, <1>4, <2>2, <2>3, <2>5 DEF W
  <2>6. CASE k \in 3 .. 7
    BY <1>0, <1>4, <2>2, <2>3, <2>6 DEF R
  <2>7. CASE k = 8
    BY <1>0, <1>4, <2>2, <2>3, <2>7 DEF R
  <2>8. CASE k = 9
    BY <1>0, <1>4, <2>2, <2>3, <2>8 DEF Op
  <2> QED
    BY <2>2, <2>4, <2>5, <2>6, <2>7, <2>8
<1> QED
  BY <1>1, <1>2, <1>3, <1>4 DEF Jobs

LEMMA TheSteps ==
  /\ Code["usi"]["init"] = UsiInit /\ Code["usi"]["start"] = UsiStart
  /\ Code["usi"]["stop"] = UsiStop /\ Code["usi"]["write"] = UsiWriteByte
  /\ Code["usi"]["read"] = UsiReadByte
  /\ Code["bitbang"]["init"] = <<>> /\ Code["bitbang"]["start"] = BitStart
  /\ Code["bitbang"]["stop"] = BitStop /\ Code["bitbang"]["write"] = BitWriteByte
  /\ Code["bitbang"]["read"] = BitReadByte
BY DEF Code

LEMMA UsiWriteSteps ==
  /\ Len(UsiWriteByte) = 34
  /\ UsiWriteByte[1] = "load" /\ UsiWriteByte[2] = "scl0"
  /\ \A i \in 0 .. 7 : /\ UsiWriteByte[3 + 3 * i] = "scl1" /\ UsiWriteByte[4 + 3 * i] = "await"
                       /\ UsiWriteByte[5 + 3 * i] = "scl0"
  /\ UsiWriteByte[27] = "drop" /\ UsiWriteByte[28] = "in" /\ UsiWriteByte[29] = "scl0"
  /\ UsiWriteByte[30] = "scl1" /\ UsiWriteByte[31] = "await" /\ UsiWriteByte[32] = "scl0"
  /\ UsiWriteByte[33] = "take" /\ UsiWriteByte[34] = "out"
BY DEF UsiWriteByte, UsiTransfer, Times, Clocks, USISR_CLOCK_8_BITS, USISR_CLOCK_1_BIT

LEMMA UsiReadSteps ==
  /\ Len(UsiReadByte) = 34
  /\ UsiReadByte[1] = "in" /\ UsiReadByte[2] = "scl0"
  /\ \A i \in 0 .. 7 : /\ UsiReadByte[3 + 3 * i] = "scl1" /\ UsiReadByte[4 + 3 * i] = "await"
                       /\ UsiReadByte[5 + 3 * i] = "scl0"
  /\ UsiReadByte[27] = "take" /\ UsiReadByte[28] = "out" /\ UsiReadByte[29] = "load"
  /\ UsiReadByte[30] = "scl0" /\ UsiReadByte[31] = "scl1" /\ UsiReadByte[32] = "await"
  /\ UsiReadByte[33] = "scl0" /\ UsiReadByte[34] = "drop"
BY DEF UsiReadByte, UsiTransfer, Times, Clocks, USISR_CLOCK_8_BITS, USISR_CLOCK_1_BIT

LEMMA BitWriteSteps ==
  /\ Len(BitWriteByte) = 40
  /\ BitWriteByte[1] = "load"
  /\ \A i \in 0 .. 7 : /\ BitWriteByte[2 + 4 * i] = "msb" /\ BitWriteByte[3 + 4 * i] = "scl1"
                       /\ BitWriteByte[4 + 4 * i] = "await" /\ BitWriteByte[5 + 4 * i] = "scl0"
  /\ BitWriteByte[34] = "clear" /\ BitWriteByte[35] = "sda1" /\ BitWriteByte[36] = "scl1"
  /\ BitWriteByte[37] = "await" /\ BitWriteByte[38] = "sample" /\ BitWriteByte[39] = "scl0"
  /\ BitWriteByte[40] = "take"
BY DEF BitWriteByte, WriteSingleBit, ReadSingleBit, Times

LEMMA BitReadSteps ==
  /\ Len(BitReadByte) = 46
  /\ BitReadByte[1] = "clear"
  /\ \A i \in 0 .. 7 : /\ BitReadByte[2 + 5 * i] = "sda1" /\ BitReadByte[3 + 5 * i] = "scl1"
                       /\ BitReadByte[4 + 5 * i] = "await" /\ BitReadByte[5 + 5 * i] = "sample"
                       /\ BitReadByte[6 + 5 * i] = "scl0"
  /\ BitReadByte[42] = "take" /\ BitReadByte[43] = "nack" /\ BitReadByte[44] = "scl1"
  /\ BitReadByte[45] = "await" /\ BitReadByte[46] = "scl0"
BY DEF BitReadByte, WriteSingleBit, ReadSingleBit, Times

LEMMA ShortSteps ==
  /\ Len(UsiInit) = 5 /\ UsiInit[1] = "out" /\ UsiInit[2] = "scl0" /\ UsiInit[3] = "scl1"
  /\ UsiInit[4] = "sda1" /\ UsiInit[5] = "enable"
  /\ Len(UsiStart) = 5 /\ UsiStart[1] = "sda1" /\ UsiStart[2] = "scl1" /\ UsiStart[3] = "sda0"
  /\ UsiStart[4] = "scl0" /\ UsiStart[5] = "sda1"
  /\ Len(UsiStop) = 4 /\ UsiStop[1] = "sda0" /\ UsiStop[2] = "scl1" /\ UsiStop[3] = "await"
  /\ UsiStop[4] = "sda1"
  /\ Len(BitStart) = 4 /\ BitStart[1] = "sda1" /\ BitStart[2] = "scl1" /\ BitStart[3] = "sda0"
  /\ BitStart[4] = "scl0"
  /\ Len(BitStop) = 4 /\ BitStop[1] = "sda0" /\ BitStop[2] = "scl1" /\ BitStop[3] = "await"
  /\ BitStop[4] = "sda1"
BY DEF UsiInit, UsiStart, UsiStop, BitStart, BitStop

\* What a step does is told by its name.
LEMMA StepEffect ==
  ASSUME Library, ip <= Len(Steps), ip \in Nat, Len(Steps) \in Nat
  PROVE  /\ ip' = ip + 1 /\ UNCHANGED <<lib, job, at, connected, attached, faults, was, missed>>
         /\ Steps[ip] = "sda1" => Lines(sclOut, TRUE, ddr, reg, dev) /\ data' = data
         /\ Steps[ip] = "sda0" => Lines(sclOut, FALSE, ddr, reg, dev) /\ data' = data
         /\ Steps[ip] = "scl1" => Lines(TRUE, port, ddr, reg, dev) /\ data' = data
         /\ Steps[ip] = "scl0" => Lines(FALSE, port, ddr, reg, dev) /\ data' = data
         /\ Steps[ip] = "await" => Scl /\ Lines(sclOut, port, ddr, reg, dev) /\ data' = data
         /\ Steps[ip] = "in" => Lines(sclOut, port, FALSE, reg, dev) /\ data' = data
         /\ Steps[ip] = "out" => Lines(sclOut, port, TRUE, reg, dev) /\ data' = data
         /\ Steps[ip] = "enable" => Lines(sclOut, port, ddr, 255, dev) /\ data' = data
         /\ Steps[ip] = "load" => Lines(sclOut, port, ddr, ThisCall.arg, dev) /\ data' = data
         /\ Steps[ip] = "take" => Lines(sclOut, port, ddr, 255, dev) /\ data' = reg
         /\ Steps[ip] = "drop" => Lines(sclOut, port, ddr, 255, dev) /\ data' = data
         /\ Steps[ip] = "clear" => Lines(sclOut, port, ddr, 0, dev) /\ data' = data
         /\ Steps[ip] = "msb" =>
              Lines(sclOut, reg >= 128, ddr, (2 * reg) % 256, dev) /\ data' = data
         /\ Steps[ip] = "nack" => Lines(sclOut, ThisCall.arg # 0, ddr, reg, dev) /\ data' = data
         /\ Steps[ip] = "sample" =>
              /\ Lines(sclOut, port, ddr, (2 * reg + (IF Sda THEN 1 ELSE 0)) % 256, dev)
              /\ data' = data
<1> DEFINE Effect == /\ ip' = ip + 1
         /\ UNCHANGED <<lib, job, at, connected, attached, faults, was, missed>>
<1> USE DEF Do, Same
<1>1. CASE SdaHigh
  BY <1>1 DEF SdaHigh
<1>2. CASE SdaLow
  BY <1>2 DEF SdaLow
<1>3. CASE SclHigh
  BY <1>3 DEF SclHigh
<1>4. CASE SclLow
  BY <1>4 DEF SclLow
<1>5. CASE AwaitScl
  BY <1>5 DEF AwaitScl
<1>6. CASE SdaInput
  BY <1>6 DEF SdaInput
<1>7. CASE SdaOutput
  BY <1>7 DEF SdaOutput
<1>8. CASE Enable
  BY <1>8 DEF Enable
<1>9. CASE Load
  BY <1>9 DEF Load
<1>10. CASE Take
  BY <1>10 DEF Take
<1>11. CASE Drop
  BY <1>11 DEF Drop
<1>12. CASE Clear
  BY <1>12 DEF Clear
<1>13. CASE NextBit
  BY <1>13 DEF NextBit
<1>14. CASE Nack
  BY <1>14 DEF Nack
<1>15. CASE SampleBit
  BY <1>15 DEF SampleBit
<1>16. ~Return
  BY DEF Return
<1> QED
  BY <1>1, <1>2, <1>3, <1>4, <1>5, <1>6, <1>7, <1>8, <1>9, <1>10, <1>11, <1>12, <1>13, <1>14,
     <1>15, <1>16 DEF Library

-----------------------------------------------------------------------------
(* The lines *)

SdaFor(o, p, open, d) == (~o \/ (p /\ open)) /\ ~d.pull

LEMMA ReactCases ==
  ASSUME NEW d, NEW scl \in BOOLEAN, NEW sda \in BOOLEAN, NEW scl2 \in BOOLEAN,
         NEW sda2 \in BOOLEAN,
         NEW e, e \in React(d, scl, sda, scl2, sda2)
  PROVE  /\ ~attached => e = d
         /\ (scl = scl2) /\ ~scl => e = d
         /\ (scl = scl2) /\ (sda = sda2) => e = d
         /\ attached /\ scl /\ scl2 /\ sda /\ ~sda2 =>
              e = [d EXCEPT !.mode = "address", !.n = 0, !.in = 0, !.pull = FALSE]
         /\ attached /\ scl /\ scl2 /\ ~sda /\ sda2 =>
              e = [d EXCEPT !.mode = "idle", !.n = 0, !.in = 0, !.pull = FALSE]
         /\ attached /\ ~scl /\ scl2 => e = Sample(d, sda2)
         /\ attached /\ scl /\ ~scl2 => e \in MayStretch(Drive(d))
<1>1. CASE ~attached
  BY <1>1 DEF React
<1>2. CASE attached /\ scl
  BY <1>2 DEF React
<1>3. CASE attached /\ ~scl
  BY <1>3 DEF React
<1> QED
  BY <1>1, <1>2, <1>3

LEMMA LinesReact ==
  ASSUME NEW scl, NEW p, NEW o, NEW r, NEW d, Lines(scl, p, o, r, d)
  PROVE  /\ sclOut' = scl /\ port' = p /\ ddr' = o
         /\ reg' = IF lib = "usi" /\ (scl /\ ~d.stretch) /\ ~Scl
                   THEN (2 * r + (IF Sda THEN 1 ELSE 0)) % 256 ELSE r
         /\ latch' = IF lib = "usi" THEN IF scl /\ ~d.stretch THEN latch ELSE reg' >= 128 ELSE TRUE
         /\ dev' \in React(d, Scl, Sda, scl /\ ~d.stretch, SdaFor(o, p, latch', d))
BY Zenon DEF Lines, SdaFor

LEMMA Levels == Scl \in BOOLEAN /\ Sda \in BOOLEAN
BY DEF Scl, Sda

LEMMA LinesSet ==
  ASSUME NEW scl, NEW p, NEW o, NEW r, NEW d, Lines(scl, p, o, r, d)
  PROVE  sclOut' = scl /\ port' = p /\ ddr' = o
BY Zenon DEF Lines

LEMMA LinesLow ==
  ASSUME NEW scl \in BOOLEAN, NEW p, NEW o, NEW r, NEW d, Lines(scl, p, o, r, d),
         ~Scl, ~scl \/ d.stretch
  PROVE  /\ reg' = r /\ dev' = d
         /\ latch' <=> (lib = "usi" => r >= 128)
<1> DEFINE high == scl /\ ~d.stretch
           sda == SdaFor(o, p, latch', d)
<1>1. /\ dev' \in React(d, Scl, Sda, high, sda)
      /\ reg' = IF lib = "usi" /\ high /\ ~Scl
                THEN (2 * r + (IF Sda THEN 1 ELSE 0)) % 256 ELSE r
      /\ latch' = IF lib = "usi" THEN IF high THEN latch ELSE reg' >= 128 ELSE TRUE
  <2>1. dev' \in React(d, Scl, Sda, scl /\ ~d.stretch, SdaFor(o, p, latch', d))
    BY LinesReact, Zenon
  <2>2. reg' = IF lib = "usi" /\ (scl /\ ~d.stretch) /\ ~Scl
               THEN (2 * r + (IF Sda THEN 1 ELSE 0)) % 256 ELSE r
    BY DEF Lines
  <2>3. latch' = IF lib = "usi" THEN IF scl /\ ~d.stretch THEN latch ELSE reg' >= 128 ELSE TRUE
    BY LinesReact, Zenon
  <2> QED
    BY <2>1, <2>2, <2>3
<1>2. ~high
  OBVIOUS
<1>3. high \in BOOLEAN /\ sda \in BOOLEAN
  BY DEF SdaFor
<1> HIDE DEF high, sda
<1>4. reg' = r
  BY <1>1, <1>2
<1>5. dev' = d
  BY <1>1, <1>2, <1>3, Levels, ReactCases
<1>6. latch' <=> (lib = "usi" => r >= 128)
  BY <1>1, <1>2, <1>4, Zenon
<1> QED
  BY <1>4, <1>5, <1>6

LEMMA LinesRise ==
  ASSUME NEW scl \in BOOLEAN, scl, NEW p, NEW o, NEW r, NEW d, Lines(scl, p, o, r, d), ~Scl,
         ~d.stretch,
         lib = "bitbang" => latch, lib \in {"usi", "bitbang"}
  PROVE  /\ reg' = IF lib = "usi" THEN (2 * r + (IF Sda THEN 1 ELSE 0)) % 256 ELSE r
         /\ latch' <=> latch
         /\ dev' = IF attached THEN Sample(d, SdaFor(o, p, latch, d)) ELSE d
<1> DEFINE high == scl /\ ~d.stretch
           sda == SdaFor(o, p, latch', d)
<1>1. /\ dev' \in React(d, Scl, Sda, high, sda)
      /\ reg' = IF lib = "usi" /\ high /\ ~Scl
                THEN (2 * r + (IF Sda THEN 1 ELSE 0)) % 256 ELSE r
      /\ latch' = IF lib = "usi" THEN IF high THEN latch ELSE reg' >= 128 ELSE TRUE
  BY LinesReact, Zenon
<1>2. high
  OBVIOUS
<1>3. high \in BOOLEAN /\ sda \in BOOLEAN
  BY DEF SdaFor
<1>4. reg' = IF lib = "usi" THEN (2 * r + (IF Sda THEN 1 ELSE 0)) % 256 ELSE r
  BY <1>1, <1>2
<1>5. latch' <=> latch
  BY <1>1, <1>2, Zenon
<1>6. sda = SdaFor(o, p, latch, d)
  BY <1>5, Zenon DEF SdaFor
<1> HIDE DEF high, sda
<1>7. ~attached => dev' = d
  BY <1>1, <1>2, <1>3, Levels, ReactCases
<1>8. attached => dev' = Sample(d, sda)
  BY <1>1, <1>2, <1>3, Levels, ReactCases
<1> QED
  BY <1>4, <1>5, <1>6, <1>7, <1>8

LEMMA LinesFall ==
  ASSUME NEW scl \in BOOLEAN, ~scl, NEW p, NEW o, NEW r, NEW d, Lines(scl, p, o, r, d), Scl
  PROVE  /\ reg' = r
         /\ latch' <=> (lib = "usi" => r >= 128)
         /\ attached => dev' \in MayStretch(Drive(d))
         /\ ~attached => dev' = d
<1> DEFINE high == scl /\ ~d.stretch
           sda == SdaFor(o, p, latch', d)
<1>1. /\ dev' \in React(d, Scl, Sda, high, sda)
      /\ reg' = IF lib = "usi" /\ high /\ ~Scl
                THEN (2 * r + (IF Sda THEN 1 ELSE 0)) % 256 ELSE r
      /\ latch' = IF lib = "usi" THEN IF high THEN latch ELSE reg' >= 128 ELSE TRUE
  <2>1. dev' \in React(d, Scl, Sda, scl /\ ~d.stretch, SdaFor(o, p, latch', d))
    BY LinesReact, Zenon
  <2>2. reg' = IF lib = "usi" /\ (scl /\ ~d.stretch) /\ ~Scl
               THEN (2 * r + (IF Sda THEN 1 ELSE 0)) % 256 ELSE r
    BY DEF Lines
  <2>3. latch' = IF lib = "usi" THEN IF scl /\ ~d.stretch THEN latch ELSE reg' >= 128 ELSE TRUE
    BY LinesReact, Zenon
  <2> QED
    BY <2>1, <2>2, <2>3
<1>2. ~high
  OBVIOUS
<1>3. high \in BOOLEAN /\ sda \in BOOLEAN
  BY DEF SdaFor
<1> HIDE DEF high, sda
<1>4. reg' = r
  BY <1>1, <1>2
<1>5. (attached => dev' \in MayStretch(Drive(d))) /\ (~attached => dev' = d)
  BY <1>1, <1>2, <1>3, Levels, ReactCases
<1>6. latch' <=> (lib = "usi" => r >= 128)
  BY <1>1, <1>2, <1>4, Zenon
<1> QED
  BY <1>4, <1>5, <1>6

LEMMA LinesHigh ==
  ASSUME NEW scl \in BOOLEAN, scl, NEW p, NEW o, NEW r, NEW d, Lines(scl, p, o, r, d), Scl,
         ~d.stretch,
         lib = "bitbang" => latch, lib \in {"usi", "bitbang"}
  PROVE  /\ reg' = r
         /\ latch' <=> latch
         /\ ~attached => dev' = d
         /\ attached /\ Sda /\ ~SdaFor(o, p, latch, d) =>
              dev' = [d EXCEPT !.mode = "address", !.n = 0, !.in = 0, !.pull = FALSE]
         /\ attached /\ ~Sda /\ SdaFor(o, p, latch, d) =>
              dev' = [d EXCEPT !.mode = "idle", !.n = 0, !.in = 0, !.pull = FALSE]
         /\ (Sda <=> SdaFor(o, p, latch, d)) => dev' = d
         /\ dev' = d \/ (attached /\ \E m \in {"idle", "address"} :
                             dev' = [d EXCEPT !.mode = m, !.n = 0, !.in = 0, !.pull = FALSE])
<1> DEFINE high == scl /\ ~d.stretch
           sda == SdaFor(o, p, latch', d)
<1>1. /\ dev' \in React(d, Scl, Sda, high, sda)
      /\ reg' = IF lib = "usi" /\ high /\ ~Scl
                THEN (2 * r + (IF Sda THEN 1 ELSE 0)) % 256 ELSE r
      /\ latch' = IF lib = "usi" THEN IF high THEN latch ELSE reg' >= 128 ELSE TRUE
  BY LinesReact, Zenon
<1>2. high
  OBVIOUS
<1>3. high \in BOOLEAN /\ sda \in BOOLEAN
  BY DEF SdaFor
<1>4. reg' = r
  BY <1>1, <1>2
<1>5. latch' <=> latch
  BY <1>1, <1>2, Zenon
<1>6. sda <=> SdaFor(o, p, latch, d)
  BY <1>5, Zenon DEF SdaFor
<1> HIDE DEF high, sda
<1>7. /\ ~attached => dev' = d
      /\ attached /\ Sda /\ ~sda =>
           dev' = [d EXCEPT !.mode = "address", !.n = 0, !.in = 0, !.pull = FALSE]
      /\ attached /\ ~Sda /\ sda =>
           dev' = [d EXCEPT !.mode = "idle", !.n = 0, !.in = 0, !.pull = FALSE]
      /\ (Sda <=> sda) => dev' = d
  BY <1>1, <1>2, <1>3, Levels, ReactCases
<1>8. dev' = d \/ (attached /\ \E m \in {"idle", "address"} :
                      dev' = [d EXCEPT !.mode = m, !.n = 0, !.in = 0, !.pull = FALSE])
  BY <1>7
<1> QED
  BY <1>4, <1>5, <1>6, <1>7, <1>8

-----------------------------------------------------------------------------
(* Bits *)

LEMMA Shifted ==
  ASSUME NEW r \in 0 .. 255, NEW b \in 0 .. 1
  PROVE  /\ (2 * r + b) % 256 = IF r < 128 THEN 2 * r + b ELSE 2 * r + b - 256
         /\ (2 * r + b) % 256 \in 0 .. 255
<1>1. (2 * r + b) % 256 = IF r < 128 THEN 2 * r + b ELSE 2 * r + b - 256
  OBVIOUS
<1> QED
  BY <1>1

LEMMA Powers ==
  ASSUME NEW i \in 0 .. 7, NEW x \in 0 .. 255
  PROVE  2 ^ (7 - i) \in Nat /\ x % 2 ^ (8 - i) \in Int
<1>0. CASE i = 0
  BY <1>0
<1>1. CASE i = 1
  BY <1>1
<1>2. CASE i = 2
  BY <1>2
<1>3. CASE i = 3
  BY <1>3
<1>4. CASE i = 4
  BY <1>4
<1>5. CASE i = 5
  BY <1>5
<1>6. CASE i = 6
  BY <1>6
<1>7. CASE i = 7
  BY <1>7
<1> QED
  BY <1>0, <1>1, <1>2, <1>3, <1>4, <1>5, <1>6, <1>7



LEMMA LowPart ==
  ASSUME NEW r \in 0 .. 255, NEW b \in 0 .. 1, NEW i \in 0 .. 7, NEW m,
         m = IF r < 128 THEN 2 * r + b ELSE 2 * r + b - 256
  PROVE  m % 2 ^ (i + 1) = 2 * (r % 2 ^ i) + b
<1>0. CASE i = 0
  BY <1>0
<1>1. CASE i = 1
  BY <1>1
<1>2. CASE i = 2
  BY <1>2
<1>3. CASE i = 3
  BY <1>3
<1>4. CASE i = 4
  BY <1>4
<1>5. CASE i = 5
  BY <1>5
<1>6. CASE i = 6
  BY <1>6
<1>7. CASE i = 7
  BY <1>7
<1> QED
  BY <1>0, <1>1, <1>2, <1>3, <1>4, <1>5, <1>6, <1>7

LEMMA HighPart ==
  ASSUME NEW r \in 0 .. 255, NEW b \in 0 .. 1, NEW i \in 0 .. 7, r < 128, NEW m, m = 2 * r + b
  PROVE  m \div 2 ^ (i + 1) = r \div 2 ^ i
<1>0. CASE i = 0
  BY <1>0
<1>1. CASE i = 1
  BY <1>1
<1>2. CASE i = 2
  BY <1>2
<1>3. CASE i = 3
  BY <1>3
<1>4. CASE i = 4
  BY <1>4
<1>5. CASE i = 5
  BY <1>5
<1>6. CASE i = 6
  BY <1>6
<1>7. CASE i = 7
  BY <1>7
<1> QED
  BY <1>0, <1>1, <1>2, <1>3, <1>4, <1>5, <1>6, <1>7

Over(r, b, m) == r >= 128 /\ m = 2 * r + b - 256

LEMMA HighPartOver ==
  ASSUME NEW r \in 0 .. 255, NEW b \in 0 .. 1, NEW i \in 0 .. 7, NEW m, Over(r, b, m)
  PROVE  m \div 2 ^ (i + 1) = r \div 2 ^ i - 2 ^ (7 - i)
<1>0. CASE i = 0
  BY <1>0 DEF Over
<1>1. CASE i = 1
  BY <1>1 DEF Over
<1>2. CASE i = 2
  BY <1>2 DEF Over
<1>3. CASE i = 3
  BY <1>3 DEF Over
<1>4. CASE i = 4
  BY <1>4 DEF Over
<1>5. CASE i = 5
  BY <1>5 DEF Over
<1>6. CASE i = 6
  BY <1>6 DEF Over
<1>7. CASE i = 7
  BY <1>7 DEF Over
<1> QED
  BY <1>0, <1>1, <1>2, <1>3, <1>4, <1>5, <1>6, <1>7

LEMMA HighBit ==
  ASSUME NEW r \in 0 .. 255, NEW i \in 0 .. 7
  PROVE  r < 128 <=> r \div 2 ^ i < 2 ^ (7 - i)
<1>0. CASE i = 0
  BY <1>0
<1>1. CASE i = 1
  BY <1>1
<1>2. CASE i = 2
  BY <1>2
<1>3. CASE i = 3
  BY <1>3
<1>4. CASE i = 4
  BY <1>4
<1>5. CASE i = 5
  BY <1>5
<1>6. CASE i = 6
  BY <1>6
<1>7. CASE i = 7
  BY <1>7
<1> QED
  BY <1>0, <1>1, <1>2, <1>3, <1>4, <1>5, <1>6, <1>7

LEMMA TopBit ==
  ASSUME NEW x \in 0 .. 255, NEW i \in 0 .. 7
  PROVE  /\ x \div 2 ^ (7 - i) = 2 * (x \div 2 ^ (8 - i)) + IF OneIn(x, i) THEN 1 ELSE 0
         /\ OneIn(x, i) <=> x % 2 ^ (8 - i) >= 2 ^ (7 - i)
         /\ x % 2 ^ (7 - i) = IF OneIn(x, i) THEN (x % 2 ^ (8 - i)) - 2 ^ (7 - i)
                              ELSE x % 2 ^ (8 - i)
<1> USE DEF OneIn
<1>0. CASE i = 0
  BY <1>0
<1>1. CASE i = 1
  BY <1>1
<1>2. CASE i = 2
  BY <1>2
<1>3. CASE i = 3
  BY <1>3
<1>4. CASE i = 4
  BY <1>4
<1>5. CASE i = 5
  BY <1>5
<1>6. CASE i = 6
  BY <1>6
<1>7. CASE i = 7
  BY <1>7
<1> QED
  BY <1>0, <1>1, <1>2, <1>3, <1>4, <1>5, <1>6, <1>7

Leaving(r, a, i, b) ==
  r \in 0 .. 255 /\ a \in 0 .. 255 /\ i \in 0 .. 7 /\ b \in 0 .. 1 /\ Outgoing(r, a, i)
Left(r, a, i, b) == (r < 128 <=> ~OneIn(a, i)) /\ Outgoing((2 * r + b) % 256, a, i + 1)

LEMMA BitLeaves ==
  ASSUME NEW r, NEW a, NEW i, NEW b, Leaving(r, a, i, b)
  PROVE  Left(r, a, i, b)
<1>a. r \in 0 .. 255 /\ a \in 0 .. 255 /\ i \in 0 .. 7 /\ b \in 0 .. 1 /\ Outgoing(r, a, i)
  BY DEF Leaving
<1> DEFINE m == (2 * r + b) % 256
<1>1. m = IF r < 128 THEN 2 * r + b ELSE 2 * r + b - 256
  BY <1>a, Shifted
<1> HIDE DEF m
<1>2. ASSUME r < 128
      PROVE  m \div 2 ^ (i + 1) = r \div 2 ^ i
  <2>1. m = 2 * r + b
    BY <1>a, <1>1, <1>2
  <2> QED
    BY <1>a, <1>2, <2>1, HighPart, Zenon
<1>10. ASSUME ~(r < 128)
       PROVE  m \div 2 ^ (i + 1) = r \div 2 ^ i - 2 ^ (7 - i)
  <2>1. Over(r, b, m)
    BY <1>a, <1>1, <1>10 DEF Over
  <2> QED
    BY <1>a, <2>1, HighPartOver, Zenon
<1>3. /\ OneIn(a, i) <=> a % 2 ^ (8 - i) >= 2 ^ (7 - i)
      /\ a % 2 ^ (7 - i) = IF OneIn(a, i) THEN (a % 2 ^ (8 - i)) - 2 ^ (7 - i)
                           ELSE a % 2 ^ (8 - i)
  BY <1>a, TopBit
<1>4. r \div 2 ^ i = a % 2 ^ (8 - i) /\ 8 - (i + 1) = 7 - i
  BY <1>a DEF Outgoing
<1>5. 2 ^ (7 - i) \in Nat /\ a % 2 ^ (8 - i) \in Int
  BY <1>a, Powers
<1>9. r < 128 <=> r \div 2 ^ i < 2 ^ (7 - i)
  BY <1>a, HighBit, Zenon
<1>6. r < 128 <=> ~OneIn(a, i)
  BY <1>a, <1>9, <1>3, <1>4, <1>5
<1>7. m \div 2 ^ (i + 1) = a % 2 ^ (7 - i)
  BY <1>a, <1>2, <1>3, <1>4, <1>5, <1>6, <1>10
<1>8. Outgoing(m, a, i + 1)
  BY <1>4, <1>7 DEF Outgoing
<1> QED
  BY <1>6, <1>8 DEF m, Left

LEMMA OutgoingAll == ASSUME NEW a \in 0 .. 255 PROVE Outgoing(a, a, 0)
BY DEF Outgoing

LEMMA IncomingBit ==
  ASSUME NEW r \in 0 .. 255, NEW x \in 0 .. 255, NEW i \in 0 .. 7, Incoming(r, x, i),
         NEW b \in 0 .. 1, b = 1 <=> OneIn(x, i)
  PROVE  /\ Incoming((2 * r + b) % 256, x, i + 1)
         /\ (2 * r + b) % 256 \in 0 .. 255
<1> DEFINE m == (2 * r + b) % 256
<1>1. m = IF r < 128 THEN 2 * r + b ELSE 2 * r + b - 256
  BY Shifted
<1>0. m \in 0 .. 255
  BY Shifted
<1> HIDE DEF m
<1>2. m % 2 ^ (i + 1) = 2 * (r % 2 ^ i) + b
  BY <1>1, LowPart, Zenon
<1>3. x \div 2 ^ (7 - i) = 2 * (x \div 2 ^ (8 - i)) + IF OneIn(x, i) THEN 1 ELSE 0
  BY TopBit
<1>4. r % 2 ^ i = x \div 2 ^ (8 - i) /\ 8 - (i + 1) = 7 - i /\ b = IF OneIn(x, i) THEN 1 ELSE 0
  BY DEF Incoming
<1>5. m % 2 ^ (i + 1) = x \div 2 ^ (8 - (i + 1))
  BY <1>2, <1>3, <1>4
<1> QED
  BY <1>0, <1>5 DEF Incoming, m

LEMMA IncomingEnds ==
  ASSUME NEW r \in 0 .. 255, NEW x \in 0 .. 255
  PROVE  Incoming(r, x, 0) /\ (Incoming(r, x, 8) => r = x)
<1>1. 2 ^ 0 = 1 /\ 2 ^ 8 = 256 /\ 8 - 0 = 8 /\ 8 - 8 = 0
  OBVIOUS
<1>2. r % 1 = 0 /\ r % 256 = r /\ x \div 256 = 0 /\ x \div 1 = x
  OBVIOUS
<1> QED
  BY <1>1, <1>2 DEF Incoming

LEMMA AllOnes == ASSUME NEW i \in 0 .. 7 PROVE OneIn(255, i)
<1> USE DEF OneIn
<1>0. CASE i = 0
  BY <1>0
<1>1. CASE i = 1
  BY <1>1
<1>2. CASE i = 2
  BY <1>2
<1>3. CASE i = 3
  BY <1>3
<1>4. CASE i = 4
  BY <1>4
<1>5. CASE i = 5
  BY <1>5
<1>6. CASE i = 6
  BY <1>6
<1>7. CASE i = 7
  BY <1>7
<1> QED
  BY <1>0, <1>1, <1>2, <1>3, <1>4, <1>5, <1>6, <1>7

-----------------------------------------------------------------------------
(* The controller *)

LEMMA NewField ==
  ASSUME NEW d \in Devices
  PROVE  /\ \A m \in Modes : [d EXCEPT !.mode = m] \in Devices
         /\ \A n \in 0 .. 9 : [d EXCEPT !.n = n] \in Devices
         /\ \A i \in 0 .. 127 : [d EXCEPT !.in = i] \in Devices
         /\ \A g \in 0 .. 255 : [d EXCEPT !.got = g] \in Devices
         /\ \A o \in Bytes : [d EXCEPT !.out = o] \in Devices
         /\ \A b \in BOOLEAN : [d EXCEPT !.pull = b] \in Devices
         /\ \A b \in BOOLEAN : [d EXCEPT !.stretch = b] \in Devices
<1>1. ASSUME NEW m \in Modes PROVE [d EXCEPT !.mode = m] \in Devices
  BY DEF Devices
<1>2. ASSUME NEW n \in 0 .. 9 PROVE [d EXCEPT !.n = n] \in Devices
  BY DEF Devices
<1>3. ASSUME NEW i \in 0 .. 127 PROVE [d EXCEPT !.in = i] \in Devices
  BY DEF Devices
<1>4. ASSUME NEW g \in 0 .. 255 PROVE [d EXCEPT !.got = g] \in Devices
  BY DEF Devices
<1>5. ASSUME NEW o \in Bytes PROVE [d EXCEPT !.out = o] \in Devices
  BY DEF Devices
<1>6. ASSUME NEW b \in BOOLEAN PROVE [d EXCEPT !.pull = b] \in Devices
  BY DEF Devices
<1>7. ASSUME NEW b \in BOOLEAN PROVE [d EXCEPT !.stretch = b] \in Devices
  BY DEF Devices
<1> QED
  BY <1>1, <1>2, <1>3, <1>4, <1>5, <1>6, <1>7

LEMMA NewPlace ==
  ASSUME NEW d \in Devices, NEW m \in Modes, NEW n \in 0 .. 9, NEW b \in BOOLEAN
  PROVE  [d EXCEPT !.mode = m, !.n = n, !.pull = b] \in Devices
<1> DEFINE x1 == [d EXCEPT !.mode = m]
<1> DEFINE x2 == [x1 EXCEPT !.n = n]
<1> DEFINE x3 == [x2 EXCEPT !.pull = b]
<1>0. [d EXCEPT !.mode = m, !.n = n, !.pull = b] = x3
  BY DEF Devices
<1>1. x1 \in Devices
  BY NewField
<1> HIDE DEF x1
<1>2. x2 \in Devices
  BY <1>1, NewField
<1> HIDE DEF x2
<1>3. x3 \in Devices
  BY <1>2, NewField
<1> HIDE DEF x3
<1> QED
  BY <1>0, <1>3

LEMMA NewOffer ==
  ASSUME NEW d \in Devices, NEW m \in Modes, NEW n \in 0 .. 9, NEW o \in Bytes, NEW b \in BOOLEAN
  PROVE  [d EXCEPT !.mode = m, !.n = n, !.out = o, !.pull = b] \in Devices
<1> DEFINE x1 == [d EXCEPT !.mode = m]
<1> DEFINE x2 == [x1 EXCEPT !.n = n]
<1> DEFINE x3 == [x2 EXCEPT !.out = o]
<1> DEFINE x4 == [x3 EXCEPT !.pull = b]
<1>0. [d EXCEPT !.mode = m, !.n = n, !.out = o, !.pull = b] = x4
  BY DEF Devices
<1>1. x1 \in Devices
  BY NewField
<1> HIDE DEF x1
<1>2. x2 \in Devices
  BY <1>1, NewField
<1> HIDE DEF x2
<1>3. x3 \in Devices
  BY <1>2, NewField
<1> HIDE DEF x3
<1>4. x4 \in Devices
  BY <1>3, NewField
<1> HIDE DEF x4
<1> QED
  BY <1>0, <1>4

LEMMA NewBegin ==
  ASSUME NEW d \in Devices, NEW m \in Modes, NEW n \in 0 .. 9, NEW i \in 0 .. 127, NEW b \in BOOLEAN
  PROVE  [d EXCEPT !.mode = m, !.n = n, !.in = i, !.pull = b] \in Devices
<1> DEFINE x1 == [d EXCEPT !.mode = m]
<1> DEFINE x2 == [x1 EXCEPT !.n = n]
<1> DEFINE x3 == [x2 EXCEPT !.in = i]
<1> DEFINE x4 == [x3 EXCEPT !.pull = b]
<1>0. [d EXCEPT !.mode = m, !.n = n, !.in = i, !.pull = b] = x4
  BY DEF Devices
<1>1. x1 \in Devices
  BY NewField
<1> HIDE DEF x1
<1>2. x2 \in Devices
  BY <1>1, NewField
<1> HIDE DEF x2
<1>3. x3 \in Devices
  BY <1>2, NewField
<1> HIDE DEF x3
<1>4. x4 \in Devices
  BY <1>3, NewField
<1> HIDE DEF x4
<1> QED
  BY <1>0, <1>4

LEMMA NewBit ==
  ASSUME NEW d \in Devices, NEW n \in 0 .. 9, NEW i \in 0 .. 127
  PROVE  [d EXCEPT !.n = n, !.in = i] \in Devices
<1> DEFINE x1 == [d EXCEPT !.n = n]
<1> DEFINE x2 == [x1 EXCEPT !.in = i]
<1>0. [d EXCEPT !.n = n, !.in = i] = x2
  BY DEF Devices
<1>1. x1 \in Devices
  BY NewField
<1> HIDE DEF x1
<1>2. x2 \in Devices
  BY <1>1, NewField
<1> HIDE DEF x2
<1> QED
  BY <1>0, <1>2

LEMMA NewByte ==
  ASSUME NEW d \in Devices, NEW n \in 0 .. 9, NEW i \in 0 .. 127, NEW g \in 0 .. 255
  PROVE  [d EXCEPT !.n = n, !.in = i, !.got = g] \in Devices
<1> DEFINE x1 == [d EXCEPT !.n = n]
<1> DEFINE x2 == [x1 EXCEPT !.in = i]
<1> DEFINE x3 == [x2 EXCEPT !.got = g]
<1>0. [d EXCEPT !.n = n, !.in = i, !.got = g] = x3
  BY DEF Devices
<1>1. x1 \in Devices
  BY NewField
<1> HIDE DEF x1
<1>2. x2 \in Devices
  BY <1>1, NewField
<1> HIDE DEF x2
<1>3. x3 \in Devices
  BY <1>2, NewField
<1> HIDE DEF x3
<1> QED
  BY <1>0, <1>3

LEMMA NewMode ==
  ASSUME NEW d \in Devices, NEW m \in Modes, NEW n \in 0 .. 9
  PROVE  [d EXCEPT !.mode = m, !.n = n] \in Devices
<1> DEFINE x1 == [d EXCEPT !.mode = m]
<1> DEFINE x2 == [x1 EXCEPT !.n = n]
<1>0. [d EXCEPT !.mode = m, !.n = n] = x2
  BY DEF Devices
<1>1. x1 \in Devices
  BY NewField
<1> HIDE DEF x1
<1>2. x2 \in Devices
  BY <1>1, NewField
<1> HIDE DEF x2
<1> QED
  BY <1>0, <1>2

LEMMA Placed ==
  /\ "idle" \in Modes /\ "address" \in Modes /\ "send" \in Modes /\ "receive" \in Modes
  /\ 0 \in 0 .. 9 /\ 8 \in 0 .. 9 /\ 0 \in 0 .. 127
  /\ TRUE \in BOOLEAN /\ FALSE \in BOOLEAN
  /\ \A byte, n : OneIn(byte, n) \in BOOLEAN /\ (~OneIn(byte, n)) \in BOOLEAN
BY DEF Modes, OneIn

LEMMA HearingUp ==
  ASSUME NEW d, NEW w, NEW a \in 0 .. 255, NEW k \in 0 .. 7, NEW s \in BOOLEAN, DevType(d),
         w.mode \in {"address", "receive"}, Hearing(d, w, a, k, FALSE), s <=> OneIn(a, k)
  PROVE  Hearing(Sample(d, s), w, a, k + 1, TRUE)
<1>0. d \in Devices
  BY DEF DevType
<1> DEFINE v == a \div 2 ^ (7 - k)
<1>1. /\ d.mode = w.mode /\ d.n = k /\ d.out = w.offer /\ d.in = a \div 2 ^ (8 - k)
      /\ d.got = w.got /\ ~d.pull
  BY DEF Hearing, DevType, Devices
<1>2. v = 2 * d.in + IF s THEN 1 ELSE 0
  BY TopBit, <1>1
<1>3. 8 - (k + 1) = 7 - k
  OBVIOUS
<1>4. k = 7 => v = a
  OBVIOUS
<1>5. a \div 2 ^ (8 - (k + 1)) = v
  BY <1>3
<1> HIDE DEF v
<1>6. CASE k < 7
  <2>1. Sample(d, s) = [d EXCEPT !.n = k + 1, !.in = v]
    BY <1>1, <1>2, <1>6 DEF Sample, Receiving
  <2>2. /\ Sample(d, s).mode = w.mode /\ Sample(d, s).n = k + 1 /\ Sample(d, s).out = w.offer
        /\ Sample(d, s).in = v /\ Sample(d, s).got = w.got /\ Sample(d, s).pull = FALSE
    BY <1>0, <1>1, <2>1 DEF Devices
  <2>3. k + 1 < 8 /\ k + 1 # 9 /\ k + 1 # 8
    BY <1>6
  <2> QED
    BY <1>5, <2>2, <2>3, Zenon DEF Hearing
<1>7. CASE k = 7
  <2>1. Sample(d, s) = [d EXCEPT !.n = 8, !.in = 0, !.got = a]
    <3>1. Sample(d, s) = [d EXCEPT !.n = 8, !.in = 0, !.got = v]
      BY <1>1, <1>2, <1>7 DEF Sample, Receiving
    <3> QED
      BY <1>4, <1>7, <3>1
  <2>2. /\ Sample(d, s).mode = w.mode /\ Sample(d, s).n = 8 /\ Sample(d, s).out = w.offer
        /\ Sample(d, s).in = 0 /\ Sample(d, s).got = a /\ Sample(d, s).pull = FALSE
    BY <1>0, <1>1, <2>1 DEF Devices
  <2>3. k + 1 = 8 /\ ~(8 < 8) /\ 8 # 9
    BY <1>7
  <2>4. Hearing(Sample(d, s), w, a, 8, TRUE)
    BY <2>2, <2>3, Zenon DEF Hearing
  <2> QED
    BY <2>3, <2>4, Zenon
<1>8. k < 7 \/ k = 7
  OBVIOUS
<1> QED
  BY <1>6, <1>7, <1>8, Zenon

LEMMA HearingAck ==
  ASSUME NEW d, NEW w, NEW a \in 0 .. 255, NEW s \in BOOLEAN, DevType(d),
         w.mode \in {"address", "receive"}, Hearing(d, w, a, 8, FALSE)
  PROVE  Hearing(Sample(d, s), w, a, 9, TRUE)
BY DEF Hearing, Sample, Receiving, DevType, Devices

LEMMA Stretches ==
  ASSUME NEW ds, NEW e, e \in MayStretch(ds)
  PROVE  \E d \in ds : e = d \/ (e = [d EXCEPT !.stretch = TRUE] /\ d.mode # "idle" /\ Stretching)
BY DEF MayStretch

LEMMA StretchKeeps ==
  ASSUME NEW x \in Devices, NEW e, e = x \/ e = [x EXCEPT !.stretch = TRUE]
  PROVE  /\ e.mode = x.mode /\ e.n = x.n /\ e.in = x.in /\ e.got = x.got /\ e.out = x.out
         /\ e.pull = x.pull
<1>1. CASE e = x
  BY <1>1
<1>2. CASE e = [x EXCEPT !.stretch = TRUE]
  BY <1>2 DEF Devices
<1> QED
  BY <1>1, <1>2

LEMMA HearingDown ==
  ASSUME NEW d, NEW w, NEW a \in 0 .. 255, NEW k \in 1 .. 8, DevType(d),
         w.mode \in {"address", "receive"}, Hearing(d, w, a, k, TRUE),
         w.mode = "address" => a \in {Own, Own + 1}, NEW e \in MayStretch(Drive(d))
  PROVE  Hearing(e, w, a, k, FALSE)
<1>0. d \in Devices
  BY DEF DevType
<1>1. d.mode = w.mode /\ d.n = k /\ (k = 8 => d.got = a)
  BY DEF Hearing
<1>2. Drive(d) = {IF k = 8 THEN [d EXCEPT !.pull = TRUE] ELSE d}
  BY <1>1 DEF Drive, Receiving
<1>3. PICK x \in Drive(d) : e = x \/ e = [x EXCEPT !.stretch = TRUE]
  BY Stretches
<1>7. [d EXCEPT !.pull = TRUE] \in Devices
  BY <1>0, NewField
<1>5. x \in Devices
  BY <1>0, <1>2, <1>7
<1>6. /\ x.mode = d.mode /\ x.n = d.n /\ x.in = d.in /\ x.got = d.got /\ x.out = d.out
      /\ x.pull = IF k = 8 THEN TRUE ELSE d.pull
  BY <1>0, <1>2 DEF Devices
<1>4. /\ e.mode = d.mode /\ e.n = d.n /\ e.in = d.in /\ e.got = d.got /\ e.out = d.out
      /\ e.pull = IF k = 8 THEN TRUE ELSE d.pull
  BY <1>3, <1>5, <1>6, StretchKeeps
<1> QED
  BY <1>4 DEF Hearing

LEMMA HearingDone ==
  ASSUME NEW d, NEW w, NEW a \in 0 .. 255, DevType(d), w.mode \in {"address", "receive"},
         Hearing(d, w, a, 9, TRUE), NEW e \in MayStretch(Drive(d)), w.attached
  PROVE  Written(e, w, a)
<1>0. d \in Devices
  BY DEF DevType
<1>1. /\ d.mode = w.mode /\ d.n = 9 /\ d.in = 0 /\ d.got = a /\ d.out = w.offer
  BY DEF Hearing
<1>2. PICK x \in Drive(d) : e = x \/ e = [x EXCEPT !.stretch = TRUE]
  BY Stretches
<1>3. CASE w.mode = "address" /\ a = Own + 1
  <2>1. Drive(d) = NextByte(d)
    BY <1>1, <1>3 DEF Drive, Receiving
  <2>2. PICK b \in Bytes : x = [d EXCEPT !.mode = "send", !.n = 0, !.out = b, !.pull = ~OneIn(b, 0)]
    BY <1>2, <2>1 DEF NextByte
  <2>7. [d EXCEPT !.mode = "send", !.n = 0, !.out = b, !.pull = ~OneIn(b, 0)] \in Devices
    BY <1>0, Placed, NewOffer, Zenon
  <2>4. x \in Devices
    BY <2>2, <2>7
  <2>5. /\ x.mode = "send" /\ x.n = 0 /\ x.in = 0 /\ x.got = a
        /\ x.pull = ~OneIn(x.out, 0)
    BY <1>0, <1>1, <2>2 DEF Devices
  <2>3. /\ e.mode = "send" /\ e.n = 0 /\ e.in = 0 /\ e.got = a
        /\ e.pull = ~OneIn(e.out, 0)
    BY <1>2, <2>4, <2>5, StretchKeeps
  <2> QED
    BY <1>3, <2>3 DEF Written, ToSend
<1>4. CASE ~(w.mode = "address" /\ a = Own + 1)
  <2>1. Drive(d) = {[d EXCEPT !.mode = "receive", !.n = 0, !.pull = FALSE]}
    BY <1>1, <1>4 DEF Drive, Receiving
  <2>7. [d EXCEPT !.mode = "receive", !.n = 0, !.pull = FALSE] \in Devices
    BY <1>0, Placed, NewPlace, Zenon
  <2>3. x \in Devices
    BY <2>1, <2>7
  <2>4. /\ x.mode = "receive" /\ x.n = 0 /\ x.in = 0 /\ x.got = a /\ x.out = w.offer /\ ~x.pull
    BY <1>0, <1>1, <2>1 DEF Devices
  <2>2. /\ e.mode = "receive" /\ e.n = 0 /\ e.in = 0 /\ e.got = a /\ e.out = w.offer /\ ~e.pull
    BY <1>2, <2>3, <2>4, StretchKeeps
  <2> QED
    BY <1>4, <2>2 DEF Written, ToReceive
<1> QED
  BY <1>3, <1>4

LEMMA SendingUp ==
  ASSUME NEW d, NEW w, NEW k \in 0 .. 7, NEW s, DevType(d), Sending(d, w, k, FALSE)
  PROVE  Sending(Sample(d, s), w, k + 1, TRUE)
<1>0. d \in Devices
  BY DEF DevType
<1>1. d.mode = "send" /\ d.n = k /\ d.in = 0 /\ Kept(d, w) /\ d.pull = ~OneIn(d.out, k)
  BY DEF Sending
<1>2. Sample(d, s) = [d EXCEPT !.n = k + 1]
  BY <1>1 DEF Sample, Receiving
<1>3. /\ Sample(d, s).mode = "send" /\ Sample(d, s).n = k + 1 /\ Sample(d, s).in = 0
      /\ Sample(d, s).got = d.got /\ Sample(d, s).out = d.out /\ Sample(d, s).pull = d.pull
  BY <1>0, <1>1, <1>2 DEF Devices
<1>4. k + 1 < 9 /\ (k + 1) - 1 = k
  OBVIOUS
<1> QED
  BY <1>1, <1>3, <1>4 DEF Sending, Kept

LEMMA SendingDown ==
  ASSUME NEW d, NEW w, NEW k \in 1 .. 8, DevType(d), Sending(d, w, k, TRUE),
         NEW e \in MayStretch(Drive(d))
  PROVE  Sending(e, w, k, FALSE)
<1>0. d \in Devices
  BY DEF DevType
<1>1. d.mode = "send" /\ d.n = k /\ d.in = 0 /\ Kept(d, w)
  BY DEF Sending
<1>2. Drive(d) = {[d EXCEPT !.pull = k < 8 /\ ~OneIn(d.out, k)]}
  <2>1. CASE k = 8
    <3>1. Drive(d) = {[d EXCEPT !.pull = FALSE]}
      BY <1>1, <2>1 DEF Drive, Receiving
    <3>2. (k < 8 /\ ~OneIn(d.out, k)) = FALSE
      BY <2>1
    <3> QED
      BY <3>1, <3>2
  <2>2. CASE k \in 1 .. 7
    <3>1. Drive(d) = {[d EXCEPT !.pull = ~OneIn(d.out, k)]} /\ k < 8
      BY <1>1, <2>2 DEF Drive, Receiving
    <3>2. (k < 8 /\ ~OneIn(d.out, k)) = ~OneIn(d.out, k)
      BY <3>1
    <3> QED
      BY <3>1, <3>2
  <2> QED
    BY <2>1, <2>2
<1>3. PICK x \in Drive(d) : e = x \/ e = [x EXCEPT !.stretch = TRUE]
  BY Stretches
<1>7. [d EXCEPT !.pull = k < 8 /\ ~OneIn(d.out, k)] \in Devices
  BY <1>0, NewField
<1>5. x \in Devices
  BY <1>2, <1>7
<1>6. /\ x.mode = d.mode /\ x.n = d.n /\ x.in = d.in /\ x.got = d.got /\ x.out = d.out
      /\ x.pull = (k < 8 /\ ~OneIn(d.out, k))
  BY <1>0, <1>2 DEF Devices
<1>4. /\ e.mode = d.mode /\ e.n = d.n /\ e.in = d.in /\ e.got = d.got /\ e.out = d.out
      /\ e.pull = (k < 8 /\ ~OneIn(d.out, k))
  BY <1>3, <1>5, <1>6, StretchKeeps
<1> QED
  BY <1>1, <1>4 DEF Sending, Kept

LEMMA SendingAck ==
  ASSUME NEW d, NEW w, NEW a \in 0 .. 255, NEW s \in BOOLEAN, DevType(d),
         Sending(d, w, 8, FALSE), s <=> a >= 128, w.attached
  PROVE  Acked(Sample(d, s), w, a)
<1>1. d.mode = "send" /\ d.n = 8 /\ d.in = 0 /\ Kept(d, w) /\ d.pull = FALSE
  BY DEF Sending, DevType, Devices
<1>2. Sample(d, s) = IF s THEN [d EXCEPT !.mode = "idle", !.n = 0] ELSE [d EXCEPT !.n = 9]
  BY <1>1 DEF Sample, Receiving
<1> QED
  BY <1>1, <1>2 DEF Acked, Sending, Kept, Deaf, DevType, Devices

LEMMA SendingDone ==
  ASSUME NEW d, NEW w, NEW a \in 0 .. 255, DevType(d), Acked(d, w, a), w.attached,
         NEW e \in MayStretch(Drive(d))
  PROVE  Read(e, w, a)
<1>0. d \in Devices
  BY DEF DevType
<1>1. PICK x \in Drive(d) : e = x \/ (e = [x EXCEPT !.stretch = TRUE] /\ x.mode # "idle")
  BY Stretches
<1>2. CASE a < 128
  <2>1. d.mode = "send" /\ d.n = 9 /\ d.in = 0 /\ Kept(d, w)
    BY <1>2 DEF Acked, Sending
  <2>2. Drive(d) = NextByte(d)
    BY <2>1 DEF Drive, Receiving
  <2>3. PICK b \in Bytes : x = [d EXCEPT !.mode = "send", !.n = 0, !.out = b, !.pull = ~OneIn(b, 0)]
    BY <1>1, <2>2 DEF NextByte
  <2>7. [d EXCEPT !.mode = "send", !.n = 0, !.out = b, !.pull = ~OneIn(b, 0)] \in Devices
    BY <1>0, Placed, NewOffer, Zenon
  <2>5. x \in Devices
    BY <2>3, <2>7
  <2>6. /\ x.mode = "send" /\ x.n = 0 /\ x.in = 0 /\ x.got = d.got /\ x.pull = ~OneIn(x.out, 0)
    BY <1>0, <2>1, <2>3 DEF Devices
  <2>4. /\ e.mode = "send" /\ e.n = 0 /\ e.in = 0 /\ e.got = d.got /\ e.pull = ~OneIn(e.out, 0)
    BY <1>1, <2>5, <2>6, StretchKeeps
  <2> QED
    BY <1>2, <2>1, <2>4 DEF Read, ToSend, Kept
<1>3. CASE ~(a < 128)
  <2>1. Deaf(d, w)
    BY <1>3 DEF Acked
  <2>2. Drive(d) = {d}
    BY <2>1 DEF Drive, Receiving, Deaf
  <2>3. e = d
    BY <1>1, <2>1, <2>2 DEF Deaf
  <2> QED
    BY <1>3, <2>1, <2>3 DEF Read
<1> QED
  BY <1>2, <1>3

LEMMA DeafUp ==
  ASSUME NEW d, NEW w, NEW s, Deaf(d, w)
  PROVE  Sample(d, s) = d
BY DEF Sample, Receiving, Deaf

LEMMA DeafDown ==
  ASSUME NEW d, NEW w, Deaf(d, w), NEW e \in MayStretch(Drive(d))
  PROVE  e = d
<1>1. PICK x \in Drive(d) : e = x \/ (e = [x EXCEPT !.stretch = TRUE] /\ x.mode # "idle")
  BY Stretches
<1>2. Drive(d) = {d} /\ d.mode = "idle"
  BY DEF Drive, Receiving, Deaf
<1> QED
  BY <1>1, <1>2

LEMMA EndedUp ==
  ASSUME NEW d, NEW w, DevType(d), Ended(d, w, 0)
  PROVE  Ended(Sample(d, FALSE), w, 1)
<1>1. CASE w.attached /\ w.mode = "receive"
  BY <1>1 DEF Ended, Sample, Receiving, Kept, DevType, Devices
<1>2. CASE ~(w.attached /\ w.mode = "receive")
  BY <1>2, DeafUp DEF Ended
<1> QED
  BY <1>1, <1>2

LEMMA TwoTo ==
  ASSUME NEW n \in 0 .. 6
  PROVE  2 ^ n \in Int /\ 2 ^ (n + 1) = 2 * 2 ^ n /\ 2 ^ (n + 1) <= 128
<1>1. n = 0 \/ n = 1 \/ n = 2 \/ n = 3 \/ n = 4 \/ n = 5 \/ n = 6
  OBVIOUS
<1>2. CASE n = 0 BY <1>2
<1>3. CASE n = 1 BY <1>3
<1>4. CASE n = 2 BY <1>4
<1>5. CASE n = 3 BY <1>5
<1>6. CASE n = 4 BY <1>6
<1>7. CASE n = 5 BY <1>7
<1>8. CASE n = 6 BY <1>8
<1> QED
  BY <1>1, <1>2, <1>3, <1>4, <1>5, <1>6, <1>7, <1>8

LEMMA Positive ==
  ASSUME NEW n \in 0 .. 9
  PROVE  0 < 2 ^ n
<1>0. CASE n = 0 BY <1>0
<1>1. CASE n = 1 BY <1>1
<1>2. CASE n = 2 BY <1>2
<1>3. CASE n = 3 BY <1>3
<1>4. CASE n = 4 BY <1>4
<1>5. CASE n = 5 BY <1>5
<1>6. CASE n = 6 BY <1>6
<1>7. CASE n = 7 BY <1>7
<1>8. CASE n = 8 BY <1>8
<1>9. CASE n = 9 BY <1>9
<1> QED
  BY <1>0, <1>1, <1>2, <1>3, <1>4, <1>5, <1>6, <1>7, <1>8, <1>9

\* What DevType says of a controller known field by field.
LEMMA FieldsType ==
  ASSUME NEW e \in Devices, e.in < 2 ^ e.n, e.n >= 8 \/ e.mode \in {"idle", "send"} => e.in = 0,
         e.mode = "address" /\ e.n = 0 => ~e.pull, e.mode = "idle" => e.n = 0 /\ ~e.stretch
  PROVE  DevType(e)
BY DEF DevType

\* With no bit in, that is less.
LEMMA EmptyType ==
  ASSUME NEW e \in Devices, e.in = 0, e.mode = "address" /\ e.n = 0 => ~e.pull,
         e.mode = "idle" => e.n = 0 /\ ~e.stretch
  PROVE  DevType(e)
<1>1. e.n \in 0 .. 9
  BY DEF Devices
<1>2. 0 < 2 ^ e.n
  BY <1>1, Positive
<1> QED
  BY <1>2, FieldsType

LEMMA DeviceFields ==
  ASSUME NEW d, DevType(d)
  PROVE  /\ d \in Devices /\ d.mode \in Modes /\ d.n \in 0 .. 9 /\ d.in \in 0 .. 127
         /\ d.got \in 0 .. 255 /\ d.out \in Bytes /\ d.pull \in BOOLEAN /\ d.stretch \in BOOLEAN
         /\ d.in < 2 ^ d.n
         /\ d.n >= 8 \/ d.mode \in {"idle", "send"} => d.in = 0
         /\ d.mode = "address" /\ d.n = 0 => ~d.pull
         /\ d.mode = "idle" => d.n = 0 /\ ~d.stretch
<1>1. d \in Devices
  BY DEF DevType
<1>2. /\ d.mode \in Modes /\ d.n \in 0 .. 9 /\ d.in \in 0 .. 127
      /\ d.got \in 0 .. 255 /\ d.out \in Bytes /\ d.pull \in BOOLEAN /\ d.stretch \in BOOLEAN
  BY <1>1 DEF Devices
<1> QED
  BY <1>1, <1>2 DEF DevType

LEMMA SampleType ==
  ASSUME NEW d, NEW s \in BOOLEAN, DevType(d), ~d.stretch, d.n # 9
  PROVE  DevType(Sample(d, s))
<1> DEFINE e == Sample(d, s)
<1>0. d \in Devices /\ d.n \in 0 .. 8
  BY DeviceFields
<1>1. CASE d.mode = "idle"
  <2>1. e = d
    BY <1>1 DEF Sample, Receiving
  <2> QED
    BY <2>1
<1>2. CASE d.mode = "send" /\ d.n = 8 /\ s
  <2>1. e = [d EXCEPT !.mode = "idle", !.n = 0]
    BY <1>2 DEF Sample, Receiving
  <2>2. [d EXCEPT !.mode = "idle", !.n = 0] \in Devices
    BY <1>0, NewMode, Placed, Zenon
  <2>3. d.in = 0
    BY <1>2, DeviceFields
  <2>4. e.mode = "idle" /\ e.n = 0 /\ e.in = d.in /\ e.stretch = d.stretch
    BY <1>0, <2>1 DEF Devices
  <2>5. e \in Devices
    BY <2>1, <2>2
  <2> HIDE DEF e
  <2>10. DevType(e)
    BY <2>3, <2>4, <2>5, EmptyType
  <2> QED
    BY <2>10 DEF e
<1>3. CASE Receiving(d) /\ d.n < 7
  <2> DEFINE v == 2 * d.in + IF s THEN 1 ELSE 0
  <2>1. e = [d EXCEPT !.n = d.n + 1, !.in = v]
    BY <1>0, <1>3 DEF Sample, Receiving
  <2>2. d.n \in 0 .. 6 /\ d.in \in 0 .. 127 /\ d.in < 2 ^ d.n
    BY <1>0, <1>3, DeviceFields
  <2>7. 2 ^ d.n \in Int /\ 2 ^ (d.n + 1) = 2 * 2 ^ d.n /\ 2 ^ (d.n + 1) <= 128
    BY <2>2, TwoTo
  <2>3. v < 2 ^ (d.n + 1) /\ v \in 0 .. 127
    BY <2>2, <2>7
  <2> HIDE DEF v
  <2>4. d.n + 1 \in 0 .. 9
    BY <2>2
  <2>8. [d EXCEPT !.n = d.n + 1, !.in = v] \in Devices
    BY <1>0, <2>3, <2>4, NewBit
  <2>5. e \in Devices
    BY <2>1, <2>8
  <2>6. e.mode = d.mode /\ e.n = d.n + 1 /\ e.in = v
    BY <1>0, <2>1 DEF Devices
  <2> QED
    BY <1>3, <2>2, <2>3, <2>5, <2>6, FieldsType DEF Receiving
<1>4. CASE Receiving(d) /\ d.n = 7
  <2> DEFINE v == 2 * d.in + IF s THEN 1 ELSE 0
  <2>1. e = [d EXCEPT !.n = 8, !.in = 0, !.got = v]
    BY <1>0, <1>4 DEF Sample, Receiving
  <2>2. v \in 0 .. 255
    BY DeviceFields
  <2> HIDE DEF v
  <2>5. [d EXCEPT !.n = 8, !.in = 0, !.got = v] \in Devices
    BY <1>0, <2>2, Placed, NewByte, Zenon
  <2>3. e \in Devices
    BY <2>1, <2>5
  <2>4. e.mode = d.mode /\ e.n = 8 /\ e.in = 0
    BY <1>0, <2>1 DEF Devices
  <2>6. d.mode # "idle"
    BY <1>4 DEF Receiving
  <2> HIDE DEF e
  <2>10. DevType(e)
    BY <2>3, <2>4, <2>6, EmptyType
  <2> QED
    BY <2>10 DEF e
<1>5. CASE (d.mode = "send" /\ ~(d.n = 8 /\ s)) \/ (Receiving(d) /\ d.n = 8)
  <2>1. e = [d EXCEPT !.n = d.n + 1]
    BY <1>0, <1>5 DEF Sample, Receiving
  <2>2. d.n + 1 \in 0 .. 9 /\ d.n + 1 # 0
    BY <1>0
  <2>3. e \in Devices
    BY <1>0, <2>1, <2>2, NewField
  <2>4. e.mode = d.mode /\ e.n = d.n + 1 /\ e.in = d.in
    BY <1>0, <2>1 DEF Devices
  <2>5. d.mode # "idle" /\ d.in = 0 /\ (Receiving(d) => e.n = 9)
    BY <1>5, <2>4, DeviceFields DEF Receiving
  <2> HIDE DEF e
  <2>10. DevType(e)
    BY <2>2, <2>3, <2>4, <2>5, EmptyType
  <2> QED
    BY <2>10 DEF e
<1>6. d.mode = "idle" \/ d.mode = "send" \/ Receiving(d)
  BY DeviceFields DEF Receiving, Modes
<1> QED
  BY <1>0, <1>1, <1>2, <1>3, <1>4, <1>5, <1>6

LEMMA DriveType ==
  ASSUME NEW d, DevType(d), ~d.stretch, NEW e \in MayStretch(Drive(d))
  PROVE  DevType(e) /\ e.n # 9
<1>0. d \in Devices
  BY DeviceFields
<1>1. PICK x \in Drive(d) : e = x \/ (e = [x EXCEPT !.stretch = TRUE] /\ x.mode # "idle")
  BY Stretches
<1>2. DevType(x) /\ x.n # 9
  <2>1. CASE d.mode = "idle" \/ d.n = 0
    <3>1. x = d
      BY <1>1, <2>1 DEF Drive, Receiving
    <3> QED
      BY <2>1, <3>1, DeviceFields
  <2>2. CASE d.mode = "send" /\ d.n \in 1 .. 7
    <3>1. x = [d EXCEPT !.pull = ~OneIn(d.out, d.n)]
      BY <1>1, <2>2 DEF Drive, Receiving
    <3>2. x \in Devices
      BY <1>0, <3>1, NewField, Placed
    <3>3. x.mode = d.mode /\ x.n = d.n /\ x.in = d.in
      BY <1>0, <3>1 DEF Devices
    <3> QED
      BY <2>2, <3>2, <3>3, DeviceFields, FieldsType
  <2>3. CASE d.mode = "send" /\ d.n = 8
    <3>1. x = [d EXCEPT !.pull = FALSE]
      BY <1>1, <2>3 DEF Drive, Receiving
    <3>2. x \in Devices
      BY <1>0, <3>1, NewField, Placed
    <3>3. x.mode = d.mode /\ x.n = d.n /\ x.in = d.in
      BY <1>0, <3>1 DEF Devices
    <3> QED
      BY <2>3, <3>2, <3>3, DeviceFields, FieldsType
  <2>4. CASE Receiving(d) /\ d.n \in 1 .. 7
    <3>1. x = d
      BY <1>1, <2>4 DEF Drive, Receiving
    <3> QED
      BY <2>4, <3>1
  <2>5. CASE Receiving(d) /\ d.n = 8 /\ (d.mode = "receive" \/ d.got \in {Own, Own + 1})
    <3>1. x = [d EXCEPT !.pull = TRUE]
      BY <1>1, <2>5 DEF Drive, Receiving
    <3>2. x \in Devices
      BY <1>0, <3>1, NewField, Placed
    <3>3. x.mode = d.mode /\ x.n = d.n /\ x.in = d.in
      BY <1>0, <3>1 DEF Devices
    <3> QED
      BY <2>5, <3>2, <3>3, DeviceFields, FieldsType DEF Receiving
  <2>6. CASE Receiving(d) /\ d.n = 8 /\ ~(d.mode = "receive" \/ d.got \in {Own, Own + 1})
    <3>1. x = [d EXCEPT !.mode = "idle", !.n = 0]
      BY <1>1, <2>6 DEF Drive, Receiving
    <3>2. x \in Devices
      <4>1. [d EXCEPT !.mode = "idle", !.n = 0] \in Devices
        BY <1>0, Placed, NewMode, Zenon
      <4> QED
        BY <3>1, <4>1
    <3>3. x.mode = "idle" /\ x.n = 0 /\ x.in = d.in /\ x.stretch = d.stretch
      BY <1>0, <3>1 DEF Devices
    <3> QED
      BY <2>6, <3>2, <3>3, DeviceFields, EmptyType
  <2>7. CASE d.n = 9 /\ (d.mode = "send" \/ (d.mode = "address" /\ d.got = Own + 1))
    <3>1. Drive(d) = NextByte(d)
      BY <2>7 DEF Drive, Receiving
    <3>2. PICK b \in Bytes : x = [d EXCEPT !.mode = "send", !.n = 0, !.out = b,
            !.pull = ~OneIn(b, 0)]
      BY <1>1, <3>1 DEF NextByte
    <3>3. x \in Devices
      <4>1. (~OneIn(b, 0)) \in BOOLEAN
        OBVIOUS
      <4>2. [d EXCEPT !.mode = "send", !.n = 0, !.out = b, !.pull = ~OneIn(b, 0)] \in Devices
        BY <1>0, Placed, NewOffer, Zenon
      <4> QED
        BY <3>2, <4>2
    <3>4. x.mode = "send" /\ x.n = 0 /\ x.in = d.in
      BY <1>0, <3>2 DEF Devices
    <3> QED
      BY <2>7, <3>3, <3>4, DeviceFields, EmptyType
  <2>8. CASE d.n = 9 /\ Receiving(d) /\ ~(d.mode = "address" /\ d.got = Own + 1)
    <3>1. x = [d EXCEPT !.mode = "receive", !.n = 0, !.pull = FALSE]
      BY <1>1, <2>8 DEF Drive, Receiving
    <3>2. x \in Devices
      <4>1. [d EXCEPT !.mode = "receive", !.n = 0, !.pull = FALSE] \in Devices
        BY <1>0, Placed, NewPlace, Zenon
      <4> QED
        BY <3>1, <4>1
    <3>3. x.mode = "receive" /\ x.n = 0 /\ x.in = d.in
      BY <1>0, <3>1 DEF Devices
    <3> QED
      BY <2>8, <3>2, <3>3, DeviceFields, EmptyType
  <2>9. d.mode \in Modes /\ d.n \in 0 .. 9
    BY DeviceFields
  <2> QED
    BY <2>1, <2>2, <2>3, <2>4, <2>5, <2>6, <2>7, <2>8, <2>9 DEF Modes, Receiving
<1>3. CASE e = x
  BY <1>2, <1>3
<1>4. CASE e = [x EXCEPT !.stretch = TRUE] /\ x.mode # "idle"
  <2>1. x \in Devices
    BY <1>2, DeviceFields
  <2>2. e \in Devices
    BY <1>4, <2>1, NewField, Placed
  <2>3. e.mode = x.mode /\ e.n = x.n /\ e.in = x.in /\ e.pull = x.pull
    BY <1>4, <2>1 DEF Devices
  <2> QED
    BY <1>2, <1>4, <2>2, <2>3, DeviceFields, FieldsType
<1> QED
  BY <1>1, <1>3, <1>4

LEMMA SampleStretch ==
  ASSUME NEW d, NEW s \in BOOLEAN, DevType(d)
  PROVE  Sample(d, s).stretch = d.stretch
<1>0. d \in Devices
  BY DeviceFields
<1>1. d.mode = "idle" \/ d.mode = "send" \/ Receiving(d)
  BY DeviceFields DEF Receiving, Modes
<1>2. CASE d.mode = "idle"
  BY <1>2 DEF Sample, Receiving
<1>3. CASE d.mode = "send" /\ d.n = 8 /\ s
  <2>1. Sample(d, s) = [d EXCEPT !.mode = "idle", !.n = 0]
    BY <1>3 DEF Sample, Receiving
  <2> QED
    BY <1>0, <2>1 DEF Devices
<1>4. CASE d.mode = "send" /\ ~(d.n = 8 /\ s)
  <2>1. Sample(d, s) = [d EXCEPT !.n = d.n + 1]
    BY <1>4 DEF Sample, Receiving
  <2> QED
    BY <1>0, <2>1 DEF Devices
<1>5. CASE Receiving(d) /\ d.n < 8
  <2>1. \E v : \/ Sample(d, s) = [d EXCEPT !.n = d.n + 1, !.in = v]
               \/ Sample(d, s) = [d EXCEPT !.n = 8, !.in = 0, !.got = v]
    <3> DEFINE v == 2 * d.in + IF s THEN 1 ELSE 0
    <3>1. \/ Sample(d, s) = [d EXCEPT !.n = d.n + 1, !.in = v]
          \/ Sample(d, s) = [d EXCEPT !.n = 8, !.in = 0, !.got = v]
      BY <1>5 DEF Sample, Receiving
    <3> QED
      BY <3>1
  <2> QED
    BY <1>0, <2>1 DEF Devices
<1>6. CASE Receiving(d) /\ ~(d.n < 8)
  <2>1. Sample(d, s) = [d EXCEPT !.n = d.n + 1]
    BY <1>6 DEF Sample, Receiving
  <2> QED
    BY <1>0, <2>1 DEF Devices
<1> QED
  BY <1>1, <1>2, <1>3, <1>4, <1>5, <1>6

\* A start or a stop.
LEMMA BeginType ==
  ASSUME NEW d, DevType(d), ~d.stretch, NEW m \in {"idle", "address"}, NEW e,
         e = [d EXCEPT !.mode = m, !.n = 0, !.in = 0, !.pull = FALSE]
  PROVE  DevType(e) /\ e.n = 0 /\ e.mode = m /\ ~e.pull /\ ~e.stretch
<1>0. d \in Devices
  BY DeviceFields
<1>1. m \in Modes
  BY DEF Modes
<1>2. [d EXCEPT !.mode = m, !.n = 0, !.in = 0, !.pull = FALSE] \in Devices
  BY <1>0, <1>1, Placed, NewBegin, Zenon
<1>3. e \in Devices
  BY <1>2
<1>4. e.mode = m /\ e.n = 0 /\ e.in = 0 /\ e.pull = FALSE /\ e.stretch = d.stretch
  BY <1>0 DEF Devices
<1> QED
  BY <1>3, <1>4, EmptyType

Settled == LineTypes /\ lib \in {"usi", "bitbang"} /\ attached \in BOOLEAN
Loose(d) == d = dev \/ (d = [dev EXCEPT !.stretch = FALSE] /\ dev.stretch)
Registers(scl, p, o, r) == scl \in BOOLEAN /\ p \in BOOLEAN /\ o \in BOOLEAN /\ r \in 0 .. 255

LEMMA LinesType ==
  ASSUME Settled, NEW scl, NEW p, NEW o, NEW r, NEW d, Registers(scl, p, o, r), Loose(d),
         Lines(scl, p, o, r, d), UNCHANGED <<lib, attached>>
  PROVE  Settled'
<1> SUFFICES ASSUME LineTypes, lib \in {"usi", "bitbang"}, attached \in BOOLEAN,
                    scl \in BOOLEAN, p \in BOOLEAN, o \in BOOLEAN, r \in 0 .. 255,
                    lib' = lib, attached' = attached
             PROVE  LineTypes'
  BY DEF Settled, Registers
<1>0. /\ DevType(d) /\ (d.n = 9 => Scl) /\ (d.stretch => dev.stretch)
      /\ (~attached => d.mode = "idle" /\ ~d.pull) /\ d.stretch \in BOOLEAN
  <2>1. CASE d = dev
    BY <2>1, DeviceFields DEF LineTypes
  <2>2. CASE d = [dev EXCEPT !.stretch = FALSE] /\ dev.stretch
    <3>1. dev \in Devices
      BY DeviceFields DEF LineTypes
    <3>2. d \in Devices
      BY <2>2, <3>1, NewField, Placed
    <3>3. /\ d.mode = dev.mode /\ d.n = dev.n /\ d.in = dev.in /\ d.pull = dev.pull
          /\ d.stretch = FALSE
      BY <2>2, <3>1 DEF Devices
    <3>4. DevType(d)
      BY <3>2, <3>3, DeviceFields, FieldsType DEF LineTypes
    <3> QED
      BY <3>3, <3>4 DEF LineTypes
  <2> QED
    BY <2>1, <2>2 DEF Loose
<1>1. sclOut' \in BOOLEAN /\ port' \in BOOLEAN /\ ddr' \in BOOLEAN /\ (sclOut' <=> scl)
  <2>1. sclOut' = scl
    BY LinesReact, Zenon
  <2>2. port' = p
    BY LinesReact, Zenon
  <2>3. ddr' = o
    BY LinesReact, Zenon
  <2> QED
    BY <2>1, <2>2, <2>3
<1>2. latch' \in BOOLEAN
  <2>1. latch' = IF lib = "usi" THEN IF scl /\ ~d.stretch THEN latch ELSE reg' >= 128 ELSE TRUE
    BY LinesReact, Zenon
  <2>2. CASE lib = "usi" /\ scl /\ ~d.stretch
    <3>1. latch' = latch
      BY <2>1, <2>2, Zenon
    <3> QED
      BY <3>1 DEF LineTypes
  <2>3. CASE lib = "usi" /\ ~(scl /\ ~d.stretch)
    <3>1. latch' = (reg' >= 128)
      BY <2>1, <2>3, Zenon
    <3> QED
      BY <3>1
  <2>4. CASE lib # "usi"
    <3>1. latch' = TRUE
      BY <2>1, <2>4, Zenon
    <3> QED
      BY <3>1
  <2> QED
    BY <2>2, <2>3, <2>4
<1>3. reg' \in 0 .. 255
  <2>1. reg' = r \/ reg' = (2 * r + (IF Sda THEN 1 ELSE 0)) % 256
    BY DEF Lines
  <2> QED
    BY <2>1
<1>4. lib = "bitbang" => latch'
  <2>1. latch' = IF lib = "usi" THEN IF scl /\ ~d.stretch THEN latch ELSE reg' >= 128 ELSE TRUE
    BY LinesReact, Zenon
  <2> QED
    BY <2>1, Zenon
<1>5. CASE ~Scl /\ (~scl \/ d.stretch)
  <2>1. reg' = r /\ dev' = d /\ (latch' <=> (lib = "usi" => r >= 128))
    BY <1>5, LinesLow
  <2>2. ~Scl'
    BY <1>1, <1>5, <2>1 DEF Scl
  <2> QED
    BY <1>0, <1>1, <1>2, <1>3, <1>4, <1>5, <2>1, <2>2 DEF LineTypes
<1>6. CASE ~Scl /\ scl /\ ~d.stretch
  <2> DEFINE s == SdaFor(o, p, latch, d)
  <2>1. dev' = IF attached THEN Sample(d, s) ELSE d
    BY <1>6, LinesRise DEF LineTypes
  <2>2. s \in BOOLEAN /\ d.n # 9
    BY <1>0, <1>6 DEF SdaFor
  <2> HIDE DEF s
  <2>3. DevType(dev') /\ dev'.stretch = d.stretch
    BY <1>0, <1>6, <2>1, <2>2, SampleType, SampleStretch
  <2>4. Scl'
    BY <1>1, <1>6, <2>3 DEF Scl
  <2>5. ~attached => dev'.mode = "idle" /\ ~dev'.pull
    BY <1>0, <2>1
  <2> QED
    BY <1>1, <1>2, <1>3, <1>4, <2>3, <2>4, <2>5 DEF LineTypes
<1>7. CASE Scl /\ (~scl \/ d.stretch)
  <2>1. ~d.stretch /\ ~scl
    BY <1>0, <1>7 DEF Scl
  <2>2. /\ reg' = r /\ (latch' <=> (lib = "usi" => r >= 128))
        /\ (attached => dev' \in MayStretch(Drive(d))) /\ (~attached => dev' = d)
    BY <1>7, <2>1, LinesFall
  <2>3. ~Scl'
    BY <1>1, <2>1 DEF Scl
  <2>4. DevType(dev') /\ dev'.n # 9
    <3>1. CASE attached
      BY <1>0, <2>1, <2>2, <3>1, DriveType
    <3>2. CASE ~attached
      BY <1>0, <2>2, <3>2, DeviceFields
    <3> QED
      BY <3>1, <3>2
  <2>5. ~attached => dev'.mode = "idle" /\ ~dev'.pull
    BY <1>0, <2>2
  <2> QED
    BY <1>1, <1>2, <1>3, <1>4, <2>2, <2>3, <2>4, <2>5 DEF LineTypes
<1>8. CASE Scl /\ scl /\ ~d.stretch
  <2>1. dev' = d \/ (attached /\ \E m \in {"idle", "address"} :
                       dev' = [d EXCEPT !.mode = m, !.n = 0, !.in = 0, !.pull = FALSE])
    <3>0. lib = "bitbang" => latch
      BY DEF LineTypes
    <3> QED
      BY <1>8, <3>0, LinesHigh, Zenon
  <2>2. DevType(dev') /\ ~dev'.stretch
    BY <1>0, <1>8, <2>1, BeginType
  <2>3. Scl'
    BY <1>1, <1>8, <2>2 DEF Scl
  <2>4. ~attached => dev'.mode = "idle" /\ ~dev'.pull
    BY <1>0, <2>1
  <2> QED
    BY <1>1, <1>2, <1>3, <1>4, <2>2, <2>3, <2>4 DEF LineTypes
<1> QED
  BY <1>5, <1>6, <1>7, <1>8

-----------------------------------------------------------------------------
(* Types *)

LEMMA StepsLen ==
  ASSUME NEW l \in {"usi", "bitbang"}, NEW op \in {"init", "start", "stop", "write", "read"}
  PROVE  Len(Code[l][op]) \in Nat
<1>1. CASE l = "usi"
  <2>1. CASE op = "init"
    BY <1>1, <2>1, TheSteps, ShortSteps
  <2>2. CASE op = "start"
    BY <1>1, <2>2, TheSteps, ShortSteps
  <2>3. CASE op = "stop"
    BY <1>1, <2>3, TheSteps, ShortSteps
  <2>4. CASE op = "write"
    <3>1. Code[l][op] = UsiWriteByte
      BY <1>1, <2>4, TheSteps
    <3>2. Len(UsiWriteByte) = 34
      BY UsiWriteSteps
    <3> QED
      BY <3>1, <3>2
  <2>5. CASE op = "read"
    <3>1. Code[l][op] = UsiReadByte
      BY <1>1, <2>5, TheSteps
    <3>2. Len(UsiReadByte) = 34
      BY UsiReadSteps
    <3> QED
      BY <3>1, <3>2
  <2> QED
    BY <2>1, <2>2, <2>3, <2>4, <2>5
<1>2. CASE l = "bitbang"
  <2>1. CASE op = "init"
    BY <1>2, <2>1, TheSteps
  <2>2. CASE op = "start"
    BY <1>2, <2>2, TheSteps, ShortSteps
  <2>3. CASE op = "stop"
    BY <1>2, <2>3, TheSteps, ShortSteps
  <2>4. CASE op = "write"
    <3>1. Code[l][op] = BitWriteByte
      BY <1>2, <2>4, TheSteps
    <3>2. Len(BitWriteByte) = 40
      BY BitWriteSteps
    <3> QED
      BY <3>1, <3>2
  <2>5. CASE op = "read"
    <3>1. Code[l][op] = BitReadByte
      BY <1>2, <2>5, TheSteps
    <3>2. Len(BitReadByte) = 46
      BY BitReadSteps
    <3> QED
      BY <3>1, <3>2
  <2> QED
    BY <2>1, <2>2, <2>3, <2>4, <2>5
<1> QED
  BY <1>1, <1>2

LEMMA CallIs ==
  ASSUME TypeInv
  PROVE  /\ ThisCall \in CallType /\ ThisCall.op \in {"init", "start", "stop", "write", "read"}
         /\ ThisCall.arg \in 0 .. 255 /\ Len(Steps) \in Nat /\ ip \in 1 .. Len(Steps) + 1
<1>1. job \in Jobs /\ at \in 1 .. Len(Calls[job]) /\ lib \in {"usi", "bitbang"}
      /\ ip \in 1 .. Len(Steps) + 1
  BY DEF TypeInv
<1>2. ThisCall \in CallType
  BY <1>1, TheCalls DEF ThisCall
<1>3. ThisCall.op \in {"init", "start", "stop", "write", "read"} /\ ThisCall.arg \in 0 .. 255
  BY <1>2 DEF CallType
<1>4. Len(Steps) \in Nat
  BY <1>1, <1>3, StepsLen DEF Steps
<1> QED
  BY <1>1, <1>2, <1>3, <1>4

\* Whatever a step does to the lines, they keep their types.
LEMMA StepTypes ==
  ASSUME TypeInv, Library, ip <= Len(Steps)
  PROVE  /\ LineTypes' /\ data' \in 0 .. 255
         /\ ip' = ip + 1 /\ UNCHANGED <<lib, job, at, connected, attached, faults, was, missed>>
<1>0. /\ sclOut \in BOOLEAN /\ port \in BOOLEAN /\ ddr \in BOOLEAN /\ reg \in 0 .. 255
      /\ data \in 0 .. 255
      /\ LineTypes /\ lib \in {"usi", "bitbang"} /\ attached \in BOOLEAN
  BY DEF TypeInv, LineTypes
<1>a. ThisCall.arg \in 0 .. 255 /\ (ThisCall.arg # 0) \in BOOLEAN
  BY CallIs
<1>b. /\ (2 * reg) % 256 \in 0 .. 255 /\ (2 * reg + (IF Sda THEN 1 ELSE 0)) % 256 \in 0 .. 255
      /\ (reg >= 128) \in BOOLEAN /\ 255 \in 0 .. 255 /\ 0 \in 0 .. 255
      /\ TRUE \in BOOLEAN /\ FALSE \in BOOLEAN
  BY <1>0
<1>e. ip \in Nat /\ Len(Steps) \in Nat
  BY CallIs
<1>f. ip' = ip + 1 /\ UNCHANGED <<lib, job, at, connected, attached, faults, was, missed>>
  BY <1>e, StepEffect, Zenon
<1>m. Settled
  BY <1>0 DEF Settled
<1>n. Loose(dev)
  BY DEF Loose
<1>l. UNCHANGED <<lib, attached>>
  BY <1>f
<1>c. ASSUME NEW scl, NEW p, NEW o, NEW r, Registers(scl, p, o, r), Lines(scl, p, o, r, dev)
      PROVE  Settled'
  BY <1>c, <1>l, <1>m, <1>n, LinesType, Zenon
<1>1. CASE SdaHigh
  <2>1. Lines(sclOut, TRUE, ddr, reg, dev)
    BY <1>1, Zenon DEF SdaHigh, Do
  <2>2. data' = data
    BY <1>1 DEF SdaHigh, Same
  <2>3. Registers(sclOut, TRUE, ddr, reg)
    BY <1>0, <1>a, <1>b, Zenon DEF Registers
  <2>4. Settled'
    BY <1>c, <2>1, <2>3, Zenon
  <2> QED
    BY <1>0, <1>f, <2>2, <2>4 DEF Settled
<1>2. CASE SdaLow
  <2>1. Lines(sclOut, FALSE, ddr, reg, dev)
    BY <1>2, Zenon DEF SdaLow, Do
  <2>2. data' = data
    BY <1>2 DEF SdaLow, Same
  <2>3. Registers(sclOut, FALSE, ddr, reg)
    BY <1>0, <1>a, <1>b, Zenon DEF Registers
  <2>4. Settled'
    BY <1>c, <2>1, <2>3, Zenon
  <2> QED
    BY <1>0, <1>f, <2>2, <2>4 DEF Settled
<1>3. CASE SclHigh
  <2>1. Lines(TRUE, port, ddr, reg, dev)
    BY <1>3, Zenon DEF SclHigh, Do
  <2>2. data' = data
    BY <1>3 DEF SclHigh, Same
  <2>3. Registers(TRUE, port, ddr, reg)
    BY <1>0, <1>a, <1>b, Zenon DEF Registers
  <2>4. Settled'
    BY <1>c, <2>1, <2>3, Zenon
  <2> QED
    BY <1>0, <1>f, <2>2, <2>4 DEF Settled
<1>4. CASE SclLow
  <2>1. Lines(FALSE, port, ddr, reg, dev)
    BY <1>4, Zenon DEF SclLow, Do
  <2>2. data' = data
    BY <1>4 DEF SclLow, Same
  <2>3. Registers(FALSE, port, ddr, reg)
    BY <1>0, <1>a, <1>b, Zenon DEF Registers
  <2>4. Settled'
    BY <1>c, <2>1, <2>3, Zenon
  <2> QED
    BY <1>0, <1>f, <2>2, <2>4 DEF Settled
<1>5. CASE AwaitScl
  <2>1. Lines(sclOut, port, ddr, reg, dev)
    BY <1>5, Zenon DEF AwaitScl, Do
  <2>2. data' = data
    BY <1>5 DEF AwaitScl, Same
  <2>3. Registers(sclOut, port, ddr, reg)
    BY <1>0, <1>a, <1>b, Zenon DEF Registers
  <2>4. Settled'
    BY <1>c, <2>1, <2>3, Zenon
  <2> QED
    BY <1>0, <1>f, <2>2, <2>4 DEF Settled
<1>6. CASE SdaInput
  <2>1. Lines(sclOut, port, FALSE, reg, dev)
    BY <1>6, Zenon DEF SdaInput, Do
  <2>2. data' = data
    BY <1>6 DEF SdaInput, Same
  <2>3. Registers(sclOut, port, FALSE, reg)
    BY <1>0, <1>a, <1>b, Zenon DEF Registers
  <2>4. Settled'
    BY <1>c, <2>1, <2>3, Zenon
  <2> QED
    BY <1>0, <1>f, <2>2, <2>4 DEF Settled
<1>7. CASE SdaOutput
  <2>1. Lines(sclOut, port, TRUE, reg, dev)
    BY <1>7, Zenon DEF SdaOutput, Do
  <2>2. data' = data
    BY <1>7 DEF SdaOutput, Same
  <2>3. Registers(sclOut, port, TRUE, reg)
    BY <1>0, <1>a, <1>b, Zenon DEF Registers
  <2>4. Settled'
    BY <1>c, <2>1, <2>3, Zenon
  <2> QED
    BY <1>0, <1>f, <2>2, <2>4 DEF Settled
<1>8. CASE Enable
  <2>1. Lines(sclOut, port, ddr, 255, dev)
    BY <1>8 DEF Enable, Do
  <2>2. data' = data
    BY <1>8 DEF Enable, Same
  <2>3. Registers(sclOut, port, ddr, 255)
    BY <1>0, <1>a, <1>b, Zenon DEF Registers
  <2>4. Settled'
    BY <1>c, <2>1, <2>3, Zenon
  <2> QED
    BY <1>0, <1>f, <2>2, <2>4 DEF Settled
<1>9. CASE Load
  <2>1. Lines(sclOut, port, ddr, ThisCall.arg, dev)
    BY <1>9 DEF Load, Do
  <2>2. data' = data
    BY <1>9 DEF Load, Same
  <2>3. Registers(sclOut, port, ddr, ThisCall.arg)
    BY <1>0, <1>a, <1>b, Zenon DEF Registers
  <2>4. Settled'
    BY <1>c, <2>1, <2>3, Zenon
  <2> QED
    BY <1>0, <1>f, <2>2, <2>4 DEF Settled
<1>10. CASE Take
  <2>1. Lines(sclOut, port, ddr, 255, dev)
    BY <1>10 DEF Take, Do
  <2>2. data' = reg
    BY <1>10 DEF Take, Same
  <2>3. Registers(sclOut, port, ddr, 255)
    BY <1>0, <1>a, <1>b, Zenon DEF Registers
  <2>4. Settled'
    BY <1>c, <2>1, <2>3, Zenon
  <2> QED
    BY <1>0, <1>f, <2>2, <2>4 DEF Settled
<1>11. CASE Drop
  <2>1. Lines(sclOut, port, ddr, 255, dev)
    BY <1>11 DEF Drop, Do
  <2>2. data' = data
    BY <1>11 DEF Drop, Same
  <2>3. Registers(sclOut, port, ddr, 255)
    BY <1>0, <1>a, <1>b, Zenon DEF Registers
  <2>4. Settled'
    BY <1>c, <2>1, <2>3, Zenon
  <2> QED
    BY <1>0, <1>f, <2>2, <2>4 DEF Settled
<1>12. CASE Clear
  <2>1. Lines(sclOut, port, ddr, 0, dev)
    BY <1>12 DEF Clear, Do
  <2>2. data' = data
    BY <1>12 DEF Clear, Same
  <2>3. Registers(sclOut, port, ddr, 0)
    BY <1>0, <1>a, <1>b, Zenon DEF Registers
  <2>4. Settled'
    BY <1>c, <2>1, <2>3, Zenon
  <2> QED
    BY <1>0, <1>f, <2>2, <2>4 DEF Settled
<1>13. CASE NextBit
  <2>1. Lines(sclOut, reg >= 128, ddr, (2 * reg) % 256, dev)
    BY <1>13 DEF NextBit, Do
  <2>2. data' = data
    BY <1>13 DEF NextBit, Same
  <2>3. Registers(sclOut, reg >= 128, ddr, (2 * reg) % 256)
    BY <1>0, <1>a, <1>b, Zenon DEF Registers
  <2>4. Settled'
    BY <1>c, <2>1, <2>3, Zenon
  <2> QED
    BY <1>0, <1>f, <2>2, <2>4 DEF Settled
<1>14. CASE Nack
  <2>1. Lines(sclOut, ThisCall.arg # 0, ddr, reg, dev)
    BY <1>14, Zenon DEF Nack, Do
  <2>2. data' = data
    BY <1>14 DEF Nack, Same
  <2>3. Registers(sclOut, ThisCall.arg # 0, ddr, reg)
    BY <1>0, <1>a, <1>b, Zenon DEF Registers
  <2>4. Settled'
    BY <1>c, <2>1, <2>3, Zenon
  <2> QED
    BY <1>0, <1>f, <2>2, <2>4 DEF Settled
<1>15. CASE SampleBit
  <2>1. Lines(sclOut, port, ddr, (2 * reg + (IF Sda THEN 1 ELSE 0)) % 256, dev)
    BY <1>15 DEF SampleBit, Do
  <2>2. data' = data
    BY <1>15 DEF SampleBit, Same
  <2>3. Registers(sclOut, port, ddr, (2 * reg + (IF Sda THEN 1 ELSE 0)) % 256)
    BY <1>0, <1>a, <1>b, Zenon DEF Registers
  <2>4. Settled'
    BY <1>c, <2>1, <2>3, Zenon
  <2> QED
    BY <1>0, <1>f, <2>2, <2>4 DEF Settled
<1>16. ~Return
  BY <1>e DEF Return
<1> QED
  BY <1>1, <1>2, <1>3, <1>4, <1>5, <1>6, <1>7, <1>8, <1>9, <1>10, <1>11, <1>12, <1>13, <1>14,
     <1>15, <1>16 DEF Library

-----------------------------------------------------------------------------
(* Where the steps are *)

\* A place among the eight repetitions of three, four or five steps.
LEMMA Places ==
  ASSUME NEW k \in Nat
  PROVE  /\ k \in 3 .. 26 => \E i \in 0 .. 7 : k = 3 + 3 * i \/ k = 4 + 3 * i \/ k = 5 + 3 * i
         /\ k \in 2 .. 33 => \E i \in 0 .. 7 : k = 2 + 4 * i \/ k = 3 + 4 * i \/ k = 4 + 4 * i
                                               \/ k = 5 + 4 * i
         /\ k \in 2 .. 41 => \E i \in 0 .. 7 : k = 2 + 5 * i \/ k = 3 + 5 * i \/ k = 4 + 5 * i
                                               \/ k = 5 + 5 * i \/ k = 6 + 5 * i
<1>1. ASSUME k \in 3 .. 26
      PROVE  \E i \in 0 .. 7 : k = 3 + 3 * i \/ k = 4 + 3 * i \/ k = 5 + 3 * i
  <2>1. (k - 3) \div 3 \in 0 .. 7
    BY <1>1
  <2> QED
    BY <1>1, <2>1
<1>2. ASSUME k \in 2 .. 33
      PROVE  \E i \in 0 .. 7 : k = 2 + 4 * i \/ k = 3 + 4 * i \/ k = 4 + 4 * i \/ k = 5 + 4 * i
  <2>1. (k - 2) \div 4 \in 0 .. 7
    BY <1>2
  <2> QED
    BY <1>2, <2>1
<1>3. ASSUME k \in 2 .. 41
      PROVE  \E i \in 0 .. 7 : k = 2 + 5 * i \/ k = 3 + 5 * i \/ k = 4 + 5 * i
                               \/ k = 5 + 5 * i \/ k = 6 + 5 * i
  <2>1. (k - 2) \div 5 \in 0 .. 7
    BY <1>3
  <2> QED
    BY <1>3, <2>1
<1> QED
  BY <1>1, <1>2, <1>3

\* What turns SDA around.

LEMMA UsiWriteTurns ==
  ASSUME NEW k \in 1 .. 34
  PROVE  (UsiWriteByte[k] = "in" <=> k = 28) /\ (UsiWriteByte[k] = "out" <=> k = 34)
<1>1. CASE k \in 3 .. 26
  <2>1. PICK i \in 0 .. 7 : k = 3 + 3 * i \/ k = 4 + 3 * i \/ k = 5 + 3 * i
    BY <1>1, Places
  <2>2. /\ UsiWriteByte[3 + 3 * i] = "scl1" /\ UsiWriteByte[4 + 3 * i] = "await"
        /\ UsiWriteByte[5 + 3 * i] = "scl0"
    BY UsiWriteSteps, Zenon
  <2> QED
    BY <1>1, <2>1, <2>2
<1>2. CASE ~(k \in 3 .. 26)
  <2>1. \/ k = 1 \/ k = 2 \/ k = 27 \/ k = 28 \/ k = 29 \/ k = 30
        \/ k = 31 \/ k = 32 \/ k = 33 \/ k = 34
    BY <1>2
  <2> QED
    BY <2>1, UsiWriteSteps
<1> QED
  BY <1>1, <1>2

LEMMA UsiReadTurns ==
  ASSUME NEW k \in 1 .. 34
  PROVE  (UsiReadByte[k] = "in" <=> k = 1) /\ (UsiReadByte[k] = "out" <=> k = 28)
<1>1. CASE k \in 3 .. 26
  <2>1. PICK i \in 0 .. 7 : k = 3 + 3 * i \/ k = 4 + 3 * i \/ k = 5 + 3 * i
    BY <1>1, Places
  <2>2. /\ UsiReadByte[3 + 3 * i] = "scl1" /\ UsiReadByte[4 + 3 * i] = "await"
        /\ UsiReadByte[5 + 3 * i] = "scl0"
    BY UsiReadSteps, Zenon
  <2> QED
    BY <1>1, <2>1, <2>2
<1>2. CASE ~(k \in 3 .. 26)
  <2>1. \/ k = 1 \/ k = 2 \/ k = 27 \/ k = 28 \/ k = 29 \/ k = 30
        \/ k = 31 \/ k = 32 \/ k = 33 \/ k = 34
    BY <1>2
  <2> QED
    BY <2>1, UsiReadSteps
<1> QED
  BY <1>1, <1>2

LEMMA BitWriteTurns ==
  ASSUME NEW k \in 1 .. 40
  PROVE  BitWriteByte[k] # "in" /\ BitWriteByte[k] # "out"
<1>1. CASE k \in 2 .. 33
  <2>1. PICK i \in 0 .. 7 : k = 2 + 4 * i \/ k = 3 + 4 * i \/ k = 4 + 4 * i \/ k = 5 + 4 * i
    BY <1>1, Places
  <2>2. /\ BitWriteByte[2 + 4 * i] = "msb" /\ BitWriteByte[3 + 4 * i] = "scl1"
        /\ BitWriteByte[4 + 4 * i] = "await"
        /\ BitWriteByte[5 + 4 * i] = "scl0"
    BY BitWriteSteps, Zenon
  <2> QED
    BY <1>1, <2>1, <2>2
<1>2. CASE ~(k \in 2 .. 33)
  <2>1. k = 1 \/ k = 34 \/ k = 35 \/ k = 36 \/ k = 37 \/ k = 38 \/ k = 39 \/ k = 40
    BY <1>2
  <2> QED
    BY <2>1, BitWriteSteps
<1> QED
  BY <1>1, <1>2

LEMMA BitReadTurns ==
  ASSUME NEW k \in 1 .. 46
  PROVE  BitReadByte[k] # "in" /\ BitReadByte[k] # "out"
<1>1. CASE k \in 2 .. 41
  <2>1. PICK i \in 0 .. 7 : \/ k = 2 + 5 * i \/ k = 3 + 5 * i \/ k = 4 + 5 * i
                           \/ k = 5 + 5 * i \/ k = 6 + 5 * i
    BY <1>1, Places
  <2>2. /\ BitReadByte[2 + 5 * i] = "sda1" /\ BitReadByte[3 + 5 * i] = "scl1"
        /\ BitReadByte[4 + 5 * i] = "await"
        /\ BitReadByte[5 + 5 * i] = "sample" /\ BitReadByte[6 + 5 * i] = "scl0"
    BY BitReadSteps, Zenon
  <2> QED
    BY <1>1, <2>1, <2>2
<1>2. CASE ~(k \in 2 .. 41)
  <2>1. k = 1 \/ k = 42 \/ k = 43 \/ k = 44 \/ k = 45 \/ k = 46
    BY <1>2
  <2> QED
    BY <2>1, BitReadSteps
<1> QED
  BY <1>1, <1>2

-----------------------------------------------------------------------------
(* TypeInv and DriverInv *)

LEMMA PoweredType ==
  /\ DevType(Powered) /\ Powered.mode = "idle" /\ Powered.n = 0 /\ Powered.in = 0
  /\ ~Powered.pull /\ ~Powered.stretch /\ Powered.got = 0 /\ Powered.out \in Bytes
<1>1. (CHOOSE b \in Bytes : TRUE) \in Bytes
  BY BytesAssumption
<1>2. Powered \in Devices
  BY <1>1 DEF Powered, Devices, Modes
<1>3. /\ Powered.mode = "idle" /\ Powered.n = 0 /\ Powered.in = 0 /\ ~Powered.pull
      /\ ~Powered.stretch /\ Powered.got = 0 /\ Powered.out \in Bytes
  BY <1>1 DEF Powered
<1> QED
  BY <1>2, <1>3, EmptyType

LEMMA InitInv == Init => I2cInv
<1> SUFFICES ASSUME Init
             PROVE  I2cInv
  OBVIOUS
<1>1. /\ lib \in {"usi", "bitbang"} /\ job = "init" /\ at = 1 /\ ip = 1 /\ data = 0
      /\ ddr = (lib = "bitbang") /\ port = (lib = "bitbang") /\ reg = 255 /\ latch = TRUE
      /\ sclOut = TRUE /\ dev = Powered /\ attached \in BOOLEAN
  BY LibrariesAssumption DEF Init
<1>2. was = [call |-> Op("init"), ret |-> 0, mode |-> "idle", got |-> 0, offer |-> dev.out,
             attached |-> attached, sync |-> FALSE]
  BY DEF Init
<1>3. Calls["init"] = <<Op("init")>>
  BY DEF Calls
<1>4. at \in 1 .. Len(Calls[job]) /\ ThisCall = Op("init") /\ Op("init") \in CallType
  BY <1>1, <1>3 DEF ThisCall, Op, CallType
<1>5. ThisCall.op = "init"
  BY <1>4 DEF Op
<1>6. Len(Steps) \in Nat
  BY <1>1, <1>5, StepsLen DEF Steps
<1>7. dev.out \in Bytes
  BY <1>1, PoweredType
<1>8. was \in WasType /\ was.attached = attached
  BY <1>1, <1>2, <1>4, <1>7 DEF WasType, Modes
<1>9. LineTypes
  BY <1>1, PoweredType DEF LineTypes
<1>10. TypeInv
  BY <1>1, <1>4, <1>6, <1>8, <1>9 DEF TypeInv, Jobs
<1>11. DriverInv
  BY <1>1, <1>5 DEF DriverInv, InputAt
<1>12. SyncInv
  BY <1>2 DEF SyncInv
<1> QED
  BY <1>10, <1>11, <1>12 DEF I2cInv

LEMMA StepTypeInv ==
  ASSUME TypeInv, Library, ip <= Len(Steps)
  PROVE  TypeInv'
<1>1. /\ LineTypes' /\ data' \in 0 .. 255
      /\ ip' = ip + 1 /\ UNCHANGED <<lib, job, at, connected, attached, faults, was, missed>>
  BY StepTypes, Zenon
<1>2. Steps' = Steps
  BY <1>1 DEF Steps, ThisCall
<1>3. ip \in 1 .. Len(Steps) + 1 /\ Len(Steps) \in Nat
  BY CallIs
<1>4. ip' \in 1 .. Len(Steps') + 1
  BY <1>1, <1>2, <1>3
<1> QED
  BY <1>1, <1>4 DEF TypeInv

\* The steps that change the direction of SDA, or SCL.
LEMMA StepSets ==
  ASSUME Library, ip <= Len(Steps), ip \in Nat, Len(Steps) \in Nat
  PROVE  /\ Steps[ip] = "in" => ~ddr'
         /\ Steps[ip] = "out" => ddr'
         /\ Steps[ip] # "in" /\ Steps[ip] # "out" => ddr' = ddr
         /\ Steps[ip] = "scl0" => ~sclOut'
         /\ Steps[ip] = "sda1" => sclOut' = sclOut /\ port'
<1> USE DEF Do
<1>1. CASE SdaHigh
  <2>1. Steps[ip] = "sda1"
    BY <1>1 DEF SdaHigh
  <2>2. Lines(sclOut, TRUE, ddr, reg, dev)
    BY <1>1, Zenon DEF SdaHigh
  <2>3. sclOut' = sclOut /\ port' = TRUE /\ ddr' = ddr
    BY <2>2, LinesSet, Zenon
  <2> QED
    BY <2>1, <2>3
<1>2. CASE SdaLow
  <2>1. Steps[ip] = "sda0"
    BY <1>2 DEF SdaLow
  <2>2. Lines(sclOut, FALSE, ddr, reg, dev)
    BY <1>2, Zenon DEF SdaLow
  <2>3. ddr' = ddr
    BY <2>2, LinesSet, Zenon
  <2> QED
    BY <2>1, <2>3
<1>3. CASE SclHigh
  <2>1. Steps[ip] = "scl1"
    BY <1>3 DEF SclHigh
  <2>2. Lines(TRUE, port, ddr, reg, dev)
    BY <1>3, Zenon DEF SclHigh
  <2>3. ddr' = ddr
    BY <2>2, LinesSet, Zenon
  <2> QED
    BY <2>1, <2>3
<1>4. CASE SclLow
  <2>1. Steps[ip] = "scl0"
    BY <1>4 DEF SclLow
  <2>2. Lines(FALSE, port, ddr, reg, dev)
    BY <1>4, Zenon DEF SclLow
  <2>3. sclOut' = FALSE /\ ddr' = ddr
    BY <2>2, LinesSet, Zenon
  <2> QED
    BY <2>1, <2>3
<1>5. CASE AwaitScl
  <2>1. Steps[ip] = "await"
    BY <1>5 DEF AwaitScl
  <2>2. Lines(sclOut, port, ddr, reg, dev)
    BY <1>5 DEF AwaitScl
  <2>3. ddr' = ddr
    BY <2>2, LinesSet, Zenon
  <2> QED
    BY <2>1, <2>3
<1>6. CASE SdaInput
  <2>1. Steps[ip] = "in"
    BY <1>6 DEF SdaInput
  <2>2. Lines(sclOut, port, FALSE, reg, dev)
    BY <1>6, Zenon DEF SdaInput
  <2>3. ddr' = FALSE
    BY <2>2, LinesSet, Zenon
  <2> QED
    BY <2>1, <2>3
<1>7. CASE SdaOutput
  <2>1. Steps[ip] = "out"
    BY <1>7 DEF SdaOutput
  <2>2. Lines(sclOut, port, TRUE, reg, dev)
    BY <1>7, Zenon DEF SdaOutput
  <2>3. ddr' = TRUE
    BY <2>2, LinesSet, Zenon
  <2> QED
    BY <2>1, <2>3
<1>8. CASE Enable
  <2>1. Steps[ip] = "enable"
    BY <1>8 DEF Enable
  <2>2. Lines(sclOut, port, ddr, 255, dev)
    BY <1>8 DEF Enable
  <2>3. ddr' = ddr
    BY <2>2, LinesSet, Zenon
  <2> QED
    BY <2>1, <2>3
<1>9. CASE Load
  <2>1. Steps[ip] = "load"
    BY <1>9 DEF Load
  <2>2. Lines(sclOut, port, ddr, ThisCall.arg, dev)
    BY <1>9 DEF Load
  <2>3. ddr' = ddr
    BY <2>2, LinesSet, Zenon
  <2> QED
    BY <2>1, <2>3
<1>10. CASE Take
  <2>1. Steps[ip] = "take"
    BY <1>10 DEF Take
  <2>2. Lines(sclOut, port, ddr, 255, dev)
    BY <1>10 DEF Take
  <2>3. ddr' = ddr
    BY <2>2, LinesSet, Zenon
  <2> QED
    BY <2>1, <2>3
<1>11. CASE Drop
  <2>1. Steps[ip] = "drop"
    BY <1>11 DEF Drop
  <2>2. Lines(sclOut, port, ddr, 255, dev)
    BY <1>11 DEF Drop
  <2>3. ddr' = ddr
    BY <2>2, LinesSet, Zenon
  <2> QED
    BY <2>1, <2>3
<1>12. CASE Clear
  <2>1. Steps[ip] = "clear"
    BY <1>12 DEF Clear
  <2>2. Lines(sclOut, port, ddr, 0, dev)
    BY <1>12 DEF Clear
  <2>3. ddr' = ddr
    BY <2>2, LinesSet, Zenon
  <2> QED
    BY <2>1, <2>3
<1>13. CASE NextBit
  <2>1. Steps[ip] = "msb"
    BY <1>13 DEF NextBit
  <2>2. Lines(sclOut, reg >= 128, ddr, (2 * reg) % 256, dev)
    BY <1>13 DEF NextBit
  <2>3. ddr' = ddr
    BY <2>2, LinesSet, Zenon
  <2> QED
    BY <2>1, <2>3
<1>14. CASE Nack
  <2>1. Steps[ip] = "nack"
    BY <1>14 DEF Nack
  <2>2. Lines(sclOut, ThisCall.arg # 0, ddr, reg, dev)
    BY <1>14 DEF Nack
  <2>3. ddr' = ddr
    BY <2>2, LinesSet, Zenon
  <2> QED
    BY <2>1, <2>3
<1>15. CASE SampleBit
  <2>1. Steps[ip] = "sample"
    BY <1>15 DEF SampleBit
  <2>2. Lines(sclOut, port, ddr, (2 * reg + (IF Sda THEN 1 ELSE 0)) % 256, dev)
    BY <1>15 DEF SampleBit
  <2>3. ddr' = ddr
    BY <2>2, LinesSet, Zenon
  <2> QED
    BY <2>1, <2>3
<1>16. ~Return
  BY DEF Return
<1> QED
  BY <1>1, <1>2, <1>3, <1>4, <1>5, <1>6, <1>7, <1>8, <1>9, <1>10, <1>11, <1>12, <1>13, <1>14,
     <1>15, <1>16 DEF Library

LEMMA StepDriverInv ==
  ASSUME TypeInv, DriverInv, Library, ip <= Len(Steps)
  PROVE  DriverInv'
<1>1. ip \in 1 .. Len(Steps) + 1 /\ Len(Steps) \in Nat /\ ip \in Nat
  BY CallIs
<1>2. ip' = ip + 1 /\ UNCHANGED <<lib, job, at, connected, attached, faults, was, missed>>
  BY <1>1, StepEffect, Zenon
<1>3. ThisCall' = ThisCall /\ lib' = lib /\ ThisCall.op' = ThisCall.op
  BY <1>2 DEF ThisCall
<1>4. /\ Steps[ip] = "in" => ~ddr'
      /\ Steps[ip] = "out" => ddr'
      /\ Steps[ip] # "in" /\ Steps[ip] # "out" => ddr' = ddr
      /\ Steps[ip] = "scl0" => ~sclOut'
      /\ Steps[ip] = "sda1" => sclOut' = sclOut /\ port'
  BY <1>1, StepSets
<1>5. Steps = Code[lib][ThisCall.op]
  BY DEF Steps
<1>6. /\ lib \in {"usi", "bitbang"}
      /\ ThisCall.op \in {"init", "start", "stop", "write", "read"}
  BY CallIs DEF TypeInv
<1>7. CASE ThisCall.op = "init"
  <2>1. CASE lib = "usi"
    <3>1. Steps = UsiInit
      BY <1>5, <1>7, <2>1, TheSteps
    <3>2. ip \in 1 .. 5 /\ (Steps[ip] = "out" <=> ip = 1) /\ Steps[ip] # "in"
      BY <1>1, <3>1, ShortSteps
    <3> QED
      BY <1>2, <1>3, <1>4, <1>7, <2>1, <3>2 DEF DriverInv, InputAt
  <2>2. CASE lib = "bitbang"
    <3>1. Steps = <<>>
      BY <1>5, <1>7, <2>2, TheSteps
    <3> QED
      BY <1>1, <3>1
  <2> QED
    BY <1>6, <2>1, <2>2
<1>8. CASE ThisCall.op = "start"
  <2>1. Steps = UsiStart \/ Steps = BitStart
    BY <1>5, <1>6, <1>8, TheSteps
  <2>2. /\ ip \in 1 .. 5 /\ Steps[ip] # "out" /\ Steps[ip] # "in"
        /\ ip = 4 => Steps[ip] = "scl0"
        /\ ip = 5 => Steps[ip] = "sda1"
    <3>1. CASE Steps = UsiStart
      BY <1>1, <3>1, ShortSteps
    <3>2. CASE Steps = BitStart
      BY <1>1, <3>2, ShortSteps
    <3> QED
      BY <2>1, <3>1, <3>2
  <2>3. InputAt("start") = {}
    BY DEF InputAt
  <2>4. ddr /\ (ip > 4 => ~sclOut)
    BY <1>8, <2>3 DEF DriverInv
  <2>6. ddr'
    BY <1>4, <2>2, <2>4
  <2>7. ip' > 4 => ip = 4 \/ ip = 5
    BY <1>2, <2>2
  <2>8. ip' = 6 => ip = 5
    BY <1>2, <2>2
  <2>9. ip = 5 => ~sclOut' /\ port'
    BY <1>4, <2>2, <2>4
  <2>10. ip = 4 => ~sclOut'
    BY <1>4, <2>2
  <2>5. ddr' /\ (ip' > 4 => ~sclOut') /\ (ip' = 6 => port')
    BY <2>6, <2>7, <2>8, <2>9, <2>10
  <2> QED
    BY <1>3, <1>8, <2>3, <2>4, <2>5 DEF DriverInv
<1>9. CASE ThisCall.op = "stop"
  <2>1. Steps = UsiStop \/ Steps = BitStop
    BY <1>5, <1>6, <1>9, TheSteps
  <2>2. Steps[ip] # "out" /\ Steps[ip] # "in"
    BY <1>1, <2>1, ShortSteps
  <2>3. InputAt("stop") = {}
    BY DEF InputAt
  <2>4. ddr
    BY <1>9, <2>3 DEF DriverInv
  <2>5. ddr'
    BY <1>1, <1>2, <1>4, <2>2, <2>4
  <2> QED
    BY <1>3, <1>9, <2>3, <2>4, <2>5 DEF DriverInv
<1>10. CASE ThisCall.op = "write" /\ lib = "usi"
  <2>1. Steps = UsiWriteByte /\ Len(UsiWriteByte) = 34
    BY <1>5, <1>10, TheSteps, UsiWriteSteps
  <2>2. ip \in 1 .. 34 /\ (Steps[ip] = "in" <=> ip = 28) /\ (Steps[ip] = "out" <=> ip = 34)
    BY <1>1, <2>1, UsiWriteTurns
  <2>3. InputAt("write") = 29 .. 34
    BY DEF InputAt
  <2>4. ddr <=> ~(ip \in 29 .. 34)
    BY <1>10, <2>3 DEF DriverInv
  <2>5. ddr' <=> ~(ip' \in 29 .. 34)
    BY <1>2, <1>4, <2>2, <2>4
  <2> QED
    BY <1>3, <1>10, <2>3, <2>4, <2>5 DEF DriverInv
<1>11. CASE ThisCall.op = "read" /\ lib = "usi"
  <2>1. Steps = UsiReadByte /\ Len(UsiReadByte) = 34
    BY <1>5, <1>11, TheSteps, UsiReadSteps
  <2>2. ip \in 1 .. 34 /\ (Steps[ip] = "in" <=> ip = 1) /\ (Steps[ip] = "out" <=> ip = 28)
    BY <1>1, <2>1, UsiReadTurns
  <2>3. InputAt("read") = 2 .. 28
    BY DEF InputAt
  <2>4. ddr <=> ~(ip \in 2 .. 28)
    BY <1>11, <2>3 DEF DriverInv
  <2>5. ddr' <=> ~(ip' \in 2 .. 28)
    BY <1>2, <1>4, <2>2, <2>4
  <2> QED
    BY <1>3, <1>11, <2>3, <2>4, <2>5 DEF DriverInv
<1>12. CASE ThisCall.op = "write" /\ lib = "bitbang"
  <2>1. Steps = BitWriteByte /\ Len(BitWriteByte) = 40
    BY <1>5, <1>12, TheSteps, BitWriteSteps
  <2>2. Steps[ip] # "out" /\ Steps[ip] # "in"
    BY <1>1, <2>1, BitWriteTurns
  <2>4. ddr
    BY <1>12 DEF DriverInv
  <2>5. ddr'
    BY <1>4, <2>2, <2>4
  <2> QED
    BY <1>3, <1>12, <2>4, <2>5 DEF DriverInv
<1>13. CASE ThisCall.op = "read" /\ lib = "bitbang"
  <2>1. Steps = BitReadByte /\ Len(BitReadByte) = 46
    BY <1>5, <1>13, TheSteps, BitReadSteps
  <2>2. Steps[ip] # "out" /\ Steps[ip] # "in"
    BY <1>1, <2>1, BitReadTurns
  <2>4. ddr
    BY <1>13 DEF DriverInv
  <2>5. ddr'
    BY <1>4, <2>2, <2>4
  <2> QED
    BY <1>3, <1>13, <2>4, <2>5 DEF DriverInv
<1> QED
  BY <1>6, <1>7, <1>8, <1>9, <1>10, <1>11, <1>12, <1>13

\* The call after this one.
LEMMA NextCall ==
  ASSUME TypeInv, Return
  PROVE  /\ job' \in {"connect", "select", "fetch"} /\ at' \in 1 .. Len(Calls[job'])
         /\ ip' = 1 /\ UNCHANGED <<lib, data, ddr, port, reg, latch, sclOut, dev, attached, faults>>
         /\ at < Len(Calls[job]) => job' = job /\ at' = at + 1
         /\ ~(at < Len(Calls[job])) => at' = 1
         /\ ThisCall' \in CallType /\ ThisCall'.op # "init"
         /\ ThisCall'.op = "start" <=> at' = 1
<1>1. job \in Jobs /\ at \in 1 .. Len(Calls[job])
  BY DEF TypeInv
<1>2. /\ at \in 1 .. 9 /\ Len(Calls[job]) \in 1 .. 9 /\ (job = "init" => Len(Calls[job]) = 1)
  BY <1>1, TheCalls
<1>3. ip' = 1 /\ UNCHANGED <<lib, data, ddr, port, reg, latch, sclOut, dev, attached, faults>>
  BY DEF Return
<1>a. at < Len(Calls[job]) => job' = job /\ at' = at + 1
  BY DEF Return
<1>b. ~(at < Len(Calls[job])) => at' = 1 /\ job' \in {"connect", "select", "fetch"}
  BY DEF Return
<1>4. Len(Calls["connect"]) = 5 /\ Len(Calls["select"]) = 4 /\ Len(Calls["fetch"]) = 9
  BY DEF Calls
<1>5. job' \in {"connect", "select", "fetch"} /\ at' \in 1 .. Len(Calls[job'])
  <2>1. CASE at < Len(Calls[job])
    <3>1. job' = job /\ at' = at + 1
      BY <1>a, <2>1
    <3>2. job # "init"
      <4>1. PICK n : n = Len(Calls[job])
        OBVIOUS
      <4>2. at < n /\ at \in 1 .. 9 /\ (job = "init" => n = 1)
        BY <1>2, <2>1, <4>1
      <4> QED
        BY <4>2
    <3>3. at + 1 \in 1 .. Len(Calls[job])
      BY <1>2, <2>1
    <3> QED
      BY <1>1, <3>1, <3>2, <3>3 DEF Jobs
  <2>2. CASE ~(at < Len(Calls[job]))
    <3>1. at' = 1 /\ job' \in {"connect", "select", "fetch"}
      BY <1>b, <2>2
    <3>2. Len(Calls[job']) \in {4, 5, 9}
      BY <1>4, <3>1
    <3>3. 1 \in 1 .. Len(Calls[job'])
      <4>1. \A n \in {4, 5, 9} : 1 \in 1 .. n
        OBVIOUS
      <4> QED
        BY <3>2, <4>1
    <3> QED
      BY <3>1, <3>3
  <2> QED
    BY <2>1, <2>2
<1>6. job' \in Jobs
  BY <1>5 DEF Jobs
<1>7. ThisCall' = Calls[job'][at']
  BY DEF ThisCall
<1>8. ThisCall' \in CallType /\ ThisCall'.op # "init" /\ (ThisCall'.op = "start" <=> at' = 1)
  BY <1>5, <1>6, <1>7, TheCalls
<1> QED
  BY <1>3, <1>a, <1>b, <1>5, <1>8

LEMMA OutcomeType ==
  ASSUME TypeInv
  PROVE  Outcome \in WasType /\ Outcome.attached = attached /\ Outcome.sync = TRUE
<1>1. ThisCall \in CallType
  BY CallIs
<1>2. data \in 0 .. 255 /\ was.ret \in 0 .. 255 /\ attached \in BOOLEAN
  BY DEF TypeInv, WasType
<1>3. (CASE ThisCall.op = "write" -> data % 2 [] ThisCall.op = "read" -> data
         [] OTHER -> was.ret) \in 0 .. 255
  BY <1>2
<1>4. dev.mode \in Modes /\ dev.got \in 0 .. 255 /\ dev.out \in Bytes
  BY DeviceFields DEF TypeInv, LineTypes
<1> QED
  BY <1>1, <1>2, <1>3, <1>4 DEF Outcome, WasType

LEMMA ReturnTypeInv ==
  ASSUME TypeInv, DriverInv, Return
  PROVE  TypeInv' /\ DriverInv'
<1>1. /\ job' \in {"connect", "select", "fetch"} /\ at' \in 1 .. Len(Calls[job'])
      /\ ip' = 1 /\ UNCHANGED <<lib, data, ddr, port, reg, latch, sclOut, dev, attached, faults>>
      /\ ThisCall' \in CallType /\ ThisCall'.op # "init"
  BY NextCall
<1>2. lib \in {"usi", "bitbang"} /\ attached \in BOOLEAN /\ data \in 0 .. 255
      /\ was \in WasType /\ was.attached = attached
  BY DEF TypeInv
<1>3. was' = Outcome \/ was' = was
  BY DEF Return
<1>4. was' \in WasType /\ was'.attached = attached
  BY <1>2, <1>3, OutcomeType
<1>5. LineTypes'
  BY <1>1 DEF TypeInv, LineTypes, Scl
<1>6. Steps' = Code[lib][ThisCall'.op]
      /\ ThisCall'.op \in {"init", "start", "stop", "write", "read"}
  BY <1>1 DEF Steps, CallType
<1>7. Len(Steps') \in Nat
  BY <1>2, <1>6, StepsLen
<1>8. ip' \in 1 .. Len(Steps') + 1
  BY <1>1, <1>7
<1>9. TypeInv'
  BY <1>1, <1>2, <1>4, <1>5, <1>8 DEF TypeInv, Jobs
<1>10. ddr
  <2>1. ip > Len(Steps) /\ ip \in 1 .. Len(Steps) + 1 /\ Len(Steps) \in Nat
    BY CallIs DEF Return
  <2>2. CASE lib = "bitbang"
    BY <2>2 DEF DriverInv
  <2>3. CASE lib = "usi" /\ ThisCall.op = "init"
    <3>1. Steps = UsiInit /\ Len(UsiInit) = 5
      BY <2>3, TheSteps, ShortSteps DEF Steps
    <3>2. ip # 1 /\ InputAt("init") = {1}
      BY <2>1, <3>1 DEF InputAt
    <3> QED
      BY <2>3, <3>2 DEF DriverInv
  <2>4. CASE lib = "usi" /\ ThisCall.op = "write"
    <3>1. Steps = UsiWriteByte /\ Len(UsiWriteByte) = 34
      BY <2>4, TheSteps, UsiWriteSteps DEF Steps
    <3>2. ip = 35 /\ InputAt("write") = 29 .. 34
      BY <2>1, <3>1 DEF InputAt
    <3> QED
      BY <2>4, <3>2 DEF DriverInv
  <2>5. CASE lib = "usi" /\ ThisCall.op = "read"
    <3>1. Steps = UsiReadByte /\ Len(UsiReadByte) = 34
      BY <2>5, TheSteps, UsiReadSteps DEF Steps
    <3>2. ip = 35 /\ InputAt("read") = 2 .. 28
      BY <2>1, <3>1 DEF InputAt
    <3> QED
      BY <2>5, <3>2 DEF DriverInv
  <2>6. CASE ThisCall.op = "start" \/ ThisCall.op = "stop"
    <3>1. InputAt("start") = {} /\ InputAt("stop") = {}
      BY DEF InputAt
    <3> QED
      BY <2>6, <3>1 DEF DriverInv
  <2> QED
    BY <1>2, <2>2, <2>3, <2>4, <2>5, <2>6, CallIs
<1>11. 1 \notin InputAt(ThisCall'.op)
  BY <1>1, <1>6 DEF InputAt
<1>12. DriverInv'
  BY <1>1, <1>10, <1>11 DEF DriverInv
<1> QED
  BY <1>9, <1>12

LEMMA ReleaseTypeInv ==
  ASSUME TypeInv, DriverInv, Release
  PROVE  TypeInv' /\ DriverInv'
<1>1. /\ Lines(sclOut, port, ddr, reg, [dev EXCEPT !.stretch = FALSE])
      /\ UNCHANGED <<lib, job, at, ip, connected, data, attached, faults, was, missed>>
      /\ dev.stretch
  BY DEF Release, driver
<1> DEFINE d == [dev EXCEPT !.stretch = FALSE]
<1>2. Loose(d) /\ Settled /\ Registers(sclOut, port, ddr, reg)
  BY <1>1 DEF Loose, TypeInv, LineTypes, Settled, Registers
<1>3. UNCHANGED <<lib, attached>>
  BY <1>1
<1>4. Lines(sclOut, port, ddr, reg, d)
  BY <1>1
<1> HIDE DEF d
<1>5. Settled'
  BY <1>2, <1>3, <1>4, LinesType, Zenon
<1>6. sclOut' = sclOut /\ port' = port /\ ddr' = ddr
  BY <1>4, LinesSet, Zenon
<1>7. ThisCall' = ThisCall /\ Steps' = Steps
  BY <1>1 DEF ThisCall, Steps
<1>8. TypeInv'
  BY <1>1, <1>5, <1>7 DEF TypeInv, Settled
<1>9. DriverInv'
  BY <1>1, <1>6, <1>7 DEF DriverInv
<1> QED
  BY <1>8, <1>9

LEMMA ResetTypeInv ==
  ASSUME TypeInv, DriverInv, Reset
  PROVE  TypeInv' /\ DriverInv'
<1>1. /\ job' = "init" /\ at' = 1 /\ ip' = 1 /\ data' = 0
      /\ was' = [was EXCEPT !.sync = FALSE] /\ UNCHANGED <<lib, attached>>
  BY DEF Reset
<1>2. Lines(TRUE, lib = "bitbang", lib = "bitbang", 255, dev)
  BY Zenon DEF Reset
<1>3. Loose(dev) /\ Settled
  BY DEF Loose, TypeInv, Settled
<1>4. Registers(TRUE, lib = "bitbang", lib = "bitbang", 255)
  <2>1. 255 \in 0 .. 255
    OBVIOUS
  <2>2. TRUE \in BOOLEAN /\ (lib = "bitbang") \in BOOLEAN
    OBVIOUS
  <2> QED
    BY <2>1, <2>2, Zenon DEF Registers
<1>5. Settled'
  BY <1>1, <1>2, <1>3, <1>4, LinesType, Zenon
<1>6. ddr' = (lib = "bitbang")
  BY <1>2, LinesSet, Zenon
<1>7. ThisCall' = Op("init")
  BY <1>1 DEF ThisCall, Calls
<1>8. ThisCall'.op = "init"
  BY <1>7 DEF Op
<1>9. at' \in 1 .. Len(Calls[job'])
  BY <1>1 DEF Calls
<1>10. Steps' = Code[lib]["init"] /\ lib \in {"usi", "bitbang"}
  BY <1>1, <1>8 DEF Steps, TypeInv
<1>11. Len(Steps') \in Nat
  BY <1>10, StepsLen
<1>12. was' \in WasType /\ was'.attached = attached'
  BY <1>1 DEF TypeInv, WasType
<1>13. TypeInv'
  BY <1>1, <1>5, <1>9, <1>11, <1>12 DEF TypeInv, Settled, Jobs
<1>14. DriverInv'
  BY <1>1, <1>6, <1>8, <1>10 DEF DriverInv, InputAt
<1> QED
  BY <1>13, <1>14

LEMMA PlugTypeInv ==
  ASSUME TypeInv, DriverInv, Plug
  PROVE  TypeInv' /\ DriverInv'
<1>1. /\ attached' = ~attached /\ dev' = Powered
      /\ was' = [was EXCEPT !.sync = FALSE, !.attached = attached']
      /\ UNCHANGED <<lib, job, at, ip, connected, data, ddr, port, reg, latch, sclOut>>
  BY DEF Plug, driver
<1>2. attached \in BOOLEAN /\ was \in WasType /\ LineTypes
  BY DEF TypeInv
<1>3. attached' \in BOOLEAN
  BY <1>1, <1>2, Zenon
<1>4. was' \in WasType /\ was'.attached = attached'
  <2>1. was' = [[was EXCEPT !.sync = FALSE] EXCEPT !.attached = attached']
    BY <1>1, <1>2 DEF WasType
  <2>2. [was EXCEPT !.sync = FALSE] \in WasType
    BY <1>2 DEF WasType
  <2> QED
    BY <1>3, <2>1, <2>2 DEF WasType
<1>5. ThisCall' = ThisCall /\ Steps' = Steps
  BY <1>1 DEF ThisCall, Steps
<1>7. lib = "usi" /\ ~Scl' => (latch <=> reg >= 128)
  BY <1>1, <1>2, PoweredType DEF Scl, LineTypes
<1>8. LineTypes'
  BY <1>1, <1>2, <1>7, PoweredType DEF LineTypes
<1>9. TypeInv'
  BY <1>1, <1>3, <1>4, <1>5, <1>8 DEF TypeInv
<1>10. DriverInv'
  BY <1>1, <1>5 DEF DriverInv
<1> QED
  BY <1>9, <1>10

-----------------------------------------------------------------------------
(* What the lines do at each kind of step *)

LEMMA LowStep ==
  ASSUME ~sclOut, NEW scl, scl = FALSE, NEW p, NEW o, NEW r, Lines(scl, p, o, r, dev)
  PROVE  ~sclOut' /\ port' = p /\ reg' = r /\ dev' = dev
<1>1. scl \in BOOLEAN /\ ~scl
  OBVIOUS
<1>2. ~Scl
  BY DEF Scl
<1>3. reg' = r /\ dev' = dev
  BY <1>1, <1>2, LinesLow
<1>4. sclOut' = scl /\ port' = p
  BY LinesSet, Zenon
<1> QED
  BY <1>3, <1>4

LEMMA DownStep ==
  ASSUME LineTypes, sclOut, ~dev.stretch, NEW scl, scl = FALSE, Lines(scl, port, ddr, reg, dev)
  PROVE  /\ ~sclOut' /\ port' = port /\ reg' = reg
         /\ attached => dev' \in MayStretch(Drive(dev))
         /\ ~attached => dev' = dev
<1>1. scl \in BOOLEAN /\ ~scl
  OBVIOUS
<1>2. Scl
  BY DEF Scl
<1>3. /\ reg' = reg /\ (attached => dev' \in MayStretch(Drive(dev)))
      /\ (~attached => dev' = dev)
  BY <1>1, <1>2, LinesFall
<1>4. sclOut' = scl /\ port' = port
  BY LinesSet, Zenon
<1> QED
  BY <1>3, <1>4

\* Everything but the stretch.
LEMMA LooseFields ==
  ASSUME LineTypes, NEW d, Loose(d)
  PROVE  /\ DevType(d) /\ d.mode = dev.mode /\ d.n = dev.n /\ d.in = dev.in /\ d.got = dev.got
         /\ d.out = dev.out /\ d.pull = dev.pull
<1>0. dev \in Devices /\ DevType(dev)
  BY DeviceFields DEF LineTypes
<1>1. CASE d = dev
  BY <1>0, <1>1
<1>2. CASE d = [dev EXCEPT !.stretch = FALSE]
  <2>1. d \in Devices
    BY <1>0, <1>2, NewField, Placed
  <2>2. /\ d.mode = dev.mode /\ d.n = dev.n /\ d.in = dev.in /\ d.got = dev.got
        /\ d.out = dev.out /\ d.pull = dev.pull /\ d.stretch = FALSE
    BY <1>0, <1>2 DEF Devices
  <2>3. DevType(d)
    BY <1>0, <2>1, <2>2, DeviceFields, FieldsType
  <2> QED
    BY <2>2, <2>3
<1> QED
  BY <1>1, <1>2 DEF Loose

\* SCL goes up unless the controller holds it.
LEMMA UpStep ==
  ASSUME Settled, ~Scl, NEW d, Loose(d), NEW scl, scl = TRUE, Lines(scl, port, ddr, reg, d)
  PROVE  /\ sclOut' /\ port' = port
         /\ \/ d.stretch /\ dev' = d /\ reg' = reg
            \/ /\ ~d.stretch /\ ~dev'.stretch
               /\ dev' = IF attached THEN Sample(d, Sda) ELSE d
               /\ reg' = IF lib = "usi" THEN (2 * reg + (IF Sda THEN 1 ELSE 0)) % 256 ELSE reg
               /\ latch' <=> latch
<1>1. scl \in BOOLEAN /\ scl
  OBVIOUS
<1>2. sclOut' = scl /\ port' = port
  BY LinesSet, Zenon
<1>3. DevType(d) /\ d.pull = dev.pull /\ d.stretch \in BOOLEAN
  BY LooseFields, DeviceFields DEF Settled
<1>4. CASE d.stretch
  BY <1>1, <1>2, <1>4, LinesLow
<1>5. CASE ~d.stretch
  <2> DEFINE s == SdaFor(ddr, port, latch, d)
  <2>1. lib \in {"usi", "bitbang"} /\ (lib = "bitbang" => latch)
    BY DEF Settled, LineTypes
  <2>2. /\ reg' = IF lib = "usi" THEN (2 * reg + (IF Sda THEN 1 ELSE 0)) % 256 ELSE reg
        /\ latch' <=> latch
        /\ dev' = IF attached THEN Sample(d, s) ELSE d
    BY <1>1, <1>5, <2>1, LinesRise
  <2>3. s <=> Sda
    BY <1>3 DEF SdaFor, Sda
  <2>4. s \in BOOLEAN /\ Sda \in BOOLEAN
    BY Levels DEF SdaFor
  <2>5. s = Sda
    BY <2>3, <2>4
  <2> HIDE DEF s
  <2>6. dev'.stretch = d.stretch
    BY <1>3, <2>2, <2>4, SampleStretch
  <2> QED
    BY <1>2, <1>5, <2>2, <2>5, <2>6
<1> QED
  BY <1>3, <1>4, <1>5

\* Nothing happens while SCL stays up and SDA stays.
LEMMA HighStep ==
  ASSUME Settled, sclOut, ~dev.stretch, NEW r, Lines(sclOut, port, ddr, r, dev)
  PROVE  sclOut' /\ port' = port /\ reg' = r /\ dev' = dev /\ (latch' <=> latch)
<1>1. sclOut \in BOOLEAN /\ Scl /\ lib \in {"usi", "bitbang"} /\ (lib = "bitbang" => latch)
  BY DEF Settled, LineTypes, Scl
<1>2. sclOut' = sclOut /\ port' = port
  BY LinesSet, Zenon
<1>3. Sda <=> SdaFor(ddr, port, latch, dev)
  BY DEF Sda, SdaFor
<1>4. reg' = r /\ dev' = dev /\ (latch' <=> latch)
  BY <1>1, <1>3, LinesHigh
<1> QED
  BY <1>2, <1>4

-----------------------------------------------------------------------------
(* A clock of a byte, for the controller that is there and the one that is not *)

LEMMA WriteUp ==
  ASSUME NEW d, NEW w, NEW a \in 0 .. 255, NEW k \in 0 .. 8, NEW s \in BOOLEAN, NEW e, DevType(d),
         w.attached => w.mode \in {"address", "receive"}, InWrite(d, w, a, k, FALSE),
         k < 8 => (s <=> OneIn(a, k)), e = IF w.attached THEN Sample(d, s) ELSE d
  PROVE  InWrite(e, w, a, k + 1, TRUE)
<1>0. k < 8 \/ k = 8
  OBVIOUS
<1>1. CASE w.attached /\ k < 8
  <2>1. Hearing(d, w, a, k, FALSE)
    BY <1>1 DEF InWrite
  <2>2. k \in 0 .. 7 /\ (s <=> OneIn(a, k)) /\ w.mode \in {"address", "receive"}
    BY <1>1
  <2>3. Hearing(Sample(d, s), w, a, k + 1, TRUE)
    BY <2>1, <2>2, HearingUp
  <2>4. e = Sample(d, s)
    BY <1>1
  <2> QED
    BY <1>1, <2>3, <2>4 DEF InWrite
<1>2. CASE w.attached /\ k = 8
  <2>1. Hearing(d, w, a, 8, FALSE) /\ e = Sample(d, s)
    BY <1>2 DEF InWrite
  <2>2. Hearing(Sample(d, s), w, a, 9, TRUE)
    BY <1>2, <2>1, HearingAck
  <2>3. k + 1 = 9
    BY <1>2
  <2>4. Hearing(e, w, a, k + 1, TRUE)
    BY <2>1, <2>2, <2>3, Zenon
  <2> QED
    BY <1>2, <2>4 DEF InWrite
<1>3. CASE ~w.attached
  BY <1>3 DEF InWrite
<1> QED
  BY <1>0, <1>1, <1>2, <1>3, Zenon

LEMMA WriteDown ==
  ASSUME NEW d, NEW w, NEW a \in 0 .. 255, NEW k \in 1 .. 8, NEW e, DevType(d),
         w.attached => w.mode \in {"address", "receive"},
         w.attached /\ w.mode = "address" => a \in {Own, Own + 1}, InWrite(d, w, a, k, TRUE),
         w.attached => e \in MayStretch(Drive(d)), ~w.attached => e = d
  PROVE  InWrite(e, w, a, k, FALSE)
<1>1. CASE w.attached
  <2>1. Hearing(d, w, a, k, TRUE)
    BY <1>1 DEF InWrite
  <2>2. Hearing(e, w, a, k, FALSE)
    BY <1>1, <2>1, HearingDown
  <2> QED
    BY <1>1, <2>2 DEF InWrite
<1>2. CASE ~w.attached
  BY <1>2 DEF InWrite
<1> QED
  BY <1>1, <1>2

LEMMA WriteDone ==
  ASSUME NEW d, NEW w, NEW a \in 0 .. 255, NEW e, DevType(d),
         w.attached => w.mode \in {"address", "receive"}, InWrite(d, w, a, 9, TRUE),
         w.attached => e \in MayStretch(Drive(d)), ~w.attached => e = d
  PROVE  Written(e, w, a)
<1>1. CASE w.attached
  BY <1>1, HearingDone DEF InWrite
<1>2. CASE ~w.attached
  BY <1>2 DEF InWrite, Written
<1> QED
  BY <1>1, <1>2

LEMMA ReadUp ==
  ASSUME NEW d, NEW w, NEW k \in 0 .. 7, NEW s, NEW e, DevType(d), InRead(d, w, k, FALSE),
         e = IF w.attached THEN Sample(d, s) ELSE d
  PROVE  InRead(e, w, k + 1, TRUE)
BY SendingUp DEF InRead

LEMMA ReadDown ==
  ASSUME NEW d, NEW w, NEW k \in 1 .. 8, NEW e, DevType(d), InRead(d, w, k, TRUE),
         w.attached => e \in MayStretch(Drive(d)), ~w.attached => e = d
  PROVE  InRead(e, w, k, FALSE)
BY SendingDown DEF InRead

LEMMA ReadAck ==
  ASSUME NEW d, NEW w, NEW a \in 0 .. 255, NEW s \in BOOLEAN, NEW e, DevType(d),
         InRead(d, w, 8, FALSE), s <=> a >= 128, e = IF w.attached THEN Sample(d, s) ELSE d
  PROVE  Acked(e, w, a)
<1>1. CASE w.attached
  BY <1>1, SendingAck DEF InRead
<1>2. CASE ~w.attached
  BY <1>2 DEF InRead, Acked
<1> QED
  BY <1>1, <1>2

LEMMA ReadDone ==
  ASSUME NEW d, NEW w, NEW a \in 0 .. 255, NEW e, DevType(d), Acked(d, w, a),
         w.attached => e \in MayStretch(Drive(d)), ~w.attached => e = d
  PROVE  Read(e, w, a)
<1>1. CASE w.attached
  BY <1>1, SendingDone
<1>2. CASE ~w.attached
  BY <1>2 DEF Acked, Read
<1> QED
  BY <1>1, <1>2

LEMMA EndUp ==
  ASSUME NEW d, NEW w, NEW s, s = FALSE, NEW e, DevType(d), Ended(d, w, 0),
         e = IF w.attached THEN Sample(d, s) ELSE d
  PROVE  Ended(e, w, 1)
<1>1. CASE w.attached
  BY <1>1, EndedUp
<1>2. CASE ~w.attached
  BY <1>2 DEF Ended
<1> QED
  BY <1>1, <1>2

\* None of these looks at the stretch.
LEMMA LooseSame ==
  ASSUME LineTypes, NEW d, Loose(d), NEW w, NEW a, NEW k
  PROVE  /\ InWrite(dev, w, a, k, FALSE) => InWrite(d, w, a, k, FALSE)
         /\ InRead(dev, w, k, FALSE) => InRead(d, w, k, FALSE)
         /\ Ended(dev, w, k) => Ended(d, w, k)
<1>1. /\ d.mode = dev.mode /\ d.n = dev.n /\ d.in = dev.in /\ d.got = dev.got
      /\ d.out = dev.out /\ d.pull = dev.pull
  BY LooseFields
<1>2. InWrite(dev, w, a, k, FALSE) => InWrite(d, w, a, k, FALSE)
  BY <1>1 DEF InWrite, Hearing, Deaf, Kept
<1>3. InRead(dev, w, k, FALSE) => InRead(d, w, k, FALSE)
  BY <1>1 DEF InRead, Sending, Deaf, Kept
<1>4. Ended(dev, w, k) => Ended(d, w, k)
  BY <1>1 DEF Ended, Deaf, Kept
<1> QED
  BY <1>2, <1>3, <1>4

-----------------------------------------------------------------------------
(* SCL is let go, by the library or by the controller *)

LetGo(d) ==
  /\ TypeInv /\ ~Scl /\ Loose(d) /\ (sclOut => dev.stretch)
  /\ Lines(TRUE, port, ddr, reg, d) /\ UNCHANGED <<lib, job, at, data, attached, was>>
Held(d) == d.stretch /\ dev' = d /\ reg' = reg
Risen(d, sda) ==
  /\ ~dev'.stretch /\ dev' = (IF was.attached THEN Sample(d, sda) ELSE d)
  /\ reg' = IF lib = "usi" THEN (2 * reg + (IF sda THEN 1 ELSE 0)) % 256 ELSE reg
  /\ latch' <=> latch

LEMMA Going ==
  ASSUME NEW d, LetGo(d)
  PROVE  /\ sclOut' /\ port' = port /\ was' = was /\ data' = data /\ lib' = lib
         /\ ThisCall' = ThisCall /\ ThisCall.arg \in 0 .. 255 /\ reg \in 0 .. 255
         /\ DevType(d) /\ d.stretch \in BOOLEAN /\ LineTypes /\ Loose(d) /\ Sda \in BOOLEAN
         /\ d.stretch => Held(d)
         /\ ~d.stretch => Risen(d, Sda)
<1>1. /\ TypeInv /\ ~Scl /\ Loose(d) /\ UNCHANGED <<lib, job, at, data, attached, was>>
      /\ Lines(TRUE, port, ddr, reg, d)
  BY Zenon DEF LetGo
<1>2. Settled /\ LineTypes /\ reg \in 0 .. 255 /\ was.attached = attached
  BY <1>1 DEF TypeInv, Settled, LineTypes
<1>3. DevType(d) /\ d.stretch \in BOOLEAN
  BY <1>1, <1>2, LooseFields, DeviceFields
<1>4. ThisCall' = ThisCall /\ ThisCall.arg \in 0 .. 255
  BY <1>1, CallIs DEF ThisCall
<1>5. /\ sclOut' /\ port' = port
      /\ \/ d.stretch /\ dev' = d /\ reg' = reg
         \/ /\ ~d.stretch /\ ~dev'.stretch
            /\ dev' = IF attached THEN Sample(d, Sda) ELSE d
            /\ reg' = IF lib = "usi" THEN (2 * reg + (IF Sda THEN 1 ELSE 0)) % 256 ELSE reg
            /\ latch' <=> latch
  BY <1>1, <1>2, UpStep, Zenon
<1>6. d.stretch => Held(d)
  BY <1>5 DEF Held
<1>7. ~d.stretch => Risen(d, Sda)
  BY <1>2, <1>5 DEF Risen
<1> QED
  BY <1>1, <1>2, <1>3, <1>4, <1>5, <1>6, <1>7, Levels

\* What a controller that is spoken to may be in.
SpokenTo ==
  /\ was.attached => was.mode \in {"address", "receive"}
  /\ was.attached /\ was.mode = "address" => Arg \in {Own, Own + 1}

LEMMA WriteMode ==
  ASSUME TypeInv, SyncInv, was.sync, ThisCall.op = "write"
  PROVE  SpokenTo
<1>1. job \in Jobs /\ at \in 1 .. Len(Calls[job]) /\ was.attached = attached
  BY DEF TypeInv
<1>2. was.mode = IF attached THEN ModeAt ELSE "idle"
  BY DEF SyncInv
<1>3. /\ at = 2 \/ (at > 2 /\ job # "fetch")
      /\ at = 2 => ThisCall.arg \in {Own, Own + 1}
      /\ at \in 1 .. 9
  BY <1>1, TheCalls DEF ThisCall
<1> QED
  BY <1>1, <1>2, <1>3 DEF SpokenTo, ModeAt, Arg

\* A bit of the byte, while SCL is low: the library decides.
LEMMA WriteLineUp ==
  ASSUME LineTypes, NEW w, NEW a \in 0 .. 255, NEW k \in 0 .. 7, InWrite(dev, w, a, k, FALSE)
  PROVE  ~dev.pull
BY DEF InWrite, Hearing, Deaf, LineTypes, DevType, Devices

LEMMA UsiWriteUp ==
  ASSUME NEW d, LetGo(d), SpokenTo, NEW i \in 0 .. 7, lib = "usi", ddr, UsiWriteLow(i)
  PROVE  Rising(UsiWriteLow(i), UsiWriteHigh(i))'
<1>0. /\ sclOut' /\ port' = port /\ was' = was /\ data' = data /\ lib' = lib
      /\ ThisCall' = ThisCall /\ ThisCall.arg \in 0 .. 255 /\ reg \in 0 .. 255
      /\ DevType(d) /\ d.stretch \in BOOLEAN /\ LineTypes /\ Loose(d) /\ Sda \in BOOLEAN
  BY Going
<1>1. port /\ Outgoing(reg, Arg, i) /\ InWrite(dev, was, Arg, i, FALSE)
  BY DEF UsiWriteLow
<1>2. InWrite(d, was, Arg, i, FALSE)
  BY <1>0, <1>1, LooseSame
<1>3. CASE d.stretch
  <2>1. dev' = d /\ reg' = reg
    BY <1>3, Going DEF Held
  <2>2. UsiWriteLow(i)'
    BY <1>0, <1>1, <1>2, <2>1 DEF UsiWriteLow, Arg
  <2> QED
    BY <1>0, <1>3, <2>1, <2>2 DEF Rising
<1>4. CASE ~d.stretch
  <2>1. Risen(d, Sda)
    BY <1>4, Going
  <2>2. ~Scl /\ (latch <=> reg >= 128)
    BY <1>0 DEF LetGo, LineTypes
  <2>3. ~dev.pull
    BY <1>0, <1>1, WriteLineUp DEF Arg
  <2>4. Sda <=> reg >= 128
    BY <1>1, <2>2, <2>3 DEF Sda
  <2> DEFINE b == IF Sda THEN 1 ELSE 0
  <2>5. b \in 0 .. 1
    OBVIOUS
  <2>6. Arg \in 0 .. 255
    BY <1>0 DEF Arg
  <2>11. reg' = (2 * reg + b) % 256
    BY <2>1 DEF Risen
  <2> HIDE DEF b
  <2>7. (reg < 128 <=> ~OneIn(Arg, i)) /\ Outgoing((2 * reg + b) % 256, Arg, i + 1)
    <3>1. Leaving(reg, Arg, i, b)
      BY <1>0, <1>1, <2>5, <2>6 DEF Leaving
    <3>2. Left(reg, Arg, i, b)
      BY <3>1, BitLeaves, Zenon
    <3> QED
      BY <3>2 DEF Left
  <2>9. InWrite(dev', was, Arg, i + 1, TRUE)
    <3>1. Sda <=> OneIn(Arg, i)
      BY <1>0, <2>4, <2>7
    <3>2. dev' = IF was.attached THEN Sample(d, Sda) ELSE d
      BY <2>1 DEF Risen
    <3>3. was.attached => was.mode \in {"address", "receive"}
      BY DEF SpokenTo
    <3>4. i \in 0 .. 8
      OBVIOUS
    <3> QED
      BY <1>0, <1>2, <2>6, <3>1, <3>2, <3>3, <3>4, WriteUp
  <2>10. UsiWriteHigh(i)'
    BY <1>0, <1>1, <2>7, <2>9, <2>11 DEF UsiWriteHigh, Arg
  <2> QED
    BY <1>0, <2>1, <2>10 DEF Rising, Risen
<1> QED
  BY <1>0, <1>3, <1>4

LEMMA WriteAck ==
  ASSUME NEW d, NEW w, NEW a \in 0 .. 255, NEW s \in BOOLEAN, NEW e, DevType(d),
         w.attached => w.mode \in {"address", "receive"}, InWrite(d, w, a, 8, FALSE),
         e = IF w.attached THEN Sample(d, s) ELSE d
  PROVE  InWrite(e, w, a, 9, TRUE)
<1>1. CASE w.attached
  BY <1>1, HearingAck DEF InWrite
<1>2. CASE ~w.attached
  BY <1>2 DEF InWrite
<1> QED
  BY <1>1, <1>2
\* The controller acknowledges, and SDA is low when it is there.
LEMMA AckLine ==
  ASSUME LineTypes, NEW w, NEW a \in 0 .. 255, NEW up \in BOOLEAN,
         InWrite(dev, w, a, IF up THEN 9 ELSE 8, up)
  PROVE  dev.pull <=> w.attached
<1>1. dev.pull \in BOOLEAN
  BY DeviceFields DEF LineTypes
<1>2. CASE w.attached
  <2>1. CASE up
    BY <1>1, <1>2, <2>1 DEF InWrite, Hearing
  <2>2. CASE ~up
    BY <1>1, <1>2, <2>2 DEF InWrite, Hearing
  <2> QED
    BY <2>1, <2>2
<1>3. CASE ~w.attached
  BY <1>3 DEF InWrite, Deaf
<1> QED
  BY <1>2, <1>3

\* In a byte it sends the controller decides.
LEMMA ReadLine ==
  ASSUME LineTypes, NEW w, NEW k \in 0 .. 7,
         InRead(dev, w, k, FALSE) \/ InRead(dev, w, k + 1, TRUE)
  PROVE  dev.pull <=> ~OneIn(Offered(w), k)
<1>1. dev.pull \in BOOLEAN /\ k < 8 /\ k + 1 < 9 /\ (k + 1) - 1 = k
  BY DeviceFields DEF LineTypes
<1>2. CASE w.attached
  <2>1. CASE InRead(dev, w, k, FALSE)
    BY <1>1, <1>2, <2>1 DEF InRead, Sending, Kept, Offered
  <2>2. CASE InRead(dev, w, k + 1, TRUE)
    BY <1>1, <1>2, <2>2 DEF InRead, Sending, Kept, Offered
  <2> QED
    BY <2>1, <2>2
<1>3. CASE ~w.attached
  <2>1. ~dev.pull
    BY <1>3 DEF InRead, Deaf
  <2>2. Offered(w) = 255
    BY <1>3 DEF Offered
  <2> QED
    BY <2>1, <2>2, AllOnes
<1> QED
  BY <1>2, <1>3

LEMMA NackLine ==
  ASSUME LineTypes, NEW w, InRead(dev, w, 8, FALSE)
  PROVE  ~dev.pull
BY DeviceFields DEF LineTypes, InRead, Sending, Deaf

\* What a controller that is not there offers.
LEMMA OfferedType == ASSUME TypeInv PROVE Offered(was) \in 0 .. 255
<1>1. was \in WasType
  BY DEF TypeInv
<1>2. was.offer \in 0 .. 255
  BY <1>1, BytesAssumption DEF WasType
<1> QED
  BY <1>2 DEF Offered

LEMMA UsiAckUp ==
  ASSUME NEW d, LetGo(d), SpokenTo, lib = "usi", ~ddr, UsiAckLow
  PROVE  Rising(UsiAckLow, UsiAckHigh)'
<1>0. /\ sclOut' /\ port' = port /\ was' = was /\ data' = data /\ lib' = lib
      /\ ThisCall' = ThisCall /\ ThisCall.arg \in 0 .. 255 /\ reg \in 0 .. 255
      /\ DevType(d) /\ d.stretch \in BOOLEAN /\ LineTypes /\ Loose(d) /\ Sda \in BOOLEAN
  BY Going
<1>1. port /\ reg = 255 /\ InWrite(dev, was, Arg, 8, FALSE)
  BY DEF UsiAckLow
<1>2. InWrite(d, was, Arg, 8, FALSE)
  BY <1>0, <1>1, LooseSame
<1>3. CASE d.stretch
  <2>1. dev' = d /\ reg' = reg
    BY <1>3, Going DEF Held
  <2>2. UsiAckLow'
    BY <1>0, <1>1, <1>2, <2>1 DEF UsiAckLow, Arg
  <2> QED
    BY <1>0, <1>3, <2>1, <2>2 DEF Rising
<1>4. CASE ~d.stretch
  <2>1. Risen(d, Sda)
    BY <1>4, Going
  <2>2. ~Scl /\ (lib = "usi" => (latch <=> reg >= 128)) /\ (lib = "bitbang" => latch)
    BY <1>0 DEF LetGo, LineTypes
  <2>3. dev' = IF was.attached THEN Sample(d, Sda) ELSE d
    BY <2>1 DEF Risen
  <2>4. Arg \in 0 .. 255
    BY <1>0 DEF Arg
  <2>5. dev.pull <=> was.attached
    <3>1. InWrite(dev, was, Arg, IF FALSE THEN 9 ELSE 8, FALSE)
      BY <1>1
    <3> QED
      BY <1>0, <2>4, <3>1, AckLine, Zenon
  <2>6. Sda <=> ~was.attached
    BY <2>5 DEF Sda
  <2>7. reg' = (2 * 255 + (IF Sda THEN 1 ELSE 0)) % 256
    BY <1>1, <2>1 DEF Risen
  <2>8. reg' % 2 = AckBit(was)
    BY <2>6, <2>7 DEF AckBit
  <2>9. InWrite(dev', was, Arg, 9, TRUE)
    BY <1>0, <1>2, <2>3, <2>4, WriteAck DEF SpokenTo
  <2>20. UsiAckHigh'
    BY <1>0, <1>1, <2>8, <2>9 DEF UsiAckHigh, Arg, AckBit
  <2> QED
    BY <1>0, <2>1, <2>20 DEF Rising, Risen
<1> QED
  BY <1>0, <1>3, <1>4

LEMMA UsiReadUp ==
  ASSUME NEW d, LetGo(d), NEW i \in 0 .. 7, lib = "usi", ~ddr, UsiReadLow(i)
  PROVE  Rising(UsiReadLow(i), UsiReadHigh(i))'
<1>0. /\ sclOut' /\ port' = port /\ was' = was /\ data' = data /\ lib' = lib
      /\ ThisCall' = ThisCall /\ ThisCall.arg \in 0 .. 255 /\ reg \in 0 .. 255
      /\ DevType(d) /\ d.stretch \in BOOLEAN /\ LineTypes /\ Loose(d) /\ Sda \in BOOLEAN
  BY Going
<1>1. port /\ Incoming(reg, Offered(was), i) /\ InRead(dev, was, i, FALSE)
  BY DEF UsiReadLow
<1>2. InRead(d, was, i, FALSE)
  BY <1>0, <1>1, LooseSame
<1>3. CASE d.stretch
  <2>1. dev' = d /\ reg' = reg
    BY <1>3, Going DEF Held
  <2>2. UsiReadLow(i)'
    BY <1>0, <1>1, <1>2, <2>1 DEF UsiReadLow, Arg
  <2> QED
    BY <1>0, <1>3, <2>1, <2>2 DEF Rising
<1>4. CASE ~d.stretch
  <2>1. Risen(d, Sda)
    BY <1>4, Going
  <2>2. ~Scl /\ (lib = "usi" => (latch <=> reg >= 128)) /\ (lib = "bitbang" => latch)
    BY <1>0 DEF LetGo, LineTypes
  <2>3. dev' = IF was.attached THEN Sample(d, Sda) ELSE d
    BY <2>1 DEF Risen
  <2>4. Arg \in 0 .. 255
    BY <1>0 DEF Arg
  <2>5. dev.pull <=> ~OneIn(Offered(was), i)
    BY <1>0, <1>1, ReadLine
  <2>6. Sda <=> OneIn(Offered(was), i)
    BY <2>5 DEF Sda
  <2> DEFINE b == IF Sda THEN 1 ELSE 0
  <2>7. b \in 0 .. 1 /\ (b = 1 <=> OneIn(Offered(was), i))
    BY <2>6
  <2>8. reg' = (2 * reg + b) % 256
    BY <2>1 DEF Risen
  <2>9. Offered(was) \in 0 .. 255
    BY OfferedType DEF LetGo
  <2> HIDE DEF b
  <2>10. Incoming(reg', Offered(was), i + 1)
    BY <1>0, <1>1, <2>7, <2>8, <2>9, IncomingBit
  <2>11. InRead(dev', was, i + 1, TRUE)
    BY <1>0, <1>2, <2>3, ReadUp
  <2>20. UsiReadHigh(i)'
    BY <1>0, <1>1, <2>10, <2>11 DEF UsiReadHigh
  <2> QED
    BY <1>0, <2>1, <2>20 DEF Rising, Risen
<1> QED
  BY <1>0, <1>3, <1>4

LEMMA UsiNackUp ==
  ASSUME NEW d, LetGo(d), lib = "usi", ddr, UsiNackLow
  PROVE  Rising(UsiNackLow, UsiNackHigh)'
<1>0. /\ sclOut' /\ port' = port /\ was' = was /\ data' = data /\ lib' = lib
      /\ ThisCall' = ThisCall /\ ThisCall.arg \in 0 .. 255 /\ reg \in 0 .. 255
      /\ DevType(d) /\ d.stretch \in BOOLEAN /\ LineTypes /\ Loose(d) /\ Sda \in BOOLEAN
  BY Going
<1>1. port /\ data = Offered(was) /\ reg = Arg /\ InRead(dev, was, 8, FALSE)
  BY DEF UsiNackLow
<1>2. InRead(d, was, 8, FALSE)
  BY <1>0, <1>1, LooseSame
<1>3. CASE d.stretch
  <2>1. dev' = d /\ reg' = reg
    BY <1>3, Going DEF Held
  <2>2. UsiNackLow'
    BY <1>0, <1>1, <1>2, <2>1 DEF UsiNackLow, Arg
  <2> QED
    BY <1>0, <1>3, <2>1, <2>2 DEF Rising
<1>4. CASE ~d.stretch
  <2>1. Risen(d, Sda)
    BY <1>4, Going
  <2>2. ~Scl /\ (lib = "usi" => (latch <=> reg >= 128)) /\ (lib = "bitbang" => latch)
    BY <1>0 DEF LetGo, LineTypes
  <2>3. dev' = IF was.attached THEN Sample(d, Sda) ELSE d
    BY <2>1 DEF Risen
  <2>4. Arg \in 0 .. 255
    BY <1>0 DEF Arg
  <2>5. ~dev.pull
    BY <1>0, <1>1, NackLine
  <2>6. Sda <=> Arg >= 128
    BY <1>1, <2>2, <2>5 DEF Sda
  <2>7. Acked(dev', was, Arg)
    BY <1>0, <1>2, <2>3, <2>4, <2>6, ReadAck
  <2>20. UsiNackHigh'
    BY <1>0, <1>1, <2>7 DEF UsiNackHigh, Arg
  <2> QED
    BY <1>0, <2>1, <2>20 DEF Rising, Risen
<1> QED
  BY <1>0, <1>3, <1>4

LEMMA BitWriteUp ==
  ASSUME NEW d, LetGo(d), NEW i \in 0 .. 7, SpokenTo, lib = "bitbang", ddr, BitWriteLow(i)
  PROVE  Rising(BitWriteLow(i), BitWriteHigh(i))'
<1>0. /\ sclOut' /\ port' = port /\ was' = was /\ data' = data /\ lib' = lib
      /\ ThisCall' = ThisCall /\ ThisCall.arg \in 0 .. 255 /\ reg \in 0 .. 255
      /\ DevType(d) /\ d.stretch \in BOOLEAN /\ LineTypes /\ Loose(d) /\ Sda \in BOOLEAN
  BY Going
<1>1. (port <=> OneIn(Arg, i)) /\ Outgoing(reg, Arg, i + 1) /\ InWrite(dev, was, Arg, i, FALSE)
  BY DEF BitWriteLow
<1>2. InWrite(d, was, Arg, i, FALSE)
  BY <1>0, <1>1, LooseSame
<1>3. CASE d.stretch
  <2>1. dev' = d /\ reg' = reg
    BY <1>3, Going DEF Held
  <2>2. BitWriteLow(i)'
    BY <1>0, <1>1, <1>2, <2>1 DEF BitWriteLow, Arg
  <2> QED
    BY <1>0, <1>3, <2>1, <2>2 DEF Rising
<1>4. CASE ~d.stretch
  <2>1. Risen(d, Sda)
    BY <1>4, Going
  <2>2. ~Scl /\ (lib = "usi" => (latch <=> reg >= 128)) /\ (lib = "bitbang" => latch)
    BY <1>0 DEF LetGo, LineTypes
  <2>3. dev' = IF was.attached THEN Sample(d, Sda) ELSE d
    BY <2>1 DEF Risen
  <2>4. Arg \in 0 .. 255
    BY <1>0 DEF Arg
  <2>5. ~dev.pull
    BY <1>0, <1>1, <2>4, WriteLineUp
  <2>6. Sda <=> OneIn(Arg, i)
    BY <1>1, <2>2, <2>5 DEF Sda
  <2>7. reg' = reg
    BY <2>1 DEF Risen
  <2>8. i \in 0 .. 8
    OBVIOUS
  <2>9. InWrite(dev', was, Arg, i + 1, TRUE)
    BY <1>0, <1>2, <2>3, <2>4, <2>6, <2>8, WriteUp DEF SpokenTo
  <2>20. BitWriteHigh(i)'
    BY <1>0, <1>1, <2>7, <2>9 DEF BitWriteHigh, Arg
  <2> QED
    BY <1>0, <2>1, <2>20 DEF Rising, Risen
<1> QED
  BY <1>0, <1>3, <1>4

LEMMA BitAckUp ==
  ASSUME NEW d, LetGo(d), SpokenTo, lib = "bitbang", BitAckLow
  PROVE  Rising(BitAckLow, BitAckHigh)'
<1>0. /\ sclOut' /\ port' = port /\ was' = was /\ data' = data /\ lib' = lib
      /\ ThisCall' = ThisCall /\ ThisCall.arg \in 0 .. 255 /\ reg \in 0 .. 255
      /\ DevType(d) /\ d.stretch \in BOOLEAN /\ LineTypes /\ Loose(d) /\ Sda \in BOOLEAN
  BY Going
<1>1. port /\ reg = 0 /\ InWrite(dev, was, Arg, 8, FALSE)
  BY DEF BitAckLow
<1>2. InWrite(d, was, Arg, 8, FALSE)
  BY <1>0, <1>1, LooseSame
<1>3. CASE d.stretch
  <2>1. dev' = d /\ reg' = reg
    BY <1>3, Going DEF Held
  <2>2. BitAckLow'
    BY <1>0, <1>1, <1>2, <2>1 DEF BitAckLow, Arg
  <2> QED
    BY <1>0, <1>3, <2>1, <2>2 DEF Rising
<1>4. CASE ~d.stretch
  <2>1. Risen(d, Sda)
    BY <1>4, Going
  <2>2. ~Scl /\ (lib = "usi" => (latch <=> reg >= 128)) /\ (lib = "bitbang" => latch)
    BY <1>0 DEF LetGo, LineTypes
  <2>3. dev' = IF was.attached THEN Sample(d, Sda) ELSE d
    BY <2>1 DEF Risen
  <2>4. Arg \in 0 .. 255
    BY <1>0 DEF Arg
  <2>7. reg' = reg
    BY <2>1 DEF Risen
  <2>9. InWrite(dev', was, Arg, 9, TRUE)
    BY <1>0, <1>2, <2>3, <2>4, WriteAck DEF SpokenTo
  <2>20. BitAckHigh'
    BY <1>0, <1>1, <2>7, <2>9 DEF BitAckHigh, Arg
  <2> QED
    BY <1>0, <2>1, <2>20 DEF Rising, Risen
<1> QED
  BY <1>0, <1>3, <1>4

LEMMA BitReadUp ==
  ASSUME NEW d, LetGo(d), NEW i \in 0 .. 7, lib = "bitbang", BitReadLow(i)
  PROVE  Rising(BitReadLow(i), BitReadHigh(i))'
<1>0. /\ sclOut' /\ port' = port /\ was' = was /\ data' = data /\ lib' = lib
      /\ ThisCall' = ThisCall /\ ThisCall.arg \in 0 .. 255 /\ reg \in 0 .. 255
      /\ DevType(d) /\ d.stretch \in BOOLEAN /\ LineTypes /\ Loose(d) /\ Sda \in BOOLEAN
  BY Going
<1>1. port /\ Incoming(reg, Offered(was), i) /\ InRead(dev, was, i, FALSE)
  BY DEF BitReadLow
<1>2. InRead(d, was, i, FALSE)
  BY <1>0, <1>1, LooseSame
<1>3. CASE d.stretch
  <2>1. dev' = d /\ reg' = reg
    BY <1>3, Going DEF Held
  <2>2. BitReadLow(i)'
    BY <1>0, <1>1, <1>2, <2>1 DEF BitReadLow, Arg
  <2> QED
    BY <1>0, <1>3, <2>1, <2>2 DEF Rising
<1>4. CASE ~d.stretch
  <2>1. Risen(d, Sda)
    BY <1>4, Going
  <2>2. ~Scl /\ (lib = "usi" => (latch <=> reg >= 128)) /\ (lib = "bitbang" => latch)
    BY <1>0 DEF LetGo, LineTypes
  <2>3. dev' = IF was.attached THEN Sample(d, Sda) ELSE d
    BY <2>1 DEF Risen
  <2>4. Arg \in 0 .. 255
    BY <1>0 DEF Arg
  <2>7. reg' = reg
    BY <2>1 DEF Risen
  <2>11. InRead(dev', was, i + 1, TRUE)
    BY <1>0, <1>2, <2>3, ReadUp
  <2>20. BitReadHigh(i)'
    BY <1>0, <1>1, <2>7, <2>11 DEF BitReadHigh
  <2> QED
    BY <1>0, <2>1, <2>20 DEF Rising, Risen
<1> QED
  BY <1>0, <1>3, <1>4

LEMMA BitNackUp ==
  ASSUME NEW d, LetGo(d), lib = "bitbang", ddr, BitNackLow
  PROVE  Rising(BitNackLow, BitNackHigh)'
<1>0. /\ sclOut' /\ port' = port /\ was' = was /\ data' = data /\ lib' = lib
      /\ ThisCall' = ThisCall /\ ThisCall.arg \in 0 .. 255 /\ reg \in 0 .. 255
      /\ DevType(d) /\ d.stretch \in BOOLEAN /\ LineTypes /\ Loose(d) /\ Sda \in BOOLEAN
  BY Going
<1>1. (port <=> Arg >= 128) /\ data = Offered(was) /\ InRead(dev, was, 8, FALSE)
  BY DEF BitNackLow
<1>2. InRead(d, was, 8, FALSE)
  BY <1>0, <1>1, LooseSame
<1>3. CASE d.stretch
  <2>1. dev' = d /\ reg' = reg
    BY <1>3, Going DEF Held
  <2>2. BitNackLow'
    BY <1>0, <1>1, <1>2, <2>1 DEF BitNackLow, Arg
  <2> QED
    BY <1>0, <1>3, <2>1, <2>2 DEF Rising
<1>4. CASE ~d.stretch
  <2>1. Risen(d, Sda)
    BY <1>4, Going
  <2>2. ~Scl /\ (lib = "usi" => (latch <=> reg >= 128)) /\ (lib = "bitbang" => latch)
    BY <1>0 DEF LetGo, LineTypes
  <2>3. dev' = IF was.attached THEN Sample(d, Sda) ELSE d
    BY <2>1 DEF Risen
  <2>4. Arg \in 0 .. 255
    BY <1>0 DEF Arg
  <2>5. ~dev.pull
    BY <1>0, <1>1, NackLine
  <2>6. Sda <=> Arg >= 128
    BY <1>1, <2>2, <2>5 DEF Sda
  <2>7. Acked(dev', was, Arg)
    BY <1>0, <1>2, <2>3, <2>4, <2>6, ReadAck
  <2>20. BitNackHigh'
    BY <1>0, <1>1, <2>7 DEF BitNackHigh, Arg
  <2> QED
    BY <1>0, <2>1, <2>20 DEF Rising, Risen
<1> QED
  BY <1>0, <1>3, <1>4

LEMMA StopUp ==
  ASSUME NEW d, LetGo(d), ddr, lib \in {"usi", "bitbang"}, StopLow
  PROVE  Rising(StopLow, StopHigh)'
<1>0. /\ sclOut' /\ port' = port /\ was' = was /\ data' = data /\ lib' = lib
      /\ ThisCall' = ThisCall /\ ThisCall.arg \in 0 .. 255 /\ reg \in 0 .. 255
      /\ DevType(d) /\ d.stretch \in BOOLEAN /\ LineTypes /\ Loose(d) /\ Sda \in BOOLEAN
  BY Going
<1>1. ~port /\ (lib = "usi" => reg = 255) /\ Ended(dev, was, 0)
  BY DEF StopLow
<1>2. Ended(d, was, 0)
  BY <1>0, <1>1, LooseSame
<1>3. CASE d.stretch
  <2>1. dev' = d /\ reg' = reg
    BY <1>3, Going DEF Held
  <2>2. StopLow'
    BY <1>0, <1>1, <1>2, <2>1 DEF StopLow, Arg
  <2> QED
    BY <1>0, <1>3, <2>1, <2>2 DEF Rising
<1>4. CASE ~d.stretch
  <2>1. Risen(d, Sda)
    BY <1>4, Going
  <2>2. ~Scl /\ (lib = "usi" => (latch <=> reg >= 128)) /\ (lib = "bitbang" => latch)
    BY <1>0 DEF LetGo, LineTypes
  <2>3. dev' = IF was.attached THEN Sample(d, Sda) ELSE d
    BY <2>1 DEF Risen
  <2>4. Arg \in 0 .. 255
    BY <1>0 DEF Arg
  <2>5. Sda = FALSE
    BY <1>0, <1>1 DEF Sda
  <2>6. latch /\ (latch' <=> latch)
    BY <1>1, <2>1, <2>2 DEF Risen
  <2>7. Ended(dev', was, 1)
    BY <1>0, <1>2, <2>3, <2>5, EndUp
  <2>20. StopHigh'
    BY <1>0, <1>1, <2>6, <2>7 DEF StopHigh
  <2> QED
    BY <1>0, <2>1, <2>20 DEF Rising, Risen
<1> QED
  BY <1>0, <1>3, <1>4

-----------------------------------------------------------------------------
(* The steps of the library by the level of SCL *)

LEMMA Stepping ==
  ASSUME TypeInv, Library, ip <= Len(Steps)
  PROVE  /\ ip' = ip + 1 /\ ip \in Nat /\ UNCHANGED <<lib, job, at, attached, was>>
         /\ ThisCall' = ThisCall /\ ThisCall.arg \in 0 .. 255 /\ Arg' = Arg /\ Arg = ThisCall.arg
         /\ Settled /\ LineTypes /\ DevType(dev) /\ reg \in 0 .. 255 /\ was.attached = attached
         /\ port \in BOOLEAN /\ sclOut \in BOOLEAN
<1>1. ip \in Nat /\ Len(Steps) \in Nat /\ ThisCall.arg \in 0 .. 255
  BY CallIs
<1>2. ip' = ip + 1 /\ UNCHANGED <<lib, job, at, connected, attached, faults, was, missed>>
  BY <1>1, StepEffect, Zenon
<1>3. ThisCall' = ThisCall /\ Arg' = Arg /\ Arg = ThisCall.arg
  BY <1>2 DEF ThisCall, Arg
<1>4. /\ Settled /\ LineTypes /\ DevType(dev) /\ reg \in 0 .. 255 /\ was.attached = attached
      /\ port \in BOOLEAN /\ sclOut \in BOOLEAN
  BY DEF TypeInv, LineTypes, Settled
<1> QED
  BY <1>1, <1>2, <1>3, <1>4

LowTo(p, r, x) == ~sclOut' /\ port' = p /\ reg' = r /\ dev' = dev /\ data' = x

LEMMA LowSteps ==
  ASSUME TypeInv, Library, ip <= Len(Steps), ~sclOut
  PROVE  /\ Steps[ip] \in {"scl0", "in", "out"} => LowTo(port, reg, data)
         /\ Steps[ip] = "load" => LowTo(port, ThisCall.arg, data)
         /\ Steps[ip] = "drop" => LowTo(port, 255, data)
         /\ Steps[ip] = "take" => LowTo(port, 255, reg)
         /\ Steps[ip] = "clear" => LowTo(port, 0, data)
         /\ Steps[ip] = "sda1" => LowTo(TRUE, reg, data)
         /\ Steps[ip] = "sda0" => LowTo(FALSE, reg, data)
         /\ Steps[ip] = "msb" => LowTo(reg >= 128, (2 * reg) % 256, data)
         /\ Steps[ip] = "nack" => LowTo(ThisCall.arg # 0, reg, data)
         /\ Steps[ip] = "scl1" => LetGo(dev)
<1>0. ip \in Nat /\ Len(Steps) \in Nat
  BY CallIs
<1>1. sclOut = FALSE /\ sclOut \in BOOLEAN
  BY DEF TypeInv, LineTypes
<1>2. ASSUME NEW p, NEW o, NEW r, NEW scl, scl = FALSE, Lines(scl, p, o, r, dev), NEW x, data' = x
      PROVE  LowTo(p, r, x)
  BY <1>2, LowStep, Zenon DEF LowTo
<1>3. Steps[ip] = "scl0" => LowTo(port, reg, data)
  <2> SUFFICES ASSUME Steps[ip] = "scl0"
               PROVE  LowTo(port, reg, data)
    OBVIOUS
  <2>1. Lines(FALSE, port, ddr, reg, dev) /\ data' = data
    BY <1>0, StepEffect, Zenon
  <2> QED
    BY <1>2, <2>1, Zenon
<1>4. Steps[ip] = "in" => LowTo(port, reg, data)
  <2> SUFFICES ASSUME Steps[ip] = "in"
               PROVE  LowTo(port, reg, data)
    OBVIOUS
  <2>1. Lines(sclOut, port, FALSE, reg, dev) /\ data' = data
    BY <1>0, StepEffect, Zenon
  <2> QED
    BY <1>1, <1>2, <2>1, Zenon
<1>5. Steps[ip] = "out" => LowTo(port, reg, data)
  <2> SUFFICES ASSUME Steps[ip] = "out"
               PROVE  LowTo(port, reg, data)
    OBVIOUS
  <2>1. Lines(sclOut, port, TRUE, reg, dev) /\ data' = data
    BY <1>0, StepEffect, Zenon
  <2> QED
    BY <1>1, <1>2, <2>1, Zenon
<1>6. Steps[ip] = "load" => LowTo(port, ThisCall.arg, data)
  <2> SUFFICES ASSUME Steps[ip] = "load"
               PROVE  LowTo(port, ThisCall.arg, data)
    OBVIOUS
  <2>1. Lines(sclOut, port, ddr, ThisCall.arg, dev) /\ data' = data
    BY <1>0, StepEffect, Zenon
  <2> QED
    BY <1>1, <1>2, <2>1, Zenon
<1>7. Steps[ip] = "drop" => LowTo(port, 255, data)
  <2> SUFFICES ASSUME Steps[ip] = "drop"
               PROVE  LowTo(port, 255, data)
    OBVIOUS
  <2>1. Lines(sclOut, port, ddr, 255, dev) /\ data' = data
    BY <1>0, StepEffect, Zenon
  <2> QED
    BY <1>1, <1>2, <2>1, Zenon
<1>8. Steps[ip] = "take" => LowTo(port, 255, reg)
  <2> SUFFICES ASSUME Steps[ip] = "take"
               PROVE  LowTo(port, 255, reg)
    OBVIOUS
  <2>1. Lines(sclOut, port, ddr, 255, dev) /\ data' = reg
    BY <1>0, StepEffect, Zenon
  <2> QED
    BY <1>1, <1>2, <2>1, Zenon
<1>9. Steps[ip] = "clear" => LowTo(port, 0, data)
  <2> SUFFICES ASSUME Steps[ip] = "clear"
               PROVE  LowTo(port, 0, data)
    OBVIOUS
  <2>1. Lines(sclOut, port, ddr, 0, dev) /\ data' = data
    BY <1>0, StepEffect, Zenon
  <2> QED
    BY <1>1, <1>2, <2>1, Zenon
<1>10. Steps[ip] = "sda1" => LowTo(TRUE, reg, data)
  <2> SUFFICES ASSUME Steps[ip] = "sda1"
               PROVE  LowTo(TRUE, reg, data)
    OBVIOUS
  <2>1. Lines(sclOut, TRUE, ddr, reg, dev) /\ data' = data
    BY <1>0, StepEffect, Zenon
  <2> QED
    BY <1>1, <1>2, <2>1, Zenon
<1>11. Steps[ip] = "sda0" => LowTo(FALSE, reg, data)
  <2> SUFFICES ASSUME Steps[ip] = "sda0"
               PROVE  LowTo(FALSE, reg, data)
    OBVIOUS
  <2>1. Lines(sclOut, FALSE, ddr, reg, dev) /\ data' = data
    BY <1>0, StepEffect, Zenon
  <2> QED
    BY <1>1, <1>2, <2>1, Zenon
<1>12. Steps[ip] = "msb" => LowTo(reg >= 128, (2 * reg) % 256, data)
  <2> SUFFICES ASSUME Steps[ip] = "msb"
               PROVE  LowTo(reg >= 128, (2 * reg) % 256, data)
    OBVIOUS
  <2>1. Lines(sclOut, reg >= 128, ddr, (2 * reg) % 256, dev) /\ data' = data
    BY <1>0, StepEffect, Zenon
  <2> QED
    BY <1>1, <1>2, <2>1, Zenon
<1>13. Steps[ip] = "nack" => LowTo(ThisCall.arg # 0, reg, data)
  <2> SUFFICES ASSUME Steps[ip] = "nack"
               PROVE  LowTo(ThisCall.arg # 0, reg, data)
    OBVIOUS
  <2>1. Lines(sclOut, ThisCall.arg # 0, ddr, reg, dev) /\ data' = data
    BY <1>0, StepEffect, Zenon
  <2> QED
    BY <1>1, <1>2, <2>1, Zenon
<1>14. Steps[ip] = "scl1" => LetGo(dev)
  <2> SUFFICES ASSUME Steps[ip] = "scl1"
               PROVE  LetGo(dev)
    OBVIOUS
  <2>1. Lines(TRUE, port, ddr, reg, dev) /\ data' = data
    BY <1>0, StepEffect, Zenon
  <2>2. ~Scl /\ Loose(dev)
    BY DEF Scl, Loose
  <2>3. UNCHANGED <<lib, job, at, attached, was>>
    BY Stepping
  <2>4. UNCHANGED <<lib, job, at, data, attached, was>>
    BY <2>1, <2>3
  <2> QED
    BY <2>1, <2>2, <2>4, Zenon DEF LetGo
<1> QED
  BY <1>3, <1>4, <1>5, <1>6, <1>7, <1>8, <1>9, <1>10, <1>11, <1>12, <1>13, <1>14

HighTo(r) ==
  /\ sclOut' /\ ~dev'.stretch /\ port' = port /\ reg' = r /\ dev' = dev /\ (latch' <=> latch)
  /\ data' = data

LEMMA HighSteps ==
  ASSUME TypeInv, Library, ip <= Len(Steps)
  PROVE  /\ Steps[ip] = "await" => sclOut /\ ~dev.stretch /\ HighTo(reg)
         /\ Steps[ip] = "sample" /\ sclOut /\ ~dev.stretch =>
              HighTo((2 * reg + (IF Sda THEN 1 ELSE 0)) % 256)
         /\ Steps[ip] = "scl0" /\ sclOut /\ ~dev.stretch =>
              /\ ~sclOut' /\ port' = port /\ reg' = reg /\ data' = data
              /\ was.attached => dev' \in MayStretch(Drive(dev))
              /\ ~was.attached => dev' = dev
<1>0. ip \in Nat /\ Len(Steps) \in Nat
  BY CallIs
<1>1. Settled /\ LineTypes /\ was.attached = attached
  BY Stepping
<1>2. ASSUME sclOut, ~dev.stretch, NEW r, Lines(sclOut, port, ddr, r, dev), data' = data
      PROVE  HighTo(r)
  <2>1. sclOut' /\ port' = port /\ reg' = r /\ dev' = dev /\ (latch' <=> latch)
    BY <1>1, <1>2, HighStep, Zenon
  <2> QED
    BY <1>2, <2>1 DEF HighTo
<1>3. ASSUME Steps[ip] = "await"
      PROVE  sclOut /\ ~dev.stretch /\ HighTo(reg)
  <2>1. Lines(sclOut, port, ddr, reg, dev) /\ data' = data /\ Scl
    BY <1>0, <1>3, StepEffect, Zenon
  <2>2. sclOut /\ ~dev.stretch
    BY <2>1 DEF Scl
  <2> QED
    BY <1>2, <2>1, <2>2
<1>4. ASSUME Steps[ip] = "sample", sclOut, ~dev.stretch
      PROVE  HighTo((2 * reg + (IF Sda THEN 1 ELSE 0)) % 256)
  <2>1. Lines(sclOut, port, ddr, (2 * reg + (IF Sda THEN 1 ELSE 0)) % 256, dev) /\ data' = data
    BY <1>0, <1>4, StepEffect, Zenon
  <2> QED
    BY <1>2, <1>4, <2>1, Zenon
<1>5. ASSUME Steps[ip] = "scl0", sclOut, ~dev.stretch
      PROVE  /\ ~sclOut' /\ port' = port /\ reg' = reg /\ data' = data
             /\ was.attached => dev' \in MayStretch(Drive(dev))
             /\ ~was.attached => dev' = dev
  <2>1. Lines(FALSE, port, ddr, reg, dev) /\ data' = data
    BY <1>0, <1>5, StepEffect, Zenon
  <2>2. /\ ~sclOut' /\ port' = port /\ reg' = reg
        /\ attached => dev' \in MayStretch(Drive(dev))
        /\ ~attached => dev' = dev
    BY <1>1, <1>5, <2>1, DownStep, Zenon
  <2> QED
    BY <1>1, <2>1, <2>2
<1> QED
  BY <1>3, <1>4, <1>5

LEMMA UsiWriteStep ==
  ASSUME TypeInv, DriverInv, lib = "usi", ThisCall.op = "write", SpokenTo,
         UsiWriteInv, Library, ip <= Len(Steps)
  PROVE  UsiWriteInv'
<1>0. /\ ip' = ip + 1 /\ was' = was /\ Arg' = Arg /\ lib' = lib /\ Arg = ThisCall.arg
      /\ Arg \in 0 .. 255 /\ LineTypes /\ DevType(dev) /\ reg \in 0 .. 255
      /\ port \in BOOLEAN /\ was.attached = attached
  BY Stepping
<1>1. Steps = UsiWriteByte /\ Len(UsiWriteByte) = 34
  BY TheSteps, UsiWriteSteps DEF Steps
<1>2. ip \in 1 .. 34
  BY <1>1, CallIs
<1>3. /\ ip \notin 29 .. 34 => ddr
      /\ ip \in 29 .. 34 => ~ddr
  BY DEF DriverInv, InputAt
<1>4. /\ was.attached => was.mode \in {"address", "receive"}
      /\ was.attached /\ was.mode = "address" => Arg \in {Own, Own + 1}
  BY DEF SpokenTo
<1>10. ASSUME ip = 1
      PROVE  LowIs(UsiWriteLow(0))'
  <2>1. Steps[ip] = "load"
    BY <1>1, <1>10, UsiWriteSteps
  <2>2. ~sclOut /\ port /\ InWrite(dev, was, Arg, 0, FALSE)
    BY <1>10 DEF UsiWriteInv, LowIs
  <2>3. LowTo(port, ThisCall.arg, data)
    BY <2>1, <2>2, LowSteps
  <2>4. Outgoing(Arg, Arg, 0)
    BY <1>0, OutgoingAll
  <2> QED
    BY <1>0, <2>2, <2>3, <2>4 DEF LowTo, LowIs, UsiWriteLow
<1>11. ASSUME ip = 2
      PROVE  LowIs(UsiWriteLow(0))'
  <2>1. Steps[ip] = "scl0"
    BY <1>1, <1>11, UsiWriteSteps
  <2>2. ~sclOut /\ UsiWriteLow(0)
    BY <1>11 DEF UsiWriteInv, LowIs
  <2>3. LowTo(port, reg, data)
    BY <2>1, <2>2, LowSteps
  <2> QED
    BY <1>0, <2>2, <2>3 DEF LowTo, LowIs, UsiWriteLow
<1>12. ASSUME NEW i \in 1 .. 7, ip = 2 + 3 * i
      PROVE  LowIs(UsiWriteLow(i))'
  <2>1. Steps[ip] = "scl0"
    <3>1. (i - 1) \in 0 .. 7 /\ ip = 5 + 3 * (i - 1)
      BY <1>12
    <3>2. UsiWriteByte[5 + 3 * (i - 1)] = "scl0"
      BY <3>1, UsiWriteSteps, Zenon
    <3> QED
      BY <1>1, <3>1, <3>2
  <2>2. sclOut /\ ~dev.stretch /\ UsiWriteHigh(i - 1)
    <3>1. (i - 1) \in 0 .. 7 /\ ip = 5 + 3 * (i - 1)
      BY <1>12
    <3> QED
      BY <3>1, Zenon DEF UsiWriteInv, High
  <2>3. /\ ~sclOut' /\ port' = port /\ reg' = reg /\ data' = data
        /\ was.attached => dev' \in MayStretch(Drive(dev))
        /\ ~was.attached => dev' = dev
    BY <2>1, <2>2, HighSteps
  <2>4. port /\ Outgoing(reg, Arg, i) /\ InWrite(dev, was, Arg, i, TRUE)
    <3>1. (i - 1) + 1 = i
      OBVIOUS
    <3> QED
      BY <2>2, <3>1, Zenon DEF UsiWriteHigh
  <2>5. InWrite(dev', was, Arg, i, FALSE)
    <3>1. i \in 1 .. 8
      OBVIOUS
    <3> QED
      BY <1>0, <1>4, <2>3, <2>4, <3>1, WriteDown
  <2> QED
    BY <1>0, <2>2, <2>3, <2>4, <2>5 DEF LowIs, UsiWriteLow
<1>13. ASSUME NEW i \in 0 .. 7, ip = 3 + 3 * i
      PROVE  Rising(UsiWriteLow(i), UsiWriteHigh(i))'
  <2>1. Steps[ip] = "scl1"
    <3>1. i \in 0 .. 7 /\ ip = 3 + 3 * i
      BY <1>13
    <3>2. UsiWriteByte[3 + 3 * i] = "scl1"
      BY <3>1, UsiWriteSteps, Zenon
    <3> QED
      BY <1>1, <3>1, <3>2
  <2>2. ~sclOut /\ UsiWriteLow(i)
    <3>1. i \in 0 .. 7 /\ ip = 3 + 3 * i
      BY <1>13
    <3> QED
      BY <3>1, Zenon DEF UsiWriteInv, LowIs
  <2>3. LetGo(dev)
    BY <2>1, <2>2, LowSteps
  <2>4. ddr
    BY <1>3, <1>13
  <2> QED
    BY <2>2, <2>3, <2>4, UsiWriteUp, Zenon
<1>14. ASSUME NEW i \in 0 .. 7, ip = 4 + 3 * i
      PROVE  High(UsiWriteHigh(i))'
  <2>1. Steps[ip] = "await"
    <3>1. i \in 0 .. 7 /\ ip = 4 + 3 * i
      BY <1>14
    <3>2. UsiWriteByte[4 + 3 * i] = "await"
      BY <3>1, UsiWriteSteps, Zenon
    <3> QED
      BY <1>1, <3>1, <3>2
  <2>2. sclOut /\ IF dev.stretch THEN UsiWriteLow(i) ELSE UsiWriteHigh(i)
    <3>1. i \in 0 .. 7 /\ ip = 4 + 3 * i
      BY <1>14
    <3> QED
      BY <3>1, Zenon DEF UsiWriteInv, Rising
  <2>3. ~dev.stretch /\ HighTo(reg)
    BY <2>1, HighSteps
  <2> QED
    BY <1>0, <2>2, <2>3 DEF HighTo, High, UsiWriteHigh
<1>15. ASSUME ip = 26
      PROVE  LowIs(port /\ InWrite(dev, was, Arg, 8, FALSE))'
  <2>1. Steps[ip] = "scl0"
    <3>1. 7 \in 0 .. 7 /\ ip = 5 + 3 * 7
      BY <1>15
    <3>2. UsiWriteByte[5 + 3 * 7] = "scl0"
      BY <3>1, UsiWriteSteps, Zenon
    <3> QED
      BY <1>1, <3>1, <3>2
  <2>2. sclOut /\ ~dev.stretch /\ UsiWriteHigh(7)
    <3>1. 7 \in 0 .. 7 /\ ip = 5 + 3 * 7
      BY <1>15
    <3> QED
      BY <3>1, Zenon DEF UsiWriteInv, High
  <2>3. /\ ~sclOut' /\ port' = port /\ reg' = reg /\ data' = data
        /\ was.attached => dev' \in MayStretch(Drive(dev))
        /\ ~was.attached => dev' = dev
    BY <2>1, <2>2, HighSteps
  <2>4. port /\ InWrite(dev, was, Arg, 8, TRUE)
    <3>1. 7 + 1 = 8
      OBVIOUS
    <3> QED
      BY <2>2, <3>1, Zenon DEF UsiWriteHigh
  <2>5. InWrite(dev', was, Arg, 8, FALSE)
    <3>1. 8 \in 1 .. 8
      OBVIOUS
    <3> QED
      BY <1>0, <1>4, <2>3, <2>4, <3>1, WriteDown
  <2> QED
    BY <1>0, <2>2, <2>3, <2>4, <2>5 DEF LowIs
<1>16. ASSUME ip = 27
      PROVE  LowIs(UsiAckLow)'
  <2>1. Steps[ip] = "drop"
    BY <1>1, <1>16, UsiWriteSteps
  <2>2. ~sclOut /\ port /\ InWrite(dev, was, Arg, 8, FALSE)
    BY <1>16 DEF UsiWriteInv, LowIs
  <2>3. LowTo(port, 255, data)
    BY <2>1, <2>2, LowSteps
  <2> QED
    BY <1>0, <2>2, <2>3 DEF LowTo, LowIs, UsiAckLow
<1>17. ASSUME ip = 28
      PROVE  LowIs(UsiAckLow)'
  <2>1. Steps[ip] = "in"
    BY <1>1, <1>17, UsiWriteSteps
  <2>2. ~sclOut /\ UsiAckLow
    BY <1>17 DEF UsiWriteInv, LowIs
  <2>3. LowTo(port, reg, data)
    BY <2>1, <2>2, LowSteps
  <2> QED
    BY <1>0, <2>2, <2>3 DEF LowTo, LowIs, UsiAckLow
<1>18. ASSUME ip = 29
      PROVE  LowIs(UsiAckLow)'
  <2>1. Steps[ip] = "scl0"
    BY <1>1, <1>18, UsiWriteSteps
  <2>2. ~sclOut /\ UsiAckLow
    BY <1>18 DEF UsiWriteInv, LowIs
  <2>3. LowTo(port, reg, data)
    BY <2>1, <2>2, LowSteps
  <2> QED
    BY <1>0, <2>2, <2>3 DEF LowTo, LowIs, UsiAckLow
<1>19. ASSUME ip = 30
      PROVE  Rising(UsiAckLow, UsiAckHigh)'
  <2>1. Steps[ip] = "scl1"
    BY <1>1, <1>19, UsiWriteSteps
  <2>2. ~sclOut /\ UsiAckLow
    BY <1>19 DEF UsiWriteInv, LowIs
  <2>3. LetGo(dev)
    BY <2>1, <2>2, LowSteps
  <2>4. ~ddr
    BY <1>3, <1>19
  <2> QED
    BY <2>2, <2>3, <2>4, UsiAckUp, Zenon
<1>20. ASSUME ip = 31
      PROVE  High(UsiAckHigh)'
  <2>1. Steps[ip] = "await"
    BY <1>1, <1>20, UsiWriteSteps
  <2>2. sclOut /\ IF dev.stretch THEN UsiAckLow ELSE UsiAckHigh
    BY <1>20 DEF UsiWriteInv, Rising
  <2>3. ~dev.stretch /\ HighTo(reg)
    BY <2>1, HighSteps
  <2> QED
    BY <1>0, <2>2, <2>3 DEF HighTo, High, UsiAckHigh
<1>21. ASSUME ip = 32
      PROVE  LowIs(port /\ reg % 2 = AckBit(was) /\ Written(dev, was, Arg))'
  <2>1. Steps[ip] = "scl0"
    BY <1>1, <1>21, UsiWriteSteps
  <2>2. sclOut /\ ~dev.stretch /\ UsiAckHigh
    BY <1>21 DEF UsiWriteInv, High
  <2>3. /\ ~sclOut' /\ port' = port /\ reg' = reg /\ data' = data
        /\ was.attached => dev' \in MayStretch(Drive(dev))
        /\ ~was.attached => dev' = dev
    BY <2>1, <2>2, HighSteps
  <2>4. port /\ reg % 2 = AckBit(was) /\ InWrite(dev, was, Arg, 9, TRUE)
    BY <2>2 DEF UsiAckHigh
  <2>5. Written(dev', was, Arg)
    BY <1>0, <1>4, <2>3, <2>4, WriteDone
  <2> QED
    BY <1>0, <2>2, <2>3, <2>4, <2>5 DEF LowIs
<1>22. ASSUME ip = 33
      PROVE  LowIs(port /\ reg = 255 /\ data % 2 = AckBit(was) /\ Written(dev, was, Arg))'
  <2>1. Steps[ip] = "take"
    BY <1>1, <1>22, UsiWriteSteps
  <2>2. ~sclOut /\ port /\ reg % 2 = AckBit(was) /\ Written(dev, was, Arg)
    BY <1>22 DEF UsiWriteInv, LowIs
  <2>3. LowTo(port, 255, reg)
    BY <2>1, <2>2, LowSteps
  <2> QED
    BY <1>0, <2>2, <2>3 DEF LowTo, LowIs
<1>23. ASSUME ip = 34
      PROVE  LowIs(port /\ reg = 255 /\ data % 2 = AckBit(was) /\ Written(dev, was, Arg))'
  <2>1. Steps[ip] = "out"
    BY <1>1, <1>23, UsiWriteSteps
  <2>2. ~sclOut /\ port /\ reg = 255 /\ data % 2 = AckBit(was) /\ Written(dev, was, Arg)
    BY <1>23 DEF UsiWriteInv, LowIs
  <2>3. LowTo(port, reg, data)
    BY <2>1, <2>2, LowSteps
  <2> QED
    BY <1>0, <2>2, <2>3 DEF LowTo, LowIs
<1>50. ASSUME NEW i \in 0 .. 7
       PROVE  /\ ip' = 3 + 3 * i => LowIs(UsiWriteLow(i))'
              /\ ip' = 4 + 3 * i => Rising(UsiWriteLow(i), UsiWriteHigh(i))'
              /\ ip' = 5 + 3 * i => High(UsiWriteHigh(i))'
  <2>1. ASSUME ip' = 3 + 3 * i
        PROVE  LowIs(UsiWriteLow(i))'
    <3>1. CASE i = 0
      <4>1. ip = 2
        BY <1>0, <1>2, <2>1, <3>1
      <4>2. LowIs(UsiWriteLow(0))'
        BY <1>11, <4>1, Zenon
      <4> QED
        BY <3>1, <4>2, Zenon
    <3>2. CASE i \in 1 .. 7
      <4>1. ip = 2 + 3 * i
        BY <1>0, <1>2, <2>1, <3>2
      <4> QED
        BY <1>12, <3>2, <4>1, Zenon
    <3>3. i = 0 \/ i \in 1 .. 7
      OBVIOUS
    <3> QED
      BY <3>1, <3>2, <3>3, Zenon
  <2>2. ASSUME ip' = 4 + 3 * i
        PROVE  Rising(UsiWriteLow(i), UsiWriteHigh(i))'
    <3>1. ip = 3 + 3 * i
      BY <1>0, <1>2, <2>2
    <3> QED
      BY <1>13, <3>1, Zenon
  <2>3. ASSUME ip' = 5 + 3 * i
        PROVE  High(UsiWriteHigh(i))'
    <3>1. ip = 4 + 3 * i
      BY <1>0, <1>2, <2>3
    <3> QED
      BY <1>14, <3>1, Zenon
  <2> QED
    BY <2>1, <2>2, <2>3
<1>51. ip' # 1
  BY <1>0, <1>2
<1>52. ASSUME ip' = 2
       PROVE  LowIs(UsiWriteLow(0))'
  <2>1. ip = 1
    BY <1>0, <1>2, <1>52
  <2> QED
    BY <1>10, <2>1, Zenon
<1>53. ASSUME ip' = 27
       PROVE  LowIs(port /\ InWrite(dev, was, Arg, 8, FALSE))'
  <2>1. ip = 26
    BY <1>0, <1>2, <1>53
  <2> QED
    BY <1>15, <2>1, Zenon
<1>54. ASSUME ip' \in 28 .. 30
       PROVE  LowIs(UsiAckLow)'
  <2>1. ip = 27 \/ ip = 28 \/ ip = 29
    BY <1>0, <1>2, <1>54
  <2> QED
    BY <1>16, <1>17, <1>18, <2>1, Zenon
<1>55. ASSUME ip' = 31
       PROVE  Rising(UsiAckLow, UsiAckHigh)'
  <2>1. ip = 30
    BY <1>0, <1>2, <1>55
  <2> QED
    BY <1>19, <2>1, Zenon
<1>56. ASSUME ip' = 32
       PROVE  High(UsiAckHigh)'
  <2>1. ip = 31
    BY <1>0, <1>2, <1>56
  <2> QED
    BY <1>20, <2>1, Zenon
<1>57. ASSUME ip' = 33
       PROVE  LowIs(port /\ reg % 2 = AckBit(was) /\ Written(dev, was, Arg))'
  <2>1. ip = 32
    BY <1>0, <1>2, <1>57
  <2> QED
    BY <1>21, <2>1, Zenon
<1>58. ASSUME ip' \in 34 .. 35
       PROVE  LowIs(port /\ reg = 255 /\ data % 2 = AckBit(was) /\ Written(dev, was, Arg))'
  <2>1. ip = 33 \/ ip = 34
    BY <1>0, <1>2, <1>58
  <2> QED
    BY <1>22, <1>23, <2>1, Zenon
<1> QED
  BY <1>50, <1>51, <1>52, <1>53, <1>54, <1>55, <1>56, <1>57, <1>58 DEF UsiWriteInv

LEMMA ReadArg ==
  ASSUME TypeInv, ThisCall.op = "read"
  PROVE  Arg \in {0, 255}
<1>1. job \in Jobs /\ at \in 1 .. Len(Calls[job])
  BY DEF TypeInv
<1> QED
  BY <1>1, TheCalls DEF Arg, ThisCall

LEMMA UsiReadStep ==
  ASSUME TypeInv, DriverInv, lib = "usi", ThisCall.op = "read",
         UsiReadInv, Library, ip <= Len(Steps)
  PROVE  UsiReadInv'
<1>0. /\ ip' = ip + 1 /\ was' = was /\ Arg' = Arg /\ lib' = lib /\ Arg = ThisCall.arg
      /\ Arg \in 0 .. 255 /\ LineTypes /\ DevType(dev) /\ reg \in 0 .. 255
      /\ port \in BOOLEAN /\ was.attached = attached
  BY Stepping
<1>1. Steps = UsiReadByte /\ Len(UsiReadByte) = 34
  BY TheSteps, UsiReadSteps DEF Steps
<1>2. ip \in 1 .. 34
  BY <1>1, CallIs
<1>3. /\ ip \notin 2 .. 28 => ddr
      /\ ip \in 2 .. 28 => ~ddr
  BY DEF DriverInv, InputAt
<1>10. ASSUME ip = 1
      PROVE  LowIs(UsiReadLow(0))'
  <2>1. Steps[ip] = "in"
    BY <1>1, <1>10, UsiReadSteps
  <2>2. ~sclOut /\ port /\ InRead(dev, was, 0, FALSE)
    BY <1>10 DEF UsiReadInv, LowIs
  <2>3. LowTo(port, reg, data)
    BY <2>1, <2>2, LowSteps
  <2>4. Incoming(reg, Offered(was), 0)
    BY <1>0, OfferedType, IncomingEnds
  <2> QED
    BY <1>0, <2>2, <2>3, <2>4 DEF LowTo, LowIs, UsiReadLow
<1>11. ASSUME ip = 2
      PROVE  LowIs(UsiReadLow(0))'
  <2>1. Steps[ip] = "scl0"
    BY <1>1, <1>11, UsiReadSteps
  <2>2. ~sclOut /\ UsiReadLow(0)
    BY <1>11 DEF UsiReadInv, LowIs
  <2>3. LowTo(port, reg, data)
    BY <2>1, <2>2, LowSteps
  <2> QED
    BY <1>0, <2>2, <2>3 DEF LowTo, LowIs, UsiReadLow
<1>12. ASSUME NEW i \in 1 .. 7, ip = 2 + 3 * i
      PROVE  LowIs(UsiReadLow(i))'
  <2>1. Steps[ip] = "scl0"
    <3>1. (i - 1) \in 0 .. 7 /\ ip = 5 + 3 * (i - 1)
      BY <1>12
    <3>2. UsiReadByte[5 + 3 * (i - 1)] = "scl0"
      BY <3>1, UsiReadSteps, Zenon
    <3> QED
      BY <1>1, <3>1, <3>2
  <2>2. sclOut /\ ~dev.stretch /\ UsiReadHigh(i - 1)
    <3>1. (i - 1) \in 0 .. 7 /\ ip = 5 + 3 * (i - 1)
      BY <1>12
    <3> QED
      BY <3>1, Zenon DEF UsiReadInv, High
  <2>3. /\ ~sclOut' /\ port' = port /\ reg' = reg /\ data' = data
        /\ was.attached => dev' \in MayStretch(Drive(dev))
        /\ ~was.attached => dev' = dev
    BY <2>1, <2>2, HighSteps
  <2>4. port /\ Incoming(reg, Offered(was), i) /\ InRead(dev, was, i, TRUE)
    <3>1. (i - 1) + 1 = i
      OBVIOUS
    <3> QED
      BY <2>2, <3>1, Zenon DEF UsiReadHigh
  <2>5. InRead(dev', was, i, FALSE)
    <3>1. i \in 1 .. 8
      OBVIOUS
    <3> QED
      BY <1>0, <2>3, <2>4, <3>1, ReadDown
  <2> QED
    BY <1>0, <2>2, <2>3, <2>4, <2>5 DEF LowIs, UsiReadLow
<1>13. ASSUME NEW i \in 0 .. 7, ip = 3 + 3 * i
      PROVE  Rising(UsiReadLow(i), UsiReadHigh(i))'
  <2>1. Steps[ip] = "scl1"
    <3>1. i \in 0 .. 7 /\ ip = 3 + 3 * i
      BY <1>13
    <3>2. UsiReadByte[3 + 3 * i] = "scl1"
      BY <3>1, UsiReadSteps, Zenon
    <3> QED
      BY <1>1, <3>1, <3>2
  <2>2. ~sclOut /\ UsiReadLow(i)
    <3>1. i \in 0 .. 7 /\ ip = 3 + 3 * i
      BY <1>13
    <3> QED
      BY <3>1, Zenon DEF UsiReadInv, LowIs
  <2>3. LetGo(dev)
    BY <2>1, <2>2, LowSteps
  <2>4. ~ddr
    BY <1>3, <1>13
  <2> QED
    BY <2>2, <2>3, <2>4, UsiReadUp, Zenon
<1>14. ASSUME NEW i \in 0 .. 7, ip = 4 + 3 * i
      PROVE  High(UsiReadHigh(i))'
  <2>1. Steps[ip] = "await"
    <3>1. i \in 0 .. 7 /\ ip = 4 + 3 * i
      BY <1>14
    <3>2. UsiReadByte[4 + 3 * i] = "await"
      BY <3>1, UsiReadSteps, Zenon
    <3> QED
      BY <1>1, <3>1, <3>2
  <2>2. sclOut /\ IF dev.stretch THEN UsiReadLow(i) ELSE UsiReadHigh(i)
    <3>1. i \in 0 .. 7 /\ ip = 4 + 3 * i
      BY <1>14
    <3> QED
      BY <3>1, Zenon DEF UsiReadInv, Rising
  <2>3. ~dev.stretch /\ HighTo(reg)
    BY <2>1, HighSteps
  <2> QED
    BY <1>0, <2>2, <2>3 DEF HighTo, High, UsiReadHigh
<1>15. ASSUME ip = 26
      PROVE  LowIs(port /\ reg = Offered(was) /\ InRead(dev, was, 8, FALSE))'
  <2>1. Steps[ip] = "scl0"
    <3>1. 7 \in 0 .. 7 /\ ip = 5 + 3 * 7
      BY <1>15
    <3>2. UsiReadByte[5 + 3 * 7] = "scl0"
      BY <3>1, UsiReadSteps, Zenon
    <3> QED
      BY <1>1, <3>1, <3>2
  <2>2. sclOut /\ ~dev.stretch /\ UsiReadHigh(7)
    <3>1. 7 \in 0 .. 7 /\ ip = 5 + 3 * 7
      BY <1>15
    <3> QED
      BY <3>1, Zenon DEF UsiReadInv, High
  <2>3. /\ ~sclOut' /\ port' = port /\ reg' = reg /\ data' = data
        /\ was.attached => dev' \in MayStretch(Drive(dev))
        /\ ~was.attached => dev' = dev
    BY <2>1, <2>2, HighSteps
  <2>4. port /\ Incoming(reg, Offered(was), 8) /\ InRead(dev, was, 8, TRUE)
    <3>1. 7 + 1 = 8
      OBVIOUS
    <3> QED
      BY <2>2, <3>1, Zenon DEF UsiReadHigh
  <2>5. InRead(dev', was, 8, FALSE)
    <3>1. 8 \in 1 .. 8
      OBVIOUS
    <3> QED
      BY <1>0, <2>3, <2>4, <3>1, ReadDown
  <2>6. reg = Offered(was)
    BY <1>0, <2>4, OfferedType, IncomingEnds
  <2> QED
    BY <1>0, <2>2, <2>3, <2>4, <2>5, <2>6 DEF LowIs
<1>16. ASSUME ip = 27
      PROVE  LowIs(port /\ data = Offered(was) /\ InRead(dev, was, 8, FALSE))'
  <2>1. Steps[ip] = "take"
    BY <1>1, <1>16, UsiReadSteps
  <2>2. ~sclOut /\ port /\ reg = Offered(was) /\ InRead(dev, was, 8, FALSE)
    BY <1>16 DEF UsiReadInv, LowIs
  <2>3. LowTo(port, 255, reg)
    BY <2>1, <2>2, LowSteps
  <2> QED
    BY <1>0, <2>2, <2>3 DEF LowTo, LowIs
<1>17. ASSUME ip = 28
      PROVE  LowIs(port /\ data = Offered(was) /\ InRead(dev, was, 8, FALSE))'
  <2>1. Steps[ip] = "out"
    BY <1>1, <1>17, UsiReadSteps
  <2>2. ~sclOut /\ port /\ data = Offered(was) /\ InRead(dev, was, 8, FALSE)
    <3>1. ip \in 28 .. 29
      BY <1>17
    <3> QED
      BY <3>1, Zenon DEF UsiReadInv, LowIs
  <2>3. LowTo(port, reg, data)
    BY <2>1, <2>2, LowSteps
  <2> QED
    BY <1>0, <2>2, <2>3 DEF LowTo, LowIs
<1>18. ASSUME ip = 29
      PROVE  LowIs(UsiNackLow)'
  <2>1. Steps[ip] = "load"
    BY <1>1, <1>18, UsiReadSteps
  <2>2. ~sclOut /\ port /\ data = Offered(was) /\ InRead(dev, was, 8, FALSE)
    <3>1. ip \in 28 .. 29
      BY <1>18
    <3> QED
      BY <3>1, Zenon DEF UsiReadInv, LowIs
  <2>3. LowTo(port, ThisCall.arg, data)
    BY <2>1, <2>2, LowSteps
  <2> QED
    BY <1>0, <2>2, <2>3 DEF LowTo, LowIs, UsiNackLow
<1>19. ASSUME ip = 30
      PROVE  LowIs(UsiNackLow)'
  <2>1. Steps[ip] = "scl0"
    BY <1>1, <1>19, UsiReadSteps
  <2>2. ~sclOut /\ UsiNackLow
    BY <1>19 DEF UsiReadInv, LowIs
  <2>3. LowTo(port, reg, data)
    BY <2>1, <2>2, LowSteps
  <2> QED
    BY <1>0, <2>2, <2>3 DEF LowTo, LowIs, UsiNackLow
<1>20. ASSUME ip = 31
      PROVE  Rising(UsiNackLow, UsiNackHigh)'
  <2>1. Steps[ip] = "scl1"
    BY <1>1, <1>20, UsiReadSteps
  <2>2. ~sclOut /\ UsiNackLow
    BY <1>20 DEF UsiReadInv, LowIs
  <2>3. LetGo(dev)
    BY <2>1, <2>2, LowSteps
  <2>4. ddr
    BY <1>3, <1>20
  <2> QED
    BY <2>2, <2>3, <2>4, UsiNackUp, Zenon
<1>21. ASSUME ip = 32
      PROVE  High(UsiNackHigh)'
  <2>1. Steps[ip] = "await"
    BY <1>1, <1>21, UsiReadSteps
  <2>2. sclOut /\ IF dev.stretch THEN UsiNackLow ELSE UsiNackHigh
    BY <1>21 DEF UsiReadInv, Rising
  <2>3. ~dev.stretch /\ HighTo(reg)
    BY <2>1, HighSteps
  <2> QED
    BY <1>0, <2>2, <2>3 DEF HighTo, High, UsiNackHigh
<1>22. ASSUME ip = 33
      PROVE  LowIs(port /\ data = Offered(was) /\ Read(dev, was, Arg))'
  <2>1. Steps[ip] = "scl0"
    BY <1>1, <1>22, UsiReadSteps
  <2>2. sclOut /\ ~dev.stretch /\ UsiNackHigh
    BY <1>22 DEF UsiReadInv, High
  <2>3. /\ ~sclOut' /\ port' = port /\ reg' = reg /\ data' = data
        /\ was.attached => dev' \in MayStretch(Drive(dev))
        /\ ~was.attached => dev' = dev
    BY <2>1, <2>2, HighSteps
  <2>4. port /\ data = Offered(was) /\ Acked(dev, was, Arg)
    BY <2>2 DEF UsiNackHigh
  <2>5. Read(dev', was, Arg)
    BY <1>0, <2>3, <2>4, ReadDone
  <2> QED
    BY <1>0, <2>2, <2>3, <2>4, <2>5 DEF LowIs
<1>23. ASSUME ip = 34
      PROVE  LowIs(port /\ data = Offered(was) /\ reg = 255 /\ Read(dev, was, Arg))'
  <2>1. Steps[ip] = "drop"
    BY <1>1, <1>23, UsiReadSteps
  <2>2. ~sclOut /\ port /\ data = Offered(was) /\ Read(dev, was, Arg)
    BY <1>23 DEF UsiReadInv, LowIs
  <2>3. LowTo(port, 255, data)
    BY <2>1, <2>2, LowSteps
  <2> QED
    BY <1>0, <2>2, <2>3 DEF LowTo, LowIs
<1>50. ASSUME NEW i \in 0 .. 7
       PROVE  /\ ip' = 3 + 3 * i => LowIs(UsiReadLow(i))'
              /\ ip' = 4 + 3 * i => Rising(UsiReadLow(i), UsiReadHigh(i))'
              /\ ip' = 5 + 3 * i => High(UsiReadHigh(i))'
  <2>1. ASSUME ip' = 3 + 3 * i
        PROVE  LowIs(UsiReadLow(i))'
    <3>1. CASE i = 0
      <4>1. ip = 2
        BY <1>0, <1>2, <2>1, <3>1
      <4>2. LowIs(UsiReadLow(0))'
        BY <1>11, <4>1, Zenon
      <4> QED
        BY <3>1, <4>2, Zenon
    <3>2. CASE i \in 1 .. 7
      <4>1. ip = 2 + 3 * i
        BY <1>0, <1>2, <2>1, <3>2
      <4> QED
        BY <1>12, <3>2, <4>1, Zenon
    <3>3. i = 0 \/ i \in 1 .. 7
      OBVIOUS
    <3> QED
      BY <3>1, <3>2, <3>3, Zenon
  <2>2. ASSUME ip' = 4 + 3 * i
        PROVE  Rising(UsiReadLow(i), UsiReadHigh(i))'
    <3>1. ip = 3 + 3 * i
      BY <1>0, <1>2, <2>2
    <3> QED
      BY <1>13, <3>1, Zenon
  <2>3. ASSUME ip' = 5 + 3 * i
        PROVE  High(UsiReadHigh(i))'
    <3>1. ip = 4 + 3 * i
      BY <1>0, <1>2, <2>3
    <3> QED
      BY <1>14, <3>1, Zenon
  <2> QED
    BY <2>1, <2>2, <2>3
<1>51. ip' # 1
  BY <1>0, <1>2
<1>52. ASSUME ip' = 2
       PROVE  LowIs(UsiReadLow(0))'
  <2>1. ip = 1
    BY <1>0, <1>2, <1>52
  <2> QED
    BY <1>10, <2>1, Zenon
<1>53. ASSUME ip' = 27
       PROVE  LowIs(port /\ reg = Offered(was) /\ InRead(dev, was, 8, FALSE))'
  <2>1. ip = 26
    BY <1>0, <1>2, <1>53
  <2> QED
    BY <1>15, <2>1, Zenon
<1>54. ASSUME ip' \in 28 .. 29
       PROVE  LowIs(port /\ data = Offered(was) /\ InRead(dev, was, 8, FALSE))'
  <2>1. ip = 27 \/ ip = 28
    BY <1>0, <1>2, <1>54
  <2> QED
    BY <1>16, <1>17, <2>1, Zenon
<1>55. ASSUME ip' \in 30 .. 31
       PROVE  LowIs(UsiNackLow)'
  <2>1. ip = 29 \/ ip = 30
    BY <1>0, <1>2, <1>55
  <2> QED
    BY <1>18, <1>19, <2>1, Zenon
<1>56. ASSUME ip' = 32
       PROVE  Rising(UsiNackLow, UsiNackHigh)'
  <2>1. ip = 31
    BY <1>0, <1>2, <1>56
  <2> QED
    BY <1>20, <2>1, Zenon
<1>57. ASSUME ip' = 33
       PROVE  High(UsiNackHigh)'
  <2>1. ip = 32
    BY <1>0, <1>2, <1>57
  <2> QED
    BY <1>21, <2>1, Zenon
<1>58. ASSUME ip' = 34
       PROVE  LowIs(port /\ data = Offered(was) /\ Read(dev, was, Arg))'
  <2>1. ip = 33
    BY <1>0, <1>2, <1>58
  <2> QED
    BY <1>22, <2>1, Zenon
<1>59. ASSUME ip' = 35
       PROVE  LowIs(port /\ data = Offered(was) /\ reg = 255 /\ Read(dev, was, Arg))'
  <2>1. ip = 34
    BY <1>0, <1>2, <1>59
  <2> QED
    BY <1>23, <2>1, Zenon
<1> QED
  BY <1>50, <1>51, <1>52, <1>53, <1>54, <1>55, <1>56, <1>57, <1>58, <1>59 DEF UsiReadInv

LEMMA BitWriteStep ==
  ASSUME TypeInv, DriverInv, lib = "bitbang", ThisCall.op = "write", SpokenTo,
         BitWriteInv, Library, ip <= Len(Steps)
  PROVE  BitWriteInv'
<1>0. /\ ip' = ip + 1 /\ was' = was /\ Arg' = Arg /\ lib' = lib /\ Arg = ThisCall.arg
      /\ Arg \in 0 .. 255 /\ LineTypes /\ DevType(dev) /\ reg \in 0 .. 255
      /\ port \in BOOLEAN /\ was.attached = attached
  BY Stepping
<1>1. Steps = BitWriteByte /\ Len(BitWriteByte) = 40
  BY TheSteps, BitWriteSteps DEF Steps
<1>2. ip \in 1 .. 40
  BY <1>1, CallIs
<1>3. ddr
  BY DEF DriverInv
<1>4. /\ was.attached => was.mode \in {"address", "receive"}
      /\ was.attached /\ was.mode = "address" => Arg \in {Own, Own + 1}
  BY DEF SpokenTo
<1>10. ASSUME ip = 1
      PROVE  LowIs(Outgoing(reg, Arg, 0) /\ InWrite(dev, was, Arg, 0, FALSE))'
  <2>1. Steps[ip] = "load"
    BY <1>1, <1>10, BitWriteSteps
  <2>2. ~sclOut /\ InWrite(dev, was, Arg, 0, FALSE)
    BY <1>10 DEF BitWriteInv, LowIs
  <2>3. LowTo(port, ThisCall.arg, data)
    BY <2>1, <2>2, LowSteps
  <2>4. Outgoing(Arg, Arg, 0)
    BY <1>0, OutgoingAll
  <2> QED
    BY <1>0, <2>2, <2>3, <2>4 DEF LowTo, LowIs
<1>11. ASSUME NEW i \in 0 .. 7, ip = 2 + 4 * i
      PROVE  LowIs(BitWriteLow(i))'
  <2>1. Steps[ip] = "msb"
    <3>1. i \in 0 .. 7 /\ ip = 2 + 4 * i
      BY <1>11
    <3>2. BitWriteByte[2 + 4 * i] = "msb"
      BY <3>1, BitWriteSteps, Zenon
    <3> QED
      BY <1>1, <3>1, <3>2
  <2>2. ~sclOut /\ Outgoing(reg, Arg, i) /\ InWrite(dev, was, Arg, i, FALSE)
    <3>1. i \in 0 .. 7 /\ ip = 2 + 4 * i
      BY <1>11
    <3> QED
      BY <3>1, Zenon DEF BitWriteInv, LowIs
  <2>3. LowTo(reg >= 128, (2 * reg) % 256, data)
    BY <2>1, <2>2, LowSteps
  <2>4. (reg < 128 <=> ~OneIn(Arg, i)) /\ Outgoing((2 * reg + 0) % 256, Arg, i + 1)
    <3>1. PICK b \in 0 .. 1 : b = 0
      OBVIOUS
    <3>2. Leaving(reg, Arg, i, b)
      BY <1>0, <2>2 DEF Leaving
    <3>3. Left(reg, Arg, i, b)
      BY <3>2, BitLeaves, Zenon
    <3> QED
      BY <3>1, <3>3 DEF Left
  <2>5. (reg >= 128 <=> OneIn(Arg, i)) /\ Outgoing((2 * reg) % 256, Arg, i + 1)
    <3>1. 2 * reg + 0 = 2 * reg /\ (reg >= 128 <=> ~(reg < 128))
      BY <1>0
    <3> QED
      BY <2>4, <3>1, Zenon
  <2>6. (port' <=> reg >= 128) /\ reg' = (2 * reg) % 256 /\ dev' = dev /\ ~sclOut'
    BY <2>3 DEF LowTo
  <2> QED
    BY <1>0, <2>2, <2>3, <2>5, <2>6 DEF LowTo, LowIs, BitWriteLow
<1>12. ASSUME NEW i \in 0 .. 7, ip = 3 + 4 * i
      PROVE  Rising(BitWriteLow(i), BitWriteHigh(i))'
  <2>1. Steps[ip] = "scl1"
    <3>1. i \in 0 .. 7 /\ ip = 3 + 4 * i
      BY <1>12
    <3>2. BitWriteByte[3 + 4 * i] = "scl1"
      BY <3>1, BitWriteSteps, Zenon
    <3> QED
      BY <1>1, <3>1, <3>2
  <2>2. ~sclOut /\ BitWriteLow(i)
    <3>1. i \in 0 .. 7 /\ ip = 3 + 4 * i
      BY <1>12
    <3> QED
      BY <3>1, Zenon DEF BitWriteInv, LowIs
  <2>3. LetGo(dev)
    BY <2>1, <2>2, LowSteps
  <2> QED
    BY <1>3, <2>2, <2>3, BitWriteUp, Zenon
<1>13. ASSUME NEW i \in 0 .. 7, ip = 4 + 4 * i
      PROVE  High(BitWriteHigh(i))'
  <2>1. Steps[ip] = "await"
    <3>1. i \in 0 .. 7 /\ ip = 4 + 4 * i
      BY <1>13
    <3>2. BitWriteByte[4 + 4 * i] = "await"
      BY <3>1, BitWriteSteps, Zenon
    <3> QED
      BY <1>1, <3>1, <3>2
  <2>2. sclOut /\ IF dev.stretch THEN BitWriteLow(i) ELSE BitWriteHigh(i)
    <3>1. i \in 0 .. 7 /\ ip = 4 + 4 * i
      BY <1>13
    <3> QED
      BY <3>1, Zenon DEF BitWriteInv, Rising
  <2>3. ~dev.stretch /\ HighTo(reg)
    BY <2>1, HighSteps
  <2> QED
    BY <1>0, <2>2, <2>3 DEF HighTo, High, BitWriteHigh
<1>14. ASSUME NEW i \in 1 .. 7, ip = 1 + 4 * i
      PROVE  LowIs(Outgoing(reg, Arg, i) /\ InWrite(dev, was, Arg, i, FALSE))'
  <2>1. Steps[ip] = "scl0"
    <3>1. (i - 1) \in 0 .. 7 /\ ip = 5 + 4 * (i - 1)
      BY <1>14
    <3>2. BitWriteByte[5 + 4 * (i - 1)] = "scl0"
      BY <3>1, BitWriteSteps, Zenon
    <3> QED
      BY <1>1, <3>1, <3>2
  <2>2. sclOut /\ ~dev.stretch /\ BitWriteHigh(i - 1)
    <3>1. (i - 1) \in 0 .. 7 /\ ip = 5 + 4 * (i - 1)
      BY <1>14
    <3> QED
      BY <3>1, Zenon DEF BitWriteInv, High
  <2>3. /\ ~sclOut' /\ port' = port /\ reg' = reg /\ data' = data
        /\ was.attached => dev' \in MayStretch(Drive(dev))
        /\ ~was.attached => dev' = dev
    BY <2>1, <2>2, HighSteps
  <2>4. Outgoing(reg, Arg, i) /\ InWrite(dev, was, Arg, i, TRUE)
    <3>1. (i - 1) + 1 = i
      OBVIOUS
    <3> QED
      BY <2>2, <3>1, Zenon DEF BitWriteHigh
  <2>5. InWrite(dev', was, Arg, i, FALSE)
    <3>1. i \in 1 .. 8
      OBVIOUS
    <3> QED
      BY <1>0, <1>4, <2>3, <2>4, <3>1, WriteDown
  <2> QED
    BY <1>0, <2>2, <2>3, <2>4, <2>5 DEF LowIs
<1>15. ASSUME ip = 33
      PROVE  LowIs(InWrite(dev, was, Arg, 8, FALSE))'
  <2>1. Steps[ip] = "scl0"
    <3>1. 7 \in 0 .. 7 /\ ip = 5 + 4 * 7
      BY <1>15
    <3>2. BitWriteByte[5 + 4 * 7] = "scl0"
      BY <3>1, BitWriteSteps, Zenon
    <3> QED
      BY <1>1, <3>1, <3>2
  <2>2. sclOut /\ ~dev.stretch /\ BitWriteHigh(7)
    <3>1. 7 \in 0 .. 7 /\ ip = 5 + 4 * 7
      BY <1>15
    <3> QED
      BY <3>1, Zenon DEF BitWriteInv, High
  <2>3. /\ ~sclOut' /\ port' = port /\ reg' = reg /\ data' = data
        /\ was.attached => dev' \in MayStretch(Drive(dev))
        /\ ~was.attached => dev' = dev
    BY <2>1, <2>2, HighSteps
  <2>4. InWrite(dev, was, Arg, 8, TRUE)
    <3>1. 7 + 1 = 8
      OBVIOUS
    <3> QED
      BY <2>2, <3>1, Zenon DEF BitWriteHigh
  <2>5. InWrite(dev', was, Arg, 8, FALSE)
    <3>1. 8 \in 1 .. 8
      OBVIOUS
    <3> QED
      BY <1>0, <1>4, <2>3, <2>4, <3>1, WriteDown
  <2> QED
    BY <1>0, <2>2, <2>3, <2>4, <2>5 DEF LowIs
<1>16. ASSUME ip = 34
      PROVE  LowIs(reg = 0 /\ InWrite(dev, was, Arg, 8, FALSE))'
  <2>1. Steps[ip] = "clear"
    BY <1>1, <1>16, BitWriteSteps
  <2>2. ~sclOut /\ InWrite(dev, was, Arg, 8, FALSE)
    BY <1>16 DEF BitWriteInv, LowIs
  <2>3. LowTo(port, 0, data)
    BY <2>1, <2>2, LowSteps
  <2> QED
    BY <1>0, <2>2, <2>3 DEF LowTo, LowIs
<1>17. ASSUME ip = 35
      PROVE  LowIs(BitAckLow)'
  <2>1. Steps[ip] = "sda1"
    BY <1>1, <1>17, BitWriteSteps
  <2>2. ~sclOut /\ reg = 0 /\ InWrite(dev, was, Arg, 8, FALSE)
    BY <1>17 DEF BitWriteInv, LowIs
  <2>3. LowTo(TRUE, reg, data)
    BY <2>1, <2>2, LowSteps
  <2> QED
    BY <1>0, <2>2, <2>3 DEF LowTo, LowIs, BitAckLow
<1>18. ASSUME ip = 36
      PROVE  Rising(BitAckLow, BitAckHigh)'
  <2>1. Steps[ip] = "scl1"
    BY <1>1, <1>18, BitWriteSteps
  <2>2. ~sclOut /\ BitAckLow
    BY <1>18 DEF BitWriteInv, LowIs
  <2>3. LetGo(dev)
    BY <2>1, <2>2, LowSteps
  <2> QED
    BY <2>2, <2>3, BitAckUp, Zenon
<1>19. ASSUME ip = 37
      PROVE  High(BitAckHigh)'
  <2>1. Steps[ip] = "await"
    BY <1>1, <1>19, BitWriteSteps
  <2>2. sclOut /\ IF dev.stretch THEN BitAckLow ELSE BitAckHigh
    BY <1>19 DEF BitWriteInv, Rising
  <2>3. ~dev.stretch /\ HighTo(reg)
    BY <2>1, HighSteps
  <2> QED
    BY <1>0, <2>2, <2>3 DEF HighTo, High, BitAckHigh
<1>20. ASSUME ip = 38
      PROVE  High(reg = AckBit(was) /\ InWrite(dev, was, Arg, 9, TRUE))'
  <2>1. Steps[ip] = "sample"
    BY <1>1, <1>20, BitWriteSteps
  <2>2. sclOut /\ ~dev.stretch /\ BitAckHigh
    BY <1>20 DEF BitWriteInv, High
  <2>3. HighTo((2 * reg + (IF Sda THEN 1 ELSE 0)) % 256)
    BY <2>1, <2>2, HighSteps
  <2>4. port /\ reg = 0 /\ InWrite(dev, was, Arg, 9, TRUE)
    BY <2>2 DEF BitAckHigh
  <2>5. dev.pull <=> was.attached
    <3>1. InWrite(dev, was, Arg, IF TRUE THEN 9 ELSE 8, TRUE)
      BY <2>4
    <3> QED
      BY <1>0, <3>1, AckLine, Zenon
  <2>6. Sda <=> ~was.attached
    BY <1>0, <1>3, <2>4, <2>5 DEF Sda, LineTypes
  <2>7. (2 * reg + (IF Sda THEN 1 ELSE 0)) % 256 = AckBit(was)
    BY <2>4, <2>6 DEF AckBit
  <2> QED
    BY <1>0, <2>2, <2>3, <2>4, <2>7 DEF HighTo, High, AckBit
<1>21. ASSUME ip = 39
      PROVE  LowIs(reg = AckBit(was) /\ Written(dev, was, Arg))'
  <2>1. Steps[ip] = "scl0"
    BY <1>1, <1>21, BitWriteSteps
  <2>2. sclOut /\ ~dev.stretch /\ reg = AckBit(was) /\ InWrite(dev, was, Arg, 9, TRUE)
    BY <1>21 DEF BitWriteInv, High
  <2>3. /\ ~sclOut' /\ port' = port /\ reg' = reg /\ data' = data
        /\ was.attached => dev' \in MayStretch(Drive(dev))
        /\ ~was.attached => dev' = dev
    BY <2>1, <2>2, HighSteps
  <2>5. Written(dev', was, Arg)
    BY <1>0, <1>4, <2>2, <2>3, WriteDone
  <2> QED
    BY <1>0, <2>2, <2>3, <2>5 DEF LowIs
<1>22. ASSUME ip = 40
      PROVE  LowIs(data % 2 = AckBit(was) /\ Written(dev, was, Arg))'
  <2>1. Steps[ip] = "take"
    BY <1>1, <1>22, BitWriteSteps
  <2>2. ~sclOut /\ reg = AckBit(was) /\ Written(dev, was, Arg)
    BY <1>22 DEF BitWriteInv, LowIs
  <2>3. LowTo(port, 255, reg)
    BY <2>1, <2>2, LowSteps
  <2>4. reg % 2 = AckBit(was)
    BY <2>2 DEF AckBit
  <2> QED
    BY <1>0, <2>2, <2>3, <2>4 DEF LowTo, LowIs
<1>50. ASSUME NEW i \in 0 .. 7
       PROVE  /\ ip' = 2 + 4 * i =>
                 LowIs(Outgoing(reg, Arg, i) /\ InWrite(dev, was, Arg, i, FALSE))'
              /\ ip' = 3 + 4 * i => LowIs(BitWriteLow(i))'
              /\ ip' = 4 + 4 * i => Rising(BitWriteLow(i), BitWriteHigh(i))'
              /\ ip' = 5 + 4 * i => High(BitWriteHigh(i))'
  <2>1. ASSUME ip' = 2 + 4 * i
        PROVE  LowIs(Outgoing(reg, Arg, i) /\ InWrite(dev, was, Arg, i, FALSE))'
    <3>1. CASE i = 0
      <4>1. ip = 1
        BY <1>0, <1>2, <2>1, <3>1
      <4>2. LowIs(Outgoing(reg, Arg, 0) /\ InWrite(dev, was, Arg, 0, FALSE))'
        BY <1>10, <4>1, Zenon
      <4> QED
        BY <3>1, <4>2, Zenon
    <3>2. CASE i \in 1 .. 7
      <4>1. ip = 1 + 4 * i
        BY <1>0, <1>2, <2>1, <3>2
      <4> QED
        BY <1>14, <3>2, <4>1, Zenon
    <3>3. i = 0 \/ i \in 1 .. 7
      OBVIOUS
    <3> QED
      BY <3>1, <3>2, <3>3, Zenon
  <2>2. ASSUME ip' = 3 + 4 * i
        PROVE  LowIs(BitWriteLow(i))'
    <3>1. ip = 2 + 4 * i
      BY <1>0, <1>2, <2>2
    <3> QED
      BY <1>11, <3>1, Zenon
  <2>3. ASSUME ip' = 4 + 4 * i
        PROVE  Rising(BitWriteLow(i), BitWriteHigh(i))'
    <3>1. ip = 3 + 4 * i
      BY <1>0, <1>2, <2>3
    <3> QED
      BY <1>12, <3>1, Zenon
  <2>4. ASSUME ip' = 5 + 4 * i
        PROVE  High(BitWriteHigh(i))'
    <3>1. ip = 4 + 4 * i
      BY <1>0, <1>2, <2>4
    <3> QED
      BY <1>13, <3>1, Zenon
  <2> QED
    BY <2>1, <2>2, <2>3, <2>4
<1>51. ip' # 1
  BY <1>0, <1>2
<1>52. ASSUME ip' = 34
       PROVE  LowIs(InWrite(dev, was, Arg, 8, FALSE))'
  <2>1. ip = 33
    BY <1>0, <1>2, <1>52
  <2> QED
    BY <1>15, <2>1, Zenon
<1>53. ASSUME ip' = 35
       PROVE  LowIs(reg = 0 /\ InWrite(dev, was, Arg, 8, FALSE))'
  <2>1. ip = 34
    BY <1>0, <1>2, <1>53
  <2> QED
    BY <1>16, <2>1, Zenon
<1>54. ASSUME ip' = 36
       PROVE  LowIs(BitAckLow)'
  <2>1. ip = 35
    BY <1>0, <1>2, <1>54
  <2> QED
    BY <1>17, <2>1, Zenon
<1>55. ASSUME ip' = 37
       PROVE  Rising(BitAckLow, BitAckHigh)'
  <2>1. ip = 36
    BY <1>0, <1>2, <1>55
  <2> QED
    BY <1>18, <2>1, Zenon
<1>56. ASSUME ip' = 38
       PROVE  High(BitAckHigh)'
  <2>1. ip = 37
    BY <1>0, <1>2, <1>56
  <2> QED
    BY <1>19, <2>1, Zenon
<1>57. ASSUME ip' = 39
       PROVE  High(reg = AckBit(was) /\ InWrite(dev, was, Arg, 9, TRUE))'
  <2>1. ip = 38
    BY <1>0, <1>2, <1>57
  <2> QED
    BY <1>20, <2>1, Zenon
<1>58. ASSUME ip' = 40
       PROVE  LowIs(reg = AckBit(was) /\ Written(dev, was, Arg))'
  <2>1. ip = 39
    BY <1>0, <1>2, <1>58
  <2> QED
    BY <1>21, <2>1, Zenon
<1>59. ASSUME ip' = 41
       PROVE  LowIs(data % 2 = AckBit(was) /\ Written(dev, was, Arg))'
  <2>1. ip = 40
    BY <1>0, <1>2, <1>59
  <2> QED
    BY <1>22, <2>1, Zenon
<1> QED
  BY <1>50, <1>51, <1>52, <1>53, <1>54, <1>55, <1>56, <1>57, <1>58, <1>59 DEF BitWriteInv

LEMMA BitReadStep ==
  ASSUME TypeInv, DriverInv, lib = "bitbang", ThisCall.op = "read",
         BitReadInv, Library, ip <= Len(Steps)
  PROVE  BitReadInv'
<1>0. /\ ip' = ip + 1 /\ was' = was /\ Arg' = Arg /\ lib' = lib /\ Arg = ThisCall.arg
      /\ Arg \in 0 .. 255 /\ LineTypes /\ DevType(dev) /\ reg \in 0 .. 255
      /\ port \in BOOLEAN /\ was.attached = attached
  BY Stepping
<1>1. Steps = BitReadByte /\ Len(BitReadByte) = 46
  BY TheSteps, BitReadSteps DEF Steps
<1>2. ip \in 1 .. 46
  BY <1>1, CallIs
<1>3. ddr
  BY DEF DriverInv
<1>4. Arg \in {0, 255}
  BY ReadArg
<1>10. ASSUME ip = 1
      PROVE  LowIs(Incoming(reg, Offered(was), 0) /\ InRead(dev, was, 0, FALSE))'
  <2>1. Steps[ip] = "clear"
    BY <1>1, <1>10, BitReadSteps
  <2>2. ~sclOut /\ InRead(dev, was, 0, FALSE)
    BY <1>10 DEF BitReadInv, LowIs
  <2>3. LowTo(port, 0, data)
    BY <2>1, <2>2, LowSteps
  <2>4. Incoming(0, Offered(was), 0)
    <3>1. 0 \in 0 .. 255
      OBVIOUS
    <3> QED
      BY <3>1, OfferedType, IncomingEnds
  <2> QED
    BY <1>0, <2>2, <2>3, <2>4 DEF LowTo, LowIs
<1>11. ASSUME NEW i \in 0 .. 7, ip = 2 + 5 * i
      PROVE  LowIs(BitReadLow(i))'
  <2>1. Steps[ip] = "sda1"
    <3>1. i \in 0 .. 7 /\ ip = 2 + 5 * i
      BY <1>11
    <3>2. BitReadByte[2 + 5 * i] = "sda1"
      BY <3>1, BitReadSteps, Zenon
    <3> QED
      BY <1>1, <3>1, <3>2
  <2>2. ~sclOut /\ Incoming(reg, Offered(was), i) /\ InRead(dev, was, i, FALSE)
    <3>1. i \in 0 .. 7 /\ ip = 2 + 5 * i
      BY <1>11
    <3> QED
      BY <3>1, Zenon DEF BitReadInv, LowIs
  <2>3. LowTo(TRUE, reg, data)
    BY <2>1, <2>2, LowSteps
  <2> QED
    BY <1>0, <2>2, <2>3 DEF LowTo, LowIs, BitReadLow
<1>12. ASSUME NEW i \in 0 .. 7, ip = 3 + 5 * i
      PROVE  Rising(BitReadLow(i), BitReadHigh(i))'
  <2>1. Steps[ip] = "scl1"
    <3>1. i \in 0 .. 7 /\ ip = 3 + 5 * i
      BY <1>12
    <3>2. BitReadByte[3 + 5 * i] = "scl1"
      BY <3>1, BitReadSteps, Zenon
    <3> QED
      BY <1>1, <3>1, <3>2
  <2>2. ~sclOut /\ BitReadLow(i)
    <3>1. i \in 0 .. 7 /\ ip = 3 + 5 * i
      BY <1>12
    <3> QED
      BY <3>1, Zenon DEF BitReadInv, LowIs
  <2>3. LetGo(dev)
    BY <2>1, <2>2, LowSteps
  <2> QED
    BY <2>2, <2>3, BitReadUp, Zenon
<1>13. ASSUME NEW i \in 0 .. 7, ip = 4 + 5 * i
      PROVE  High(BitReadHigh(i))'
  <2>1. Steps[ip] = "await"
    <3>1. i \in 0 .. 7 /\ ip = 4 + 5 * i
      BY <1>13
    <3>2. BitReadByte[4 + 5 * i] = "await"
      BY <3>1, BitReadSteps, Zenon
    <3> QED
      BY <1>1, <3>1, <3>2
  <2>2. sclOut /\ IF dev.stretch THEN BitReadLow(i) ELSE BitReadHigh(i)
    <3>1. i \in 0 .. 7 /\ ip = 4 + 5 * i
      BY <1>13
    <3> QED
      BY <3>1, Zenon DEF BitReadInv, Rising
  <2>3. ~dev.stretch /\ HighTo(reg)
    BY <2>1, HighSteps
  <2> QED
    BY <1>0, <2>2, <2>3 DEF HighTo, High, BitReadHigh
<1>14. ASSUME NEW i \in 0 .. 7, ip = 5 + 5 * i
      PROVE  High(BitReadTaken(i))'
  <2>1. Steps[ip] = "sample"
    <3>1. i \in 0 .. 7 /\ ip = 5 + 5 * i
      BY <1>14
    <3>2. BitReadByte[5 + 5 * i] = "sample"
      BY <3>1, BitReadSteps, Zenon
    <3> QED
      BY <1>1, <3>1, <3>2
  <2>2. sclOut /\ ~dev.stretch /\ BitReadHigh(i)
    <3>1. i \in 0 .. 7 /\ ip = 5 + 5 * i
      BY <1>14
    <3> QED
      BY <3>1, Zenon DEF BitReadInv, High
  <2>3. HighTo((2 * reg + (IF Sda THEN 1 ELSE 0)) % 256)
    BY <2>1, <2>2, HighSteps
  <2>4. port /\ Incoming(reg, Offered(was), i) /\ InRead(dev, was, i + 1, TRUE)
    BY <2>2 DEF BitReadHigh
  <2>5. dev.pull <=> ~OneIn(Offered(was), i)
    BY <1>0, <2>4, ReadLine
  <2>6. Sda <=> OneIn(Offered(was), i)
    BY <1>0, <1>3, <2>4, <2>5 DEF Sda, LineTypes
  <2> DEFINE b == IF Sda THEN 1 ELSE 0
  <2>7. b \in 0 .. 1 /\ (b = 1 <=> OneIn(Offered(was), i))
    BY <2>6
  <2>8. reg' = (2 * reg + b) % 256
    BY <2>3 DEF HighTo
  <2>9. Offered(was) \in 0 .. 255
    BY OfferedType
  <2> HIDE DEF b
  <2>10. Incoming(reg', Offered(was), i + 1)
    BY <1>0, <2>4, <2>7, <2>8, <2>9, IncomingBit
  <2> QED
    BY <1>0, <2>2, <2>3, <2>4, <2>10 DEF HighTo, High, BitReadTaken
<1>15. ASSUME NEW i \in 1 .. 7, ip = 1 + 5 * i
      PROVE  LowIs(Incoming(reg, Offered(was), i) /\ InRead(dev, was, i, FALSE))'
  <2>1. Steps[ip] = "scl0"
    <3>1. (i - 1) \in 0 .. 7 /\ ip = 6 + 5 * (i - 1)
      BY <1>15
    <3>2. BitReadByte[6 + 5 * (i - 1)] = "scl0"
      BY <3>1, BitReadSteps, Zenon
    <3> QED
      BY <1>1, <3>1, <3>2
  <2>2. sclOut /\ ~dev.stretch /\ BitReadTaken(i - 1)
    <3>1. (i - 1) \in 0 .. 7 /\ ip = 6 + 5 * (i - 1)
      BY <1>15
    <3> QED
      BY <3>1, Zenon DEF BitReadInv, High
  <2>3. /\ ~sclOut' /\ port' = port /\ reg' = reg /\ data' = data
        /\ was.attached => dev' \in MayStretch(Drive(dev))
        /\ ~was.attached => dev' = dev
    BY <2>1, <2>2, HighSteps
  <2>4. Incoming(reg, Offered(was), i) /\ InRead(dev, was, i, TRUE)
    <3>1. (i - 1) + 1 = i
      OBVIOUS
    <3> QED
      BY <2>2, <3>1, Zenon DEF BitReadTaken
  <2>5. InRead(dev', was, i, FALSE)
    <3>1. i \in 1 .. 8
      OBVIOUS
    <3> QED
      BY <1>0, <2>3, <2>4, <3>1, ReadDown
  <2> QED
    BY <1>0, <2>2, <2>3, <2>4, <2>5 DEF LowIs
<1>16. ASSUME ip = 41
      PROVE  LowIs(reg = Offered(was) /\ InRead(dev, was, 8, FALSE))'
  <2>1. Steps[ip] = "scl0"
    <3>1. 7 \in 0 .. 7 /\ ip = 6 + 5 * 7
      BY <1>16
    <3>2. BitReadByte[6 + 5 * 7] = "scl0"
      BY <3>1, BitReadSteps, Zenon
    <3> QED
      BY <1>1, <3>1, <3>2
  <2>2. sclOut /\ ~dev.stretch /\ BitReadTaken(7)
    <3>1. 7 \in 0 .. 7 /\ ip = 6 + 5 * 7
      BY <1>16
    <3> QED
      BY <3>1, Zenon DEF BitReadInv, High
  <2>3. /\ ~sclOut' /\ port' = port /\ reg' = reg /\ data' = data
        /\ was.attached => dev' \in MayStretch(Drive(dev))
        /\ ~was.attached => dev' = dev
    BY <2>1, <2>2, HighSteps
  <2>4. Incoming(reg, Offered(was), 8) /\ InRead(dev, was, 8, TRUE)
    <3>1. 7 + 1 = 8
      OBVIOUS
    <3> QED
      BY <2>2, <3>1, Zenon DEF BitReadTaken
  <2>5. InRead(dev', was, 8, FALSE)
    <3>1. 8 \in 1 .. 8
      OBVIOUS
    <3> QED
      BY <1>0, <2>3, <2>4, <3>1, ReadDown
  <2>6. reg = Offered(was)
    BY <1>0, <2>4, OfferedType, IncomingEnds
  <2> QED
    BY <1>0, <2>2, <2>3, <2>4, <2>5, <2>6 DEF LowIs
<1>17. ASSUME ip = 42
      PROVE  LowIs(data = Offered(was) /\ InRead(dev, was, 8, FALSE))'
  <2>1. Steps[ip] = "take"
    BY <1>1, <1>17, BitReadSteps
  <2>2. ~sclOut /\ reg = Offered(was) /\ InRead(dev, was, 8, FALSE)
    BY <1>17 DEF BitReadInv, LowIs
  <2>3. LowTo(port, 255, reg)
    BY <2>1, <2>2, LowSteps
  <2> QED
    BY <1>0, <2>2, <2>3 DEF LowTo, LowIs
<1>18. ASSUME ip = 43
      PROVE  LowIs(BitNackLow)'
  <2>1. Steps[ip] = "nack"
    BY <1>1, <1>18, BitReadSteps
  <2>2. ~sclOut /\ data = Offered(was) /\ InRead(dev, was, 8, FALSE)
    BY <1>18 DEF BitReadInv, LowIs
  <2>3. LowTo(ThisCall.arg # 0, reg, data)
    BY <2>1, <2>2, LowSteps
  <2>4. Arg # 0 <=> Arg >= 128
    BY <1>0, <1>4
  <2>6. (port' <=> Arg # 0) /\ data' = data /\ dev' = dev /\ ~sclOut'
    BY <1>0, <2>3 DEF LowTo
  <2> QED
    BY <1>0, <2>2, <2>3, <2>4, <2>6 DEF LowTo, LowIs, BitNackLow
<1>19. ASSUME ip = 44
      PROVE  Rising(BitNackLow, BitNackHigh)'
  <2>1. Steps[ip] = "scl1"
    BY <1>1, <1>19, BitReadSteps
  <2>2. ~sclOut /\ BitNackLow
    BY <1>19 DEF BitReadInv, LowIs
  <2>3. LetGo(dev)
    BY <2>1, <2>2, LowSteps
  <2> QED
    BY <1>3, <2>2, <2>3, BitNackUp, Zenon
<1>20. ASSUME ip = 45
      PROVE  High(BitNackHigh)'
  <2>1. Steps[ip] = "await"
    BY <1>1, <1>20, BitReadSteps
  <2>2. sclOut /\ IF dev.stretch THEN BitNackLow ELSE BitNackHigh
    BY <1>20 DEF BitReadInv, Rising
  <2>3. ~dev.stretch /\ HighTo(reg)
    BY <2>1, HighSteps
  <2> QED
    BY <1>0, <2>2, <2>3 DEF HighTo, High, BitNackHigh
<1>21. ASSUME ip = 46
      PROVE  LowIs(data = Offered(was) /\ Read(dev, was, Arg))'
  <2>1. Steps[ip] = "scl0"
    BY <1>1, <1>21, BitReadSteps
  <2>2. sclOut /\ ~dev.stretch /\ BitNackHigh
    BY <1>21 DEF BitReadInv, High
  <2>3. /\ ~sclOut' /\ port' = port /\ reg' = reg /\ data' = data
        /\ was.attached => dev' \in MayStretch(Drive(dev))
        /\ ~was.attached => dev' = dev
    BY <2>1, <2>2, HighSteps
  <2>4. data = Offered(was) /\ Acked(dev, was, Arg)
    BY <2>2 DEF BitNackHigh
  <2>5. Read(dev', was, Arg)
    BY <1>0, <2>3, <2>4, ReadDone
  <2> QED
    BY <1>0, <2>2, <2>3, <2>4, <2>5 DEF LowIs
<1>50. ASSUME NEW i \in 0 .. 7
       PROVE  /\ ip' = 2 + 5 * i =>
                 LowIs(Incoming(reg, Offered(was), i) /\ InRead(dev, was, i, FALSE))'
              /\ ip' = 3 + 5 * i => LowIs(BitReadLow(i))'
              /\ ip' = 4 + 5 * i => Rising(BitReadLow(i), BitReadHigh(i))'
              /\ ip' = 5 + 5 * i => High(BitReadHigh(i))'
              /\ ip' = 6 + 5 * i => High(BitReadTaken(i))'
  <2>1. ASSUME ip' = 2 + 5 * i
        PROVE  LowIs(Incoming(reg, Offered(was), i) /\ InRead(dev, was, i, FALSE))'
    <3>1. CASE i = 0
      <4>1. ip = 1
        BY <1>0, <1>2, <2>1, <3>1
      <4>2. LowIs(Incoming(reg, Offered(was), 0) /\ InRead(dev, was, 0, FALSE))'
        BY <1>10, <4>1, Zenon
      <4> QED
        BY <3>1, <4>2, Zenon
    <3>2. CASE i \in 1 .. 7
      <4>1. ip = 1 + 5 * i
        BY <1>0, <1>2, <2>1, <3>2
      <4> QED
        BY <1>15, <3>2, <4>1, Zenon
    <3>3. i = 0 \/ i \in 1 .. 7
      OBVIOUS
    <3> QED
      BY <3>1, <3>2, <3>3, Zenon
  <2>2. ASSUME ip' = 3 + 5 * i
        PROVE  LowIs(BitReadLow(i))'
    <3>1. ip = 2 + 5 * i
      BY <1>0, <1>2, <2>2
    <3> QED
      BY <1>11, <3>1, Zenon
  <2>3. ASSUME ip' = 4 + 5 * i
        PROVE  Rising(BitReadLow(i), BitReadHigh(i))'
    <3>1. ip = 3 + 5 * i
      BY <1>0, <1>2, <2>3
    <3> QED
      BY <1>12, <3>1, Zenon
  <2>4. ASSUME ip' = 5 + 5 * i
        PROVE  High(BitReadHigh(i))'
    <3>1. ip = 4 + 5 * i
      BY <1>0, <1>2, <2>4
    <3> QED
      BY <1>13, <3>1, Zenon
  <2>5. ASSUME ip' = 6 + 5 * i
        PROVE  High(BitReadTaken(i))'
    <3>1. ip = 5 + 5 * i
      BY <1>0, <1>2, <2>5
    <3> QED
      BY <1>14, <3>1, Zenon
  <2> QED
    BY <2>1, <2>2, <2>3, <2>4, <2>5
<1>51. ip' # 1
  BY <1>0, <1>2
<1>52. ASSUME ip' = 42
       PROVE  LowIs(reg = Offered(was) /\ InRead(dev, was, 8, FALSE))'
  <2>1. ip = 41
    BY <1>0, <1>2, <1>52
  <2> QED
    BY <1>16, <2>1, Zenon
<1>53. ASSUME ip' = 43
       PROVE  LowIs(data = Offered(was) /\ InRead(dev, was, 8, FALSE))'
  <2>1. ip = 42
    BY <1>0, <1>2, <1>53
  <2> QED
    BY <1>17, <2>1, Zenon
<1>54. ASSUME ip' = 44
       PROVE  LowIs(BitNackLow)'
  <2>1. ip = 43
    BY <1>0, <1>2, <1>54
  <2> QED
    BY <1>18, <2>1, Zenon
<1>55. ASSUME ip' = 45
       PROVE  Rising(BitNackLow, BitNackHigh)'
  <2>1. ip = 44
    BY <1>0, <1>2, <1>55
  <2> QED
    BY <1>19, <2>1, Zenon
<1>56. ASSUME ip' = 46
       PROVE  High(BitNackHigh)'
  <2>1. ip = 45
    BY <1>0, <1>2, <1>56
  <2> QED
    BY <1>20, <2>1, Zenon
<1>57. ASSUME ip' = 47
       PROVE  LowIs(data = Offered(was) /\ Read(dev, was, Arg))'
  <2>1. ip = 46
    BY <1>0, <1>2, <1>57
  <2> QED
    BY <1>21, <2>1, Zenon
<1> QED
  BY <1>50, <1>51, <1>52, <1>53, <1>54, <1>55, <1>56, <1>57 DEF BitReadInv

-----------------------------------------------------------------------------
(* Start and stop: the edges of SDA while SCL is high *)

\* The controller hears a start when SDA falls and a stop when it rises.
LEMMA PortStep ==
  ASSUME Settled, sclOut, ~dev.stretch, ddr, latch, ~dev.pull, NEW scl, scl = TRUE,
         NEW p, p \in BOOLEAN, Lines(scl, p, ddr, reg, dev)
  PROVE  /\ sclOut' /\ port' = p /\ latch' /\ reg' = reg
         /\ (port <=> p) => dev' = dev
         /\ ~attached => dev' = dev
         /\ attached /\ port /\ ~p =>
              dev' = [dev EXCEPT !.mode = "address", !.n = 0, !.in = 0, !.pull = FALSE]
         /\ attached /\ ~port /\ p =>
              dev' = [dev EXCEPT !.mode = "idle", !.n = 0, !.in = 0, !.pull = FALSE]
<1>1. scl \in BOOLEAN /\ scl /\ Scl /\ lib \in {"usi", "bitbang"} /\ (lib = "bitbang" => latch)
  BY DEF Settled, LineTypes, Scl
<1>2. sclOut' = scl /\ port' = p
  BY LinesSet, Zenon
<1>3. (Sda <=> port) /\ (SdaFor(ddr, p, latch, dev) <=> p)
  BY DEF Sda, SdaFor
<1>4. /\ reg' = reg
      /\ latch' <=> latch
      /\ ~attached => dev' = dev
      /\ attached /\ Sda /\ ~SdaFor(ddr, p, latch, dev) =>
           dev' = [dev EXCEPT !.mode = "address", !.n = 0, !.in = 0, !.pull = FALSE]
      /\ attached /\ ~Sda /\ SdaFor(ddr, p, latch, dev) =>
           dev' = [dev EXCEPT !.mode = "idle", !.n = 0, !.in = 0, !.pull = FALSE]
      /\ (Sda <=> SdaFor(ddr, p, latch, dev)) => dev' = dev
  BY <1>1, LinesHigh
<1> QED
  BY <1>1, <1>2, <1>3, <1>4, Zenon

\* A controller at rest may hold SCL when it falls; nothing else changes.
LEMMA RestDown ==
  ASSUME NEW d, DevType(d), d.n = 0, NEW e, e \in MayStretch(Drive(d))
  PROVE  /\ e.mode = d.mode /\ e.n = d.n /\ e.in = d.in /\ e.got = d.got /\ e.out = d.out
         /\ e.pull = d.pull
<1>1. Drive(d) = {d}
  BY DEF Drive
<1>2. e = d \/ e = [d EXCEPT !.stretch = TRUE]
  BY <1>1, Stretches
<1>3. d \in Devices
  BY DeviceFields
<1> QED
  BY <1>2, <1>3, StretchKeeps

LEMMA StartStep ==
  ASSUME TypeInv, DriverInv, ThisCall.op = "start", StartInv, Library, ip <= Len(Steps)
  PROVE  StartInv'
<1>0. /\ ip' = ip + 1 /\ was' = was /\ lib' = lib /\ attached' = attached
      /\ Settled /\ LineTypes /\ DevType(dev) /\ reg \in 0 .. 255
      /\ port \in BOOLEAN /\ was.attached = attached
  BY Stepping
<1>a. ip \in Nat /\ Len(Steps) \in Nat /\ ip \in 1 .. Len(Steps) + 1
  BY CallIs
<1>b. lib \in {"usi", "bitbang"} /\ (lib = "bitbang" => latch)
  BY <1>0 DEF LineTypes, TypeInv
<1>1. Steps = UsiStart \/ Steps = BitStart
  BY <1>b, TheSteps DEF Steps
<1>2. /\ Len(Steps) \in 4 .. 5 /\ Steps[1] = "sda1" /\ Steps[2] = "scl1" /\ Steps[3] = "sda0"
      /\ Steps[4] = "scl0" /\ (ip = 5 => Steps[5] = "sda1")
  BY <1>1, ShortSteps
<1>3. ip \in 1 .. 5
  <2>1. PICK n : n = Len(Steps)
    OBVIOUS
  <2> QED
    BY <1>a, <1>2, <2>1
<1>4. ddr
  BY DEF DriverInv, InputAt
<1>5. ASSUME ip \in 1 .. 3
      PROVE  sclOut /\ ~dev.stretch /\ port /\ latch /\ Deaf(dev, was) /\ ~dev.pull
  BY <1>5 DEF StartInv, High, Deaf
<1>6. ASSUME ip \in 1 .. 2
      PROVE  High(port /\ latch /\ Deaf(dev, was))'
  <2>1. sclOut /\ ~dev.stretch /\ port /\ latch /\ Deaf(dev, was) /\ ~dev.pull
    BY <1>5, <1>6
  <2>2. sclOut = TRUE
    BY <1>0, <2>1 DEF LineTypes
  <2>3. PICK scl, p : scl = TRUE /\ p = TRUE /\ Lines(scl, p, ddr, reg, dev)
    <3>1. CASE ip = 1
      <4>1. Lines(sclOut, TRUE, ddr, reg, dev)
        BY <1>2, <1>a, <3>1, StepEffect, Zenon
      <4> QED
        BY <2>2, <4>1
    <3>2. CASE ip = 2
      <4>1. Lines(TRUE, port, ddr, reg, dev)
        BY <1>2, <1>a, <3>2, StepEffect, Zenon
      <4>2. port = TRUE
        BY <1>0, <2>1
      <4> QED
        BY <4>1, <4>2
    <3>3. ip = 1 \/ ip = 2
      BY <1>6
    <3> QED
      BY <3>1, <3>2, <3>3, Zenon
  <2>4. p \in BOOLEAN /\ p
    BY <2>3
  <2>5. sclOut' /\ port' = p /\ latch' /\ dev' = dev
    BY <1>0, <1>4, <2>1, <2>3, <2>4, PortStep
  <2> QED
    BY <1>0, <2>1, <2>4, <2>5 DEF High
<1>7. ASSUME ip = 3
      PROVE  High(Started(dev, was))'
  <2>1. sclOut /\ ~dev.stretch /\ port /\ latch /\ Deaf(dev, was) /\ ~dev.pull
    BY <1>5, <1>7
  <2>2. sclOut = TRUE
    BY <1>0, <2>1 DEF LineTypes
  <2>3. PICK scl, p : scl = TRUE /\ p = FALSE /\ Lines(scl, p, ddr, reg, dev)
    <3>1. Lines(sclOut, FALSE, ddr, reg, dev)
      BY <1>2, <1>a, <1>7, StepEffect, Zenon
    <3> QED
      BY <2>2, <3>1
  <2>4. p \in BOOLEAN /\ ~p
    BY <2>3
  <2>5. /\ sclOut' /\ (~attached => dev' = dev)
        /\ attached => dev' = [dev EXCEPT !.mode = "address", !.n = 0, !.in = 0, !.pull = FALSE]
    BY <1>0, <1>4, <2>1, <2>3, <2>4, PortStep
  <2>6. dev \in Devices
    BY <1>0, DeviceFields
  <2>7. Started(dev', was)
    BY <1>0, <2>1, <2>5, <2>6 DEF Started, ToReceive, Kept, Deaf, Devices
  <2>8. ~dev'.stretch
    BY <2>1, <2>5, <2>6 DEF Devices
  <2> QED
    BY <1>0, <2>5, <2>7, <2>8 DEF High
<1>8. ASSUME ip = 4
      PROVE  LowIs(Started(dev, was))'
  <2>1. sclOut /\ ~dev.stretch /\ Started(dev, was)
    BY <1>8 DEF StartInv, High
  <2>2. /\ ~sclOut'
        /\ was.attached => dev' \in MayStretch(Drive(dev))
        /\ ~was.attached => dev' = dev
    BY <1>2, <1>8, <2>1, HighSteps
  <2>3. CASE was.attached
    <3>1. ToReceive(dev, "address") /\ Kept(dev, was)
      BY <2>1, <2>3 DEF Started
    <3>2. /\ dev'.mode = dev.mode /\ dev'.n = dev.n /\ dev'.in = dev.in /\ dev'.got = dev.got
          /\ dev'.out = dev.out /\ dev'.pull = dev.pull
      BY <1>0, <2>2, <2>3, <3>1, RestDown DEF ToReceive
    <3> QED
      BY <1>0, <2>2, <2>3, <3>1, <3>2 DEF LowIs, Started, ToReceive, Kept
  <2>4. CASE ~was.attached
    BY <1>0, <2>1, <2>2, <2>4 DEF LowIs, Started
  <2> QED
    BY <2>3, <2>4
<1>9. ASSUME ip = 5
      PROVE  LowIs(port /\ Started(dev, was))'
  <2>1. ~sclOut /\ Started(dev, was)
    BY <1>9 DEF StartInv, LowIs
  <2>2. LowTo(TRUE, reg, data)
    BY <1>2, <1>9, <2>1, LowSteps
  <2> QED
    BY <1>0, <2>1, <2>2 DEF LowIs, LowTo
<1>10. /\ ip' <= 3 => ip \in 1 .. 2
       /\ ip' = 4 => ip = 3
       /\ ip' = 5 => ip = 4
       /\ ip' = 6 => ip = 5
  BY <1>0, <1>3
<1> QED
  BY <1>6, <1>7, <1>8, <1>9, <1>10, Zenon DEF StartInv

LEMMA StopStep ==
  ASSUME TypeInv, DriverInv, ThisCall.op = "stop", StopInv, Library, ip <= Len(Steps)
  PROVE  StopInv'
<1>0. /\ ip' = ip + 1 /\ was' = was /\ lib' = lib /\ attached' = attached
      /\ Settled /\ LineTypes /\ DevType(dev) /\ reg \in 0 .. 255
      /\ port \in BOOLEAN /\ was.attached = attached
  BY Stepping
<1>a. ip \in Nat /\ Len(Steps) \in Nat /\ ip \in 1 .. Len(Steps) + 1
  BY CallIs
<1>b. lib \in {"usi", "bitbang"} /\ (lib = "bitbang" => latch)
  BY <1>0 DEF LineTypes, TypeInv
<1>1. Steps = UsiStop \/ Steps = BitStop
  BY <1>b, TheSteps DEF Steps
<1>2. /\ Len(Steps) = 4 /\ Steps[1] = "sda0" /\ Steps[2] = "scl1" /\ Steps[3] = "await"
      /\ Steps[4] = "sda1"
  BY <1>1, ShortSteps
<1>3. ip \in 1 .. 4
  BY <1>a, <1>2
<1>4. ddr
  BY DEF DriverInv, InputAt
<1>5. ASSUME ip = 1
      PROVE  LowIs(StopLow)'
  <2>1. ~sclOut /\ (lib = "usi" => reg = 255) /\ Ended(dev, was, 0)
    BY <1>5 DEF StopInv, LowIs
  <2>2. LowTo(FALSE, reg, data)
    BY <1>2, <1>5, <2>1, LowSteps
  <2> QED
    BY <1>0, <2>1, <2>2 DEF LowIs, LowTo, StopLow
<1>6. ASSUME ip = 2
      PROVE  Rising(StopLow, StopHigh)'
  <2>1. ~sclOut /\ StopLow
    BY <1>6 DEF StopInv, LowIs
  <2>2. LetGo(dev)
    BY <1>2, <1>6, <2>1, LowSteps
  <2> QED
    BY <1>b, <1>4, <2>1, <2>2, StopUp, Zenon
<1>7. ASSUME ip = 3
      PROVE  High(StopHigh)'
  <2>1. sclOut /\ IF dev.stretch THEN StopLow ELSE StopHigh
    BY <1>7 DEF StopInv, Rising
  <2>2. ~dev.stretch /\ HighTo(reg)
    BY <1>2, <1>7, HighSteps
  <2> QED
    BY <1>0, <2>1, <2>2 DEF HighTo, High, StopHigh
<1>8. ASSUME ip = 4
      PROVE  High(port /\ latch /\ Deaf(dev, was))'
  <2>1. sclOut /\ ~dev.stretch /\ ~port /\ latch /\ Ended(dev, was, 1)
    BY <1>8 DEF StopInv, High, StopHigh
  <2>2. ~dev.pull
    BY <2>1 DEF Ended, Deaf
  <2>3. PICK scl, p : scl = TRUE /\ p = TRUE /\ Lines(scl, p, ddr, reg, dev)
    <3>1. Lines(sclOut, TRUE, ddr, reg, dev)
      BY <1>2, <1>a, <1>8, StepEffect, Zenon
    <3>2. sclOut = TRUE
      BY <1>0, <2>1 DEF LineTypes
    <3> QED
      BY <3>1, <3>2
  <2>4. p \in BOOLEAN /\ p
    BY <2>3
  <2>5. /\ sclOut' /\ port' = p /\ latch' /\ (~attached => dev' = dev)
        /\ attached => dev' = [dev EXCEPT !.mode = "idle", !.n = 0, !.in = 0, !.pull = FALSE]
    BY <1>0, <1>4, <2>1, <2>2, <2>3, <2>4, PortStep
  <2>6. dev \in Devices
    BY <1>0, DeviceFields
  <2>7. Deaf(dev', was)
    BY <1>0, <2>1, <2>5, <2>6 DEF Ended, Kept, Deaf, Devices
  <2>8. ~dev'.stretch
    BY <2>1, <2>5, <2>6 DEF Devices
  <2> QED
    BY <1>0, <2>4, <2>5, <2>7, <2>8 DEF High
<1>9. /\ ip' # 1
      /\ ip' = 2 => ip = 1
      /\ ip' = 3 => ip = 2
      /\ ip' = 4 => ip = 3
      /\ ip' = 5 => ip = 4
  BY <1>0, <1>3
<1> QED
  BY <1>5, <1>6, <1>7, <1>8, <1>9, Zenon DEF StopInv

-----------------------------------------------------------------------------
(* A step of a call keeps what it has reached *)

LEMMA StepSyncInv ==
  ASSUME TypeInv, DriverInv, SyncInv, Library, ip <= Len(Steps)
  PROVE  SyncInv'
<1> SUFFICES ASSUME was.sync
             PROVE  SyncInv'
  <2>1. was' = was
    BY Stepping
  <2> QED
    BY <2>1 DEF SyncInv
<1>1. /\ ip' = ip + 1 /\ UNCHANGED <<lib, job, at, attached, was>> /\ ThisCall' = ThisCall
      /\ lib \in {"usi", "bitbang"}
  BY Stepping DEF TypeInv
<1>2. job' # "init" /\ was'.mode = IF attached' THEN ModeAt' ELSE "idle"
  BY <1>1 DEF SyncInv, ModeAt
<1>3. ThisCall.op = "start" => StartInv'
  <2> SUFFICES ASSUME ThisCall.op = "start"
               PROVE  StartInv'
    OBVIOUS
  <2>1. StartInv
    BY DEF SyncInv
  <2> QED
    BY <2>1, StartStep
<1>4. ThisCall.op = "stop" => StopInv'
  <2> SUFFICES ASSUME ThisCall.op = "stop"
               PROVE  StopInv'
    OBVIOUS
  <2>1. StopInv
    BY DEF SyncInv
  <2> QED
    BY <2>1, StopStep
<1>5. ThisCall.op = "write" => IF lib = "usi" THEN UsiWriteInv' ELSE BitWriteInv'
  <2> SUFFICES ASSUME ThisCall.op = "write"
               PROVE  IF lib = "usi" THEN UsiWriteInv' ELSE BitWriteInv'
    OBVIOUS
  <2>1. SpokenTo
    BY WriteMode
  <2>2. CASE lib = "usi"
    <3>1. UsiWriteInv
      BY <2>2 DEF SyncInv
    <3> QED
      BY <2>1, <2>2, <3>1, UsiWriteStep
  <2>3. CASE lib = "bitbang"
    <3>1. BitWriteInv
      BY <2>3 DEF SyncInv
    <3> QED
      BY <2>1, <2>3, <3>1, BitWriteStep
  <2> QED
    BY <1>1, <2>2, <2>3
<1>6. ThisCall.op = "read" => IF lib = "usi" THEN UsiReadInv' ELSE BitReadInv'
  <2> SUFFICES ASSUME ThisCall.op = "read"
               PROVE  IF lib = "usi" THEN UsiReadInv' ELSE BitReadInv'
    OBVIOUS
  <2>2. CASE lib = "usi"
    <3>1. UsiReadInv
      BY <2>2 DEF SyncInv
    <3> QED
      BY <2>2, <3>1, UsiReadStep
  <2>3. CASE lib = "bitbang"
    <3>1. BitReadInv
      BY <2>3 DEF SyncInv
    <3> QED
      BY <2>3, <3>1, BitReadStep
  <2> QED
    BY <1>1, <2>2, <2>3
<1> QED
  BY <1>1, <1>2, <1>3, <1>4, <1>5, <1>6, Zenon DEF SyncInv

-----------------------------------------------------------------------------
(* The controller lets SCL go *)

\* While the library holds SCL: nothing but the stretch.
Still ==
  /\ ~sclOut /\ ~sclOut' /\ lib' = lib /\ ip' = ip /\ data' = data /\ reg' = reg
  /\ was' = was /\ Arg' = Arg /\ (port' <=> port)
  /\ \A a, k : InWrite(dev, was, a, k, FALSE) => InWrite(dev', was, a, k, FALSE)
  /\ \A k : InRead(dev, was, k, FALSE) => InRead(dev', was, k, FALSE)
  /\ \A a : Written(dev, was, a) => Written(dev', was, a)
  /\ \A a : Read(dev, was, a) => Read(dev', was, a)
  /\ Started(dev, was) => Started(dev', was)
  /\ \A n : Ended(dev, was, n) => Ended(dev', was, n)

LEMMA UsiWriteStill ==
  ASSUME UsiWriteInv, Still
  PROVE  UsiWriteInv'
<1>0. /\ ~sclOut /\ ~sclOut' /\ lib' = lib /\ ip' = ip /\ data' = data
      /\ (port' <=> port) /\ reg' = reg /\ was' = was /\ Arg' = Arg
  BY DEF Still
<1>1. ASSUME NEW i \in 0 .. 7, UsiWriteLow(i)
      PROVE  (UsiWriteLow(i))'
  <2>1. InWrite(dev, was, Arg, i, FALSE)
    BY <1>1 DEF UsiWriteLow
  <2>2. (InWrite(dev, was, Arg, i, FALSE))'
    BY <1>0, <2>1, Zenon DEF Still
  <2> QED
    BY <1>0, <1>1, <2>2 DEF UsiWriteLow
<1>2. ASSUME port /\ InWrite(dev, was, Arg, 0, FALSE)
      PROVE  (port /\ InWrite(dev, was, Arg, 0, FALSE))'
  <2>1. InWrite(dev, was, Arg, 0, FALSE)
    BY <1>2
  <2>2. (InWrite(dev, was, Arg, 0, FALSE))'
    BY <1>0, <2>1, Zenon DEF Still
  <2> QED
    BY <1>0, <1>2, <2>2
<1>3. ASSUME port /\ InWrite(dev, was, Arg, 8, FALSE)
      PROVE  (port /\ InWrite(dev, was, Arg, 8, FALSE))'
  <2>1. InWrite(dev, was, Arg, 8, FALSE)
    BY <1>3
  <2>2. (InWrite(dev, was, Arg, 8, FALSE))'
    BY <1>0, <2>1, Zenon DEF Still
  <2> QED
    BY <1>0, <1>3, <2>2
<1>4. ASSUME UsiAckLow
      PROVE  (UsiAckLow)'
  <2>1. InWrite(dev, was, Arg, 8, FALSE)
    BY <1>4 DEF UsiAckLow
  <2>2. (InWrite(dev, was, Arg, 8, FALSE))'
    BY <1>0, <2>1, Zenon DEF Still
  <2> QED
    BY <1>0, <1>4, <2>2 DEF UsiAckLow
<1>5. ASSUME port /\ reg % 2 = AckBit(was) /\ Written(dev, was, Arg)
      PROVE  (port /\ reg % 2 = AckBit(was) /\ Written(dev, was, Arg))'
  <2>1. Written(dev, was, Arg)
    BY <1>5
  <2>2. (Written(dev, was, Arg))'
    BY <1>0, <2>1, Zenon DEF Still
  <2> QED
    BY <1>0, <1>5, <2>2
<1>6. ASSUME port /\ reg = 255 /\ data % 2 = AckBit(was) /\ Written(dev, was, Arg)
      PROVE  (port /\ reg = 255 /\ data % 2 = AckBit(was) /\ Written(dev, was, Arg))'
  <2>1. Written(dev, was, Arg)
    BY <1>6
  <2>2. (Written(dev, was, Arg))'
    BY <1>0, <2>1, Zenon DEF Still
  <2> QED
    BY <1>0, <1>6, <2>2
<1>7. ASSUME NEW i \in 0 .. 7
       PROVE  /\ ip' = 3 + 3 * i => LowIs(UsiWriteLow(i))'
              /\ ip' = 4 + 3 * i => Rising(UsiWriteLow(i), UsiWriteHigh(i))'
              /\ ip' = 5 + 3 * i => High(UsiWriteHigh(i))'
  <2>1. ip' = 3 + 3 * i => LowIs(UsiWriteLow(i))'
    <3>1. ip = 3 + 3 * i => LowIs(UsiWriteLow(i))
      BY Zenon DEF UsiWriteInv
    <3> QED
      BY <1>0, <1>1, <3>1, Zenon DEF LowIs
  <2>2. ip' = 4 + 3 * i => Rising(UsiWriteLow(i), UsiWriteHigh(i))'
    BY <1>0, Zenon DEF UsiWriteInv, Rising, High
  <2>3. ip' = 5 + 3 * i => High(UsiWriteHigh(i))'
    BY <1>0, Zenon DEF UsiWriteInv, Rising, High
  <2> QED
    BY <2>1, <2>2, <2>3
<1>8. ip' = 1 => LowIs(port /\ InWrite(dev, was, Arg, 0, FALSE))'
  BY <1>0, <1>2, Zenon DEF UsiWriteInv, LowIs, Rising, High
<1>9. ip' = 2 => LowIs(UsiWriteLow(0))'
  <2>1. 0 \in 0 .. 7
    OBVIOUS
  <2>2. UsiWriteLow(0) => (UsiWriteLow(0))'
    BY <1>1, <2>1, Zenon
  <2> QED
    BY <1>0, <2>2, Zenon DEF UsiWriteInv, LowIs
<1>10. ip' = 27 => LowIs(port /\ InWrite(dev, was, Arg, 8, FALSE))'
  BY <1>0, <1>3, Zenon DEF UsiWriteInv, LowIs, Rising, High
<1>11. ip' \in 28 .. 30 => LowIs(UsiAckLow)'
  BY <1>0, <1>4, Zenon DEF UsiWriteInv, LowIs, Rising, High
<1>12. ip' = 33 => LowIs(port /\ reg % 2 = AckBit(was) /\ Written(dev, was, Arg))'
  BY <1>0, <1>5, Zenon DEF UsiWriteInv, LowIs, Rising, High
<1>13. ip' \in 34 .. 35 =>
       LowIs(port /\ reg = 255 /\ data % 2 = AckBit(was) /\ Written(dev, was, Arg))'
  BY <1>0, <1>6, Zenon DEF UsiWriteInv, LowIs, Rising, High
<1>14. ip' = 31 => Rising(UsiAckLow, UsiAckHigh)'
  BY <1>0, Zenon DEF UsiWriteInv, LowIs, Rising, High
<1>15. ip' = 32 => High(UsiAckHigh)'
  BY <1>0, Zenon DEF UsiWriteInv, LowIs, Rising, High
<1> QED
  BY <1>7, <1>8, <1>9, <1>10, <1>11, <1>12, <1>13, <1>14, <1>15 DEF UsiWriteInv

LEMMA UsiWriteRelease ==
  ASSUME TypeInv, DriverInv, lib = "usi", ThisCall.op = "write", SpokenTo, UsiWriteInv, sclOut,
         dev.stretch,
         NEW d, LetGo(d), ip' = ip
  PROVE  UsiWriteInv'
<1>1. ASSUME NEW i \in 0 .. 7
      PROVE  ip # 3 + 3 * i
  BY Zenon DEF UsiWriteInv, LowIs, High
<1>2. ASSUME NEW i \in 0 .. 7
      PROVE  ip # 5 + 3 * i
  BY Zenon DEF UsiWriteInv, LowIs, High
<1>3. ip # 1
  BY Zenon DEF UsiWriteInv, LowIs, High
<1>4. ip # 2
  BY Zenon DEF UsiWriteInv, LowIs, High
<1>5. ip # 27
  BY Zenon DEF UsiWriteInv, LowIs, High
<1>6. ip \notin 28 .. 30
  BY Zenon DEF UsiWriteInv, LowIs, High
<1>7. ip # 33
  BY Zenon DEF UsiWriteInv, LowIs, High
<1>8. ip \notin 34 .. 35
  BY Zenon DEF UsiWriteInv, LowIs, High
<1>9. ip # 32
  BY Zenon DEF UsiWriteInv, LowIs, High
<1>10. ASSUME NEW i \in 0 .. 7, ip = 4 + 3 * i
      PROVE  Rising(UsiWriteLow(i), UsiWriteHigh(i))'
  <2>1. Rising(UsiWriteLow(i), UsiWriteHigh(i))
    BY <1>10, Zenon DEF UsiWriteInv
  <2>2. UsiWriteLow(i)
    BY <2>1 DEF Rising
  <2>3. ddr
    BY <1>10 DEF DriverInv, InputAt
  <2> QED
    BY <2>2, <2>3, UsiWriteUp, Zenon
<1>11. ASSUME ip = 31
      PROVE  Rising(UsiAckLow, UsiAckHigh)'
  <2>1. Rising(UsiAckLow, UsiAckHigh)
    BY <1>11, Zenon DEF UsiWriteInv
  <2>2. UsiAckLow
    BY <2>1 DEF Rising
  <2>3. ~ddr
    BY <1>11 DEF DriverInv, InputAt
  <2> QED
    BY <2>2, <2>3, UsiAckUp, Zenon
<1> QED
  BY <1>1, <1>2, <1>3, <1>4, <1>5, <1>6, <1>7, <1>8, <1>9, <1>10, <1>11, Zenon DEF UsiWriteInv

LEMMA UsiReadStill ==
  ASSUME UsiReadInv, Still
  PROVE  UsiReadInv'
<1>0. /\ ~sclOut /\ ~sclOut' /\ lib' = lib /\ ip' = ip /\ data' = data
      /\ (port' <=> port) /\ reg' = reg /\ was' = was /\ Arg' = Arg
  BY DEF Still
<1>1. ASSUME NEW i \in 0 .. 7, UsiReadLow(i)
      PROVE  (UsiReadLow(i))'
  <2>1. InRead(dev, was, i, FALSE)
    BY <1>1 DEF UsiReadLow
  <2>2. (InRead(dev, was, i, FALSE))'
    BY <1>0, <2>1, Zenon DEF Still
  <2> QED
    BY <1>0, <1>1, <2>2 DEF UsiReadLow
<1>2. ASSUME port /\ InRead(dev, was, 0, FALSE)
      PROVE  (port /\ InRead(dev, was, 0, FALSE))'
  <2>1. InRead(dev, was, 0, FALSE)
    BY <1>2
  <2>2. (InRead(dev, was, 0, FALSE))'
    BY <1>0, <2>1, Zenon DEF Still
  <2> QED
    BY <1>0, <1>2, <2>2
<1>3. ASSUME port /\ reg = Offered(was) /\ InRead(dev, was, 8, FALSE)
      PROVE  (port /\ reg = Offered(was) /\ InRead(dev, was, 8, FALSE))'
  <2>1. InRead(dev, was, 8, FALSE)
    BY <1>3
  <2>2. (InRead(dev, was, 8, FALSE))'
    BY <1>0, <2>1, Zenon DEF Still
  <2> QED
    BY <1>0, <1>3, <2>2
<1>4. ASSUME port /\ data = Offered(was) /\ InRead(dev, was, 8, FALSE)
      PROVE  (port /\ data = Offered(was) /\ InRead(dev, was, 8, FALSE))'
  <2>1. InRead(dev, was, 8, FALSE)
    BY <1>4
  <2>2. (InRead(dev, was, 8, FALSE))'
    BY <1>0, <2>1, Zenon DEF Still
  <2> QED
    BY <1>0, <1>4, <2>2
<1>5. ASSUME UsiNackLow
      PROVE  (UsiNackLow)'
  <2>1. InRead(dev, was, 8, FALSE)
    BY <1>5 DEF UsiNackLow
  <2>2. (InRead(dev, was, 8, FALSE))'
    BY <1>0, <2>1, Zenon DEF Still
  <2> QED
    BY <1>0, <1>5, <2>2 DEF UsiNackLow
<1>6. ASSUME port /\ data = Offered(was) /\ Read(dev, was, Arg)
      PROVE  (port /\ data = Offered(was) /\ Read(dev, was, Arg))'
  <2>1. Read(dev, was, Arg)
    BY <1>6
  <2>2. (Read(dev, was, Arg))'
    BY <1>0, <2>1, Zenon DEF Still
  <2> QED
    BY <1>0, <1>6, <2>2
<1>7. ASSUME port /\ data = Offered(was) /\ reg = 255 /\ Read(dev, was, Arg)
      PROVE  (port /\ data = Offered(was) /\ reg = 255 /\ Read(dev, was, Arg))'
  <2>1. Read(dev, was, Arg)
    BY <1>7
  <2>2. (Read(dev, was, Arg))'
    BY <1>0, <2>1, Zenon DEF Still
  <2> QED
    BY <1>0, <1>7, <2>2
<1>8. ASSUME NEW i \in 0 .. 7
       PROVE  /\ ip' = 3 + 3 * i => LowIs(UsiReadLow(i))'
              /\ ip' = 4 + 3 * i => Rising(UsiReadLow(i), UsiReadHigh(i))'
              /\ ip' = 5 + 3 * i => High(UsiReadHigh(i))'
  <2>1. ip' = 3 + 3 * i => LowIs(UsiReadLow(i))'
    <3>1. ip = 3 + 3 * i => LowIs(UsiReadLow(i))
      BY Zenon DEF UsiReadInv
    <3> QED
      BY <1>0, <1>1, <3>1, Zenon DEF LowIs
  <2>2. ip' = 4 + 3 * i => Rising(UsiReadLow(i), UsiReadHigh(i))'
    BY <1>0, Zenon DEF UsiReadInv, Rising, High
  <2>3. ip' = 5 + 3 * i => High(UsiReadHigh(i))'
    BY <1>0, Zenon DEF UsiReadInv, Rising, High
  <2> QED
    BY <2>1, <2>2, <2>3
<1>9. ip' = 1 => LowIs(port /\ InRead(dev, was, 0, FALSE))'
  BY <1>0, <1>2, Zenon DEF UsiReadInv, LowIs, Rising, High
<1>10. ip' = 2 => LowIs(UsiReadLow(0))'
  <2>1. 0 \in 0 .. 7
    OBVIOUS
  <2>2. UsiReadLow(0) => (UsiReadLow(0))'
    BY <1>1, <2>1, Zenon
  <2> QED
    BY <1>0, <2>2, Zenon DEF UsiReadInv, LowIs
<1>11. ip' = 27 => LowIs(port /\ reg = Offered(was) /\ InRead(dev, was, 8, FALSE))'
  BY <1>0, <1>3, Zenon DEF UsiReadInv, LowIs, Rising, High
<1>12. ip' \in 28 .. 29 => LowIs(port /\ data = Offered(was) /\ InRead(dev, was, 8, FALSE))'
  BY <1>0, <1>4, Zenon DEF UsiReadInv, LowIs, Rising, High
<1>13. ip' \in 30 .. 31 => LowIs(UsiNackLow)'
  BY <1>0, <1>5, Zenon DEF UsiReadInv, LowIs, Rising, High
<1>14. ip' = 34 => LowIs(port /\ data = Offered(was) /\ Read(dev, was, Arg))'
  BY <1>0, <1>6, Zenon DEF UsiReadInv, LowIs, Rising, High
<1>15. ip' = 35 => LowIs(port /\ data = Offered(was) /\ reg = 255 /\ Read(dev, was, Arg))'
  BY <1>0, <1>7, Zenon DEF UsiReadInv, LowIs, Rising, High
<1>16. ip' = 32 => Rising(UsiNackLow, UsiNackHigh)'
  BY <1>0, Zenon DEF UsiReadInv, LowIs, Rising, High
<1>17. ip' = 33 => High(UsiNackHigh)'
  BY <1>0, Zenon DEF UsiReadInv, LowIs, Rising, High
<1> QED
  BY <1>8, <1>9, <1>10, <1>11, <1>12, <1>13, <1>14, <1>15, <1>16, <1>17 DEF UsiReadInv

LEMMA UsiReadRelease ==
  ASSUME TypeInv, DriverInv, lib = "usi", ThisCall.op = "read", UsiReadInv, sclOut, dev.stretch,
         NEW d, LetGo(d), ip' = ip
  PROVE  UsiReadInv'
<1>1. ASSUME NEW i \in 0 .. 7
      PROVE  ip # 3 + 3 * i
  BY Zenon DEF UsiReadInv, LowIs, High
<1>2. ASSUME NEW i \in 0 .. 7
      PROVE  ip # 5 + 3 * i
  BY Zenon DEF UsiReadInv, LowIs, High
<1>3. ip # 1
  BY Zenon DEF UsiReadInv, LowIs, High
<1>4. ip # 2
  BY Zenon DEF UsiReadInv, LowIs, High
<1>5. ip # 27
  BY Zenon DEF UsiReadInv, LowIs, High
<1>6. ip \notin 28 .. 29
  BY Zenon DEF UsiReadInv, LowIs, High
<1>7. ip \notin 30 .. 31
  BY Zenon DEF UsiReadInv, LowIs, High
<1>8. ip # 34
  BY Zenon DEF UsiReadInv, LowIs, High
<1>9. ip # 35
  BY Zenon DEF UsiReadInv, LowIs, High
<1>10. ip # 33
  BY Zenon DEF UsiReadInv, LowIs, High
<1>11. ASSUME NEW i \in 0 .. 7, ip = 4 + 3 * i
      PROVE  Rising(UsiReadLow(i), UsiReadHigh(i))'
  <2>1. Rising(UsiReadLow(i), UsiReadHigh(i))
    BY <1>11, Zenon DEF UsiReadInv
  <2>2. UsiReadLow(i)
    BY <2>1 DEF Rising
  <2>3. ~ddr
    BY <1>11 DEF DriverInv, InputAt
  <2> QED
    BY <2>2, <2>3, UsiReadUp, Zenon
<1>12. ASSUME ip = 32
      PROVE  Rising(UsiNackLow, UsiNackHigh)'
  <2>1. Rising(UsiNackLow, UsiNackHigh)
    BY <1>12, Zenon DEF UsiReadInv
  <2>2. UsiNackLow
    BY <2>1 DEF Rising
  <2>3. ddr
    BY <1>12 DEF DriverInv, InputAt
  <2> QED
    BY <2>2, <2>3, UsiNackUp, Zenon
<1> QED
  BY <1>1, <1>2, <1>3, <1>4, <1>5, <1>6, <1>7, <1>8, <1>9, <1>10, <1>11, <1>12, Zenon DEF UsiReadInv

LEMMA BitWriteStill ==
  ASSUME BitWriteInv, Still
  PROVE  BitWriteInv'
<1>0. /\ ~sclOut /\ ~sclOut' /\ lib' = lib /\ ip' = ip /\ data' = data
      /\ (port' <=> port) /\ reg' = reg /\ was' = was /\ Arg' = Arg
  BY DEF Still
<1>1. ASSUME NEW i \in 0 .. 7, Outgoing(reg, Arg, i) /\ InWrite(dev, was, Arg, i, FALSE)
      PROVE  (Outgoing(reg, Arg, i) /\ InWrite(dev, was, Arg, i, FALSE))'
  <2>1. InWrite(dev, was, Arg, i, FALSE)
    BY <1>1
  <2>2. (InWrite(dev, was, Arg, i, FALSE))'
    BY <1>0, <2>1, Zenon DEF Still
  <2> QED
    BY <1>0, <1>1, <2>2
<1>2. ASSUME NEW i \in 0 .. 7, BitWriteLow(i)
      PROVE  (BitWriteLow(i))'
  <2>1. InWrite(dev, was, Arg, i, FALSE)
    BY <1>2 DEF BitWriteLow
  <2>2. (InWrite(dev, was, Arg, i, FALSE))'
    BY <1>0, <2>1, Zenon DEF Still
  <2> QED
    BY <1>0, <1>2, <2>2 DEF BitWriteLow
<1>3. ASSUME InWrite(dev, was, Arg, 0, FALSE)
      PROVE  (InWrite(dev, was, Arg, 0, FALSE))'
  <2>1. InWrite(dev, was, Arg, 0, FALSE)
    BY <1>3
  <2>2. (InWrite(dev, was, Arg, 0, FALSE))'
    BY <1>0, <2>1, Zenon DEF Still
  <2> QED
    BY <2>2
<1>4. ASSUME InWrite(dev, was, Arg, 8, FALSE)
      PROVE  (InWrite(dev, was, Arg, 8, FALSE))'
  <2>1. InWrite(dev, was, Arg, 8, FALSE)
    BY <1>4
  <2>2. (InWrite(dev, was, Arg, 8, FALSE))'
    BY <1>0, <2>1, Zenon DEF Still
  <2> QED
    BY <2>2
<1>5. ASSUME reg = 0 /\ InWrite(dev, was, Arg, 8, FALSE)
      PROVE  (reg = 0 /\ InWrite(dev, was, Arg, 8, FALSE))'
  <2>1. InWrite(dev, was, Arg, 8, FALSE)
    BY <1>5
  <2>2. (InWrite(dev, was, Arg, 8, FALSE))'
    BY <1>0, <2>1, Zenon DEF Still
  <2> QED
    BY <1>0, <1>5, <2>2
<1>6. ASSUME BitAckLow
      PROVE  (BitAckLow)'
  <2>1. InWrite(dev, was, Arg, 8, FALSE)
    BY <1>6 DEF BitAckLow
  <2>2. (InWrite(dev, was, Arg, 8, FALSE))'
    BY <1>0, <2>1, Zenon DEF Still
  <2> QED
    BY <1>0, <1>6, <2>2 DEF BitAckLow
<1>7. ASSUME reg = AckBit(was) /\ Written(dev, was, Arg)
      PROVE  (reg = AckBit(was) /\ Written(dev, was, Arg))'
  <2>1. Written(dev, was, Arg)
    BY <1>7
  <2>2. (Written(dev, was, Arg))'
    BY <1>0, <2>1, Zenon DEF Still
  <2> QED
    BY <1>0, <1>7, <2>2
<1>8. ASSUME data % 2 = AckBit(was) /\ Written(dev, was, Arg)
      PROVE  (data % 2 = AckBit(was) /\ Written(dev, was, Arg))'
  <2>1. Written(dev, was, Arg)
    BY <1>8
  <2>2. (Written(dev, was, Arg))'
    BY <1>0, <2>1, Zenon DEF Still
  <2> QED
    BY <1>0, <1>8, <2>2
<1>9. ASSUME NEW i \in 0 .. 7
       PROVE  /\ ip' = 2 + 4 * i =>
                 LowIs(Outgoing(reg, Arg, i) /\ InWrite(dev, was, Arg, i, FALSE))'
              /\ ip' = 3 + 4 * i => LowIs(BitWriteLow(i))'
              /\ ip' = 4 + 4 * i => Rising(BitWriteLow(i), BitWriteHigh(i))'
              /\ ip' = 5 + 4 * i => High(BitWriteHigh(i))'
  <2>1. ip' = 2 + 4 * i => LowIs(Outgoing(reg, Arg, i) /\ InWrite(dev, was, Arg, i, FALSE))'
    <3>1. ip = 2 + 4 * i => LowIs(Outgoing(reg, Arg, i) /\ InWrite(dev, was, Arg, i, FALSE))
      BY Zenon DEF BitWriteInv
    <3> QED
      BY <1>0, <1>1, <3>1, Zenon DEF LowIs
  <2>2. ip' = 3 + 4 * i => LowIs(BitWriteLow(i))'
    <3>1. ip = 3 + 4 * i => LowIs(BitWriteLow(i))
      BY Zenon DEF BitWriteInv
    <3> QED
      BY <1>0, <1>2, <3>1, Zenon DEF LowIs
  <2>3. ip' = 4 + 4 * i => Rising(BitWriteLow(i), BitWriteHigh(i))'
    BY <1>0, Zenon DEF BitWriteInv, Rising, High
  <2>4. ip' = 5 + 4 * i => High(BitWriteHigh(i))'
    BY <1>0, Zenon DEF BitWriteInv, Rising, High
  <2> QED
    BY <2>1, <2>2, <2>3, <2>4
<1>10. ip' = 1 => LowIs(InWrite(dev, was, Arg, 0, FALSE))'
  BY <1>0, <1>3, Zenon DEF BitWriteInv, LowIs, Rising, High
<1>11. ip' = 34 => LowIs(InWrite(dev, was, Arg, 8, FALSE))'
  BY <1>0, <1>4, Zenon DEF BitWriteInv, LowIs, Rising, High
<1>12. ip' = 35 => LowIs(reg = 0 /\ InWrite(dev, was, Arg, 8, FALSE))'
  BY <1>0, <1>5, Zenon DEF BitWriteInv, LowIs, Rising, High
<1>13. ip' = 36 => LowIs(BitAckLow)'
  BY <1>0, <1>6, Zenon DEF BitWriteInv, LowIs, Rising, High
<1>14. ip' = 40 => LowIs(reg = AckBit(was) /\ Written(dev, was, Arg))'
  BY <1>0, <1>7, Zenon DEF BitWriteInv, LowIs, Rising, High
<1>15. ip' = 41 => LowIs(data % 2 = AckBit(was) /\ Written(dev, was, Arg))'
  BY <1>0, <1>8, Zenon DEF BitWriteInv, LowIs, Rising, High
<1>16. ip' = 37 => Rising(BitAckLow, BitAckHigh)'
  BY <1>0, Zenon DEF BitWriteInv, LowIs, Rising, High
<1>17. ip' = 38 => High(BitAckHigh)'
  BY <1>0, Zenon DEF BitWriteInv, LowIs, Rising, High
<1>18. ip' = 39 => High(reg = AckBit(was) /\ InWrite(dev, was, Arg, 9, TRUE))'
  BY <1>0, Zenon DEF BitWriteInv, LowIs, Rising, High
<1> QED
  BY <1>9, <1>10, <1>11, <1>12, <1>13, <1>14, <1>15, <1>16, <1>17, <1>18 DEF BitWriteInv

LEMMA BitWriteRelease ==
  ASSUME TypeInv, DriverInv, lib = "bitbang", ThisCall.op = "write", SpokenTo, BitWriteInv,
         sclOut, dev.stretch,
         NEW d, LetGo(d), ip' = ip
  PROVE  BitWriteInv'
<1>1. ASSUME NEW i \in 0 .. 7
      PROVE  ip # 2 + 4 * i
  BY Zenon DEF BitWriteInv, LowIs, High
<1>2. ASSUME NEW i \in 0 .. 7
      PROVE  ip # 3 + 4 * i
  BY Zenon DEF BitWriteInv, LowIs, High
<1>3. ASSUME NEW i \in 0 .. 7
      PROVE  ip # 5 + 4 * i
  BY Zenon DEF BitWriteInv, LowIs, High
<1>4. ip # 1
  BY Zenon DEF BitWriteInv, LowIs, High
<1>5. ip # 34
  BY Zenon DEF BitWriteInv, LowIs, High
<1>6. ip # 35
  BY Zenon DEF BitWriteInv, LowIs, High
<1>7. ip # 36
  BY Zenon DEF BitWriteInv, LowIs, High
<1>8. ip # 40
  BY Zenon DEF BitWriteInv, LowIs, High
<1>9. ip # 41
  BY Zenon DEF BitWriteInv, LowIs, High
<1>10. ip # 38
  BY Zenon DEF BitWriteInv, LowIs, High
<1>11. ip # 39
  BY Zenon DEF BitWriteInv, LowIs, High
<1>12. ASSUME NEW i \in 0 .. 7, ip = 4 + 4 * i
      PROVE  Rising(BitWriteLow(i), BitWriteHigh(i))'
  <2>1. Rising(BitWriteLow(i), BitWriteHigh(i))
    BY <1>12, Zenon DEF BitWriteInv
  <2>2. BitWriteLow(i)
    BY <2>1 DEF Rising
  <2>3. ddr
    BY <1>12 DEF DriverInv, InputAt
  <2> QED
    BY <2>2, <2>3, BitWriteUp, Zenon
<1>13. ASSUME ip = 37
      PROVE  Rising(BitAckLow, BitAckHigh)'
  <2>1. Rising(BitAckLow, BitAckHigh)
    BY <1>13, Zenon DEF BitWriteInv
  <2>2. BitAckLow
    BY <2>1 DEF Rising
  <2> QED
    BY <2>2, BitAckUp, Zenon
<1> QED
  BY <1>1, <1>2, <1>3, <1>4, <1>5, <1>6, <1>7, <1>8, <1>9, <1>10, <1>11, <1>12, <1>13,
       Zenon DEF BitWriteInv

LEMMA BitReadStill ==
  ASSUME BitReadInv, Still
  PROVE  BitReadInv'
<1>0. /\ ~sclOut /\ ~sclOut' /\ lib' = lib /\ ip' = ip /\ data' = data
      /\ (port' <=> port) /\ reg' = reg /\ was' = was /\ Arg' = Arg
  BY DEF Still
<1>1. ASSUME NEW i \in 0 .. 7, Incoming(reg, Offered(was), i) /\ InRead(dev, was, i, FALSE)
      PROVE  (Incoming(reg, Offered(was), i) /\ InRead(dev, was, i, FALSE))'
  <2>1. InRead(dev, was, i, FALSE)
    BY <1>1
  <2>2. (InRead(dev, was, i, FALSE))'
    BY <1>0, <2>1, Zenon DEF Still
  <2> QED
    BY <1>0, <1>1, <2>2
<1>2. ASSUME NEW i \in 0 .. 7, BitReadLow(i)
      PROVE  (BitReadLow(i))'
  <2>1. InRead(dev, was, i, FALSE)
    BY <1>2 DEF BitReadLow
  <2>2. (InRead(dev, was, i, FALSE))'
    BY <1>0, <2>1, Zenon DEF Still
  <2> QED
    BY <1>0, <1>2, <2>2 DEF BitReadLow
<1>3. ASSUME InRead(dev, was, 0, FALSE)
      PROVE  (InRead(dev, was, 0, FALSE))'
  <2>1. InRead(dev, was, 0, FALSE)
    BY <1>3
  <2>2. (InRead(dev, was, 0, FALSE))'
    BY <1>0, <2>1, Zenon DEF Still
  <2> QED
    BY <2>2
<1>4. ASSUME reg = Offered(was) /\ InRead(dev, was, 8, FALSE)
      PROVE  (reg = Offered(was) /\ InRead(dev, was, 8, FALSE))'
  <2>1. InRead(dev, was, 8, FALSE)
    BY <1>4
  <2>2. (InRead(dev, was, 8, FALSE))'
    BY <1>0, <2>1, Zenon DEF Still
  <2> QED
    BY <1>0, <1>4, <2>2
<1>5. ASSUME data = Offered(was) /\ InRead(dev, was, 8, FALSE)
      PROVE  (data = Offered(was) /\ InRead(dev, was, 8, FALSE))'
  <2>1. InRead(dev, was, 8, FALSE)
    BY <1>5
  <2>2. (InRead(dev, was, 8, FALSE))'
    BY <1>0, <2>1, Zenon DEF Still
  <2> QED
    BY <1>0, <1>5, <2>2
<1>6. ASSUME BitNackLow
      PROVE  (BitNackLow)'
  <2>1. InRead(dev, was, 8, FALSE)
    BY <1>6 DEF BitNackLow
  <2>2. (InRead(dev, was, 8, FALSE))'
    BY <1>0, <2>1, Zenon DEF Still
  <2> QED
    BY <1>0, <1>6, <2>2 DEF BitNackLow
<1>7. ASSUME data = Offered(was) /\ Read(dev, was, Arg)
      PROVE  (data = Offered(was) /\ Read(dev, was, Arg))'
  <2>1. Read(dev, was, Arg)
    BY <1>7
  <2>2. (Read(dev, was, Arg))'
    BY <1>0, <2>1, Zenon DEF Still
  <2> QED
    BY <1>0, <1>7, <2>2
<1>8. ASSUME NEW i \in 0 .. 7
       PROVE  /\ ip' = 2 + 5 * i =>
                 LowIs(Incoming(reg, Offered(was), i) /\ InRead(dev, was, i, FALSE))'
              /\ ip' = 3 + 5 * i => LowIs(BitReadLow(i))'
              /\ ip' = 4 + 5 * i => Rising(BitReadLow(i), BitReadHigh(i))'
              /\ ip' = 5 + 5 * i => High(BitReadHigh(i))'
              /\ ip' = 6 + 5 * i => High(BitReadTaken(i))'
  <2>1. ip' = 2 + 5 * i => LowIs(Incoming(reg, Offered(was), i) /\ InRead(dev, was, i, FALSE))'
    <3>1. ip = 2 + 5 * i => LowIs(Incoming(reg, Offered(was), i) /\ InRead(dev, was, i, FALSE))
      BY Zenon DEF BitReadInv
    <3> QED
      BY <1>0, <1>1, <3>1, Zenon DEF LowIs
  <2>2. ip' = 3 + 5 * i => LowIs(BitReadLow(i))'
    <3>1. ip = 3 + 5 * i => LowIs(BitReadLow(i))
      BY Zenon DEF BitReadInv
    <3> QED
      BY <1>0, <1>2, <3>1, Zenon DEF LowIs
  <2>3. ip' = 4 + 5 * i => Rising(BitReadLow(i), BitReadHigh(i))'
    BY <1>0, Zenon DEF BitReadInv, Rising, High
  <2>4. ip' = 5 + 5 * i => High(BitReadHigh(i))'
    BY <1>0, Zenon DEF BitReadInv, Rising, High
  <2>5. ip' = 6 + 5 * i => High(BitReadTaken(i))'
    BY <1>0, Zenon DEF BitReadInv, Rising, High
  <2> QED
    BY <2>1, <2>2, <2>3, <2>4, <2>5
<1>9. ip' = 1 => LowIs(InRead(dev, was, 0, FALSE))'
  BY <1>0, <1>3, Zenon DEF BitReadInv, LowIs, Rising, High
<1>10. ip' = 42 => LowIs(reg = Offered(was) /\ InRead(dev, was, 8, FALSE))'
  BY <1>0, <1>4, Zenon DEF BitReadInv, LowIs, Rising, High
<1>11. ip' = 43 => LowIs(data = Offered(was) /\ InRead(dev, was, 8, FALSE))'
  BY <1>0, <1>5, Zenon DEF BitReadInv, LowIs, Rising, High
<1>12. ip' = 44 => LowIs(BitNackLow)'
  BY <1>0, <1>6, Zenon DEF BitReadInv, LowIs, Rising, High
<1>13. ip' = 47 => LowIs(data = Offered(was) /\ Read(dev, was, Arg))'
  BY <1>0, <1>7, Zenon DEF BitReadInv, LowIs, Rising, High
<1>14. ip' = 45 => Rising(BitNackLow, BitNackHigh)'
  BY <1>0, Zenon DEF BitReadInv, LowIs, Rising, High
<1>15. ip' = 46 => High(BitNackHigh)'
  BY <1>0, Zenon DEF BitReadInv, LowIs, Rising, High
<1> QED
  BY <1>8, <1>9, <1>10, <1>11, <1>12, <1>13, <1>14, <1>15 DEF BitReadInv

LEMMA BitReadRelease ==
  ASSUME TypeInv, DriverInv, lib = "bitbang", ThisCall.op = "read", BitReadInv, sclOut, dev.stretch,
         NEW d, LetGo(d), ip' = ip
  PROVE  BitReadInv'
<1>1. ASSUME NEW i \in 0 .. 7
      PROVE  ip # 2 + 5 * i
  BY Zenon DEF BitReadInv, LowIs, High
<1>2. ASSUME NEW i \in 0 .. 7
      PROVE  ip # 3 + 5 * i
  BY Zenon DEF BitReadInv, LowIs, High
<1>3. ASSUME NEW i \in 0 .. 7
      PROVE  ip # 5 + 5 * i
  BY Zenon DEF BitReadInv, LowIs, High
<1>4. ASSUME NEW i \in 0 .. 7
      PROVE  ip # 6 + 5 * i
  BY Zenon DEF BitReadInv, LowIs, High
<1>5. ip # 1
  BY Zenon DEF BitReadInv, LowIs, High
<1>6. ip # 42
  BY Zenon DEF BitReadInv, LowIs, High
<1>7. ip # 43
  BY Zenon DEF BitReadInv, LowIs, High
<1>8. ip # 44
  BY Zenon DEF BitReadInv, LowIs, High
<1>9. ip # 47
  BY Zenon DEF BitReadInv, LowIs, High
<1>10. ip # 46
  BY Zenon DEF BitReadInv, LowIs, High
<1>11. ASSUME NEW i \in 0 .. 7, ip = 4 + 5 * i
      PROVE  Rising(BitReadLow(i), BitReadHigh(i))'
  <2>1. Rising(BitReadLow(i), BitReadHigh(i))
    BY <1>11, Zenon DEF BitReadInv
  <2>2. BitReadLow(i)
    BY <2>1 DEF Rising
  <2> QED
    BY <2>2, BitReadUp, Zenon
<1>12. ASSUME ip = 45
      PROVE  Rising(BitNackLow, BitNackHigh)'
  <2>1. Rising(BitNackLow, BitNackHigh)
    BY <1>12, Zenon DEF BitReadInv
  <2>2. BitNackLow
    BY <2>1 DEF Rising
  <2>3. ddr
    BY <1>12 DEF DriverInv, InputAt
  <2> QED
    BY <2>2, <2>3, BitNackUp, Zenon
<1> QED
  BY <1>1, <1>2, <1>3, <1>4, <1>5, <1>6, <1>7, <1>8, <1>9, <1>10, <1>11, <1>12, Zenon DEF BitReadInv

LEMMA StartStill ==
  ASSUME StartInv, Still
  PROVE  StartInv'
<1>0. /\ ~sclOut /\ ~sclOut' /\ lib' = lib /\ ip' = ip /\ data' = data
      /\ (port' <=> port) /\ reg' = reg /\ was' = was /\ Arg' = Arg
  BY DEF Still
<1>1. ASSUME Started(dev, was)
      PROVE  (Started(dev, was))'
  <2>1. Started(dev, was)
    BY <1>1
  <2>2. (Started(dev, was))'
    BY <1>0, <2>1, Zenon DEF Still
  <2> QED
    BY <2>2
<1>2. ASSUME port /\ Started(dev, was)
      PROVE  (port /\ Started(dev, was))'
  <2>1. Started(dev, was)
    BY <1>2
  <2>2. (Started(dev, was))'
    BY <1>0, <2>1, Zenon DEF Still
  <2> QED
    BY <1>0, <1>2, <2>2
<1>3. ip' = 5 => LowIs(Started(dev, was))'
  BY <1>0, <1>1, Zenon DEF StartInv, LowIs, Rising, High
<1>4. ip' = 6 => LowIs(port /\ Started(dev, was))'
  BY <1>0, <1>2, Zenon DEF StartInv, LowIs, Rising, High
<1>5. ip' <= 3 => High(port /\ latch /\ Deaf(dev, was))'
  BY <1>0, Zenon DEF StartInv, LowIs, Rising, High
<1>6. ip' = 4 => High(Started(dev, was))'
  BY <1>0, Zenon DEF StartInv, LowIs, Rising, High
<1> QED
  BY <1>3, <1>4, <1>5, <1>6 DEF StartInv

LEMMA StartRelease ==
  ASSUME TypeInv, DriverInv, ThisCall.op = "start", StartInv, sclOut, dev.stretch,
         NEW d, LetGo(d), ip' = ip
  PROVE  StartInv'
<1>1. ip # 5
  BY Zenon DEF StartInv, LowIs, High
<1>2. ip # 6
  BY Zenon DEF StartInv, LowIs, High
<1>3. ~(ip <= 3)
  BY Zenon DEF StartInv, LowIs, High
<1>4. ip # 4
  BY Zenon DEF StartInv, LowIs, High
<1> QED
  BY <1>1, <1>2, <1>3, <1>4, Zenon DEF StartInv

LEMMA StopStill ==
  ASSUME StopInv, Still
  PROVE  StopInv'
<1>0. /\ ~sclOut /\ ~sclOut' /\ lib' = lib /\ ip' = ip /\ data' = data
      /\ (port' <=> port) /\ reg' = reg /\ was' = was /\ Arg' = Arg
  BY DEF Still
<1>1. ASSUME (lib = "usi" => reg = 255) /\ Ended(dev, was, 0)
      PROVE  ((lib = "usi" => reg = 255) /\ Ended(dev, was, 0))'
  <2>1. Ended(dev, was, 0)
    BY <1>1
  <2>2. (Ended(dev, was, 0))'
    BY <1>0, <2>1, Zenon DEF Still
  <2> QED
    BY <1>0, <1>1, <2>2
<1>2. ASSUME StopLow
      PROVE  (StopLow)'
  <2>1. Ended(dev, was, 0)
    BY <1>2 DEF StopLow
  <2>2. (Ended(dev, was, 0))'
    BY <1>0, <2>1, Zenon DEF Still
  <2> QED
    BY <1>0, <1>2, <2>2 DEF StopLow
<1>3. ip' = 1 => LowIs((lib = "usi" => reg = 255) /\ Ended(dev, was, 0))'
  BY <1>0, <1>1, Zenon DEF StopInv, LowIs, Rising, High
<1>4. ip' = 2 => LowIs(StopLow)'
  BY <1>0, <1>2, Zenon DEF StopInv, LowIs, Rising, High
<1>5. ip' = 3 => Rising(StopLow, StopHigh)'
  BY <1>0, Zenon DEF StopInv, LowIs, Rising, High
<1>6. ip' = 4 => High(StopHigh)'
  BY <1>0, Zenon DEF StopInv, LowIs, Rising, High
<1>7. ip' = 5 => High(port /\ latch /\ Deaf(dev, was))'
  BY <1>0, Zenon DEF StopInv, LowIs, Rising, High
<1> QED
  BY <1>3, <1>4, <1>5, <1>6, <1>7 DEF StopInv

LEMMA StopRelease ==
  ASSUME TypeInv, DriverInv, ThisCall.op = "stop", StopInv, sclOut, dev.stretch,
         NEW d, LetGo(d), ip' = ip
  PROVE  StopInv'
<1>1. ip # 1
  BY Zenon DEF StopInv, LowIs, High
<1>2. ip # 2
  BY Zenon DEF StopInv, LowIs, High
<1>3. ip # 4
  BY Zenon DEF StopInv, LowIs, High
<1>4. ip # 5
  BY Zenon DEF StopInv, LowIs, High
<1>5. ASSUME ip = 3
      PROVE  Rising(StopLow, StopHigh)'
  <2>1. Rising(StopLow, StopHigh)
    BY <1>5, Zenon DEF StopInv
  <2>2. StopLow
    BY <2>1 DEF Rising
  <2>3. ddr
    BY <1>5 DEF DriverInv, InputAt
  <2>4. lib \in {"usi", "bitbang"}
    BY DEF TypeInv
  <2> QED
    BY <2>2, <2>3, <2>4, StopUp, Zenon
<1> QED
  BY <1>1, <1>2, <1>3, <1>4, <1>5, Zenon DEF StopInv

LEMMA LooseKeeps ==
  ASSUME LineTypes, NEW d, Loose(d), NEW w
  PROVE  /\ \A a, k : InWrite(dev, w, a, k, FALSE) => InWrite(d, w, a, k, FALSE)
         /\ \A k : InRead(dev, w, k, FALSE) => InRead(d, w, k, FALSE)
         /\ \A a : Written(dev, w, a) => Written(d, w, a)
         /\ \A a : Read(dev, w, a) => Read(d, w, a)
         /\ Started(dev, w) => Started(d, w)
         /\ \A n : Ended(dev, w, n) => Ended(d, w, n)
<1>1. /\ d.mode = dev.mode /\ d.n = dev.n /\ d.in = dev.in /\ d.got = dev.got
      /\ d.out = dev.out /\ d.pull = dev.pull
  BY LooseFields
<1>2. ASSUME NEW a, NEW k
      PROVE  InWrite(dev, w, a, k, FALSE) => InWrite(d, w, a, k, FALSE)
  BY LooseSame
<1>3. ASSUME NEW k
      PROVE  InRead(dev, w, k, FALSE) => InRead(d, w, k, FALSE)
  BY LooseSame
<1>4. ASSUME NEW a
      PROVE  Written(dev, w, a) => Written(d, w, a)
  BY <1>1 DEF Written, ToSend, ToReceive, Deaf, Kept
<1>5. ASSUME NEW a
      PROVE  Read(dev, w, a) => Read(d, w, a)
  BY <1>1 DEF Read, ToSend, Deaf, Kept
<1>6. Started(dev, w) => Started(d, w)
  BY <1>1 DEF Started, ToReceive, Deaf, Kept
<1>7. ASSUME NEW n
      PROVE  Ended(dev, w, n) => Ended(d, w, n)
  BY LooseSame
<1> QED
  BY <1>2, <1>3, <1>4, <1>5, <1>6, <1>7

LEMMA ReleaseSyncInv ==
  ASSUME TypeInv, DriverInv, SyncInv, Release
  PROVE  SyncInv'
<1>1. /\ Lines(sclOut, port, ddr, reg, [dev EXCEPT !.stretch = FALSE])
      /\ UNCHANGED <<lib, job, at, ip, data, attached, was>>
      /\ dev.stretch
  BY DEF Release, driver
<1> DEFINE d == [dev EXCEPT !.stretch = FALSE]
<1>2. Loose(d) /\ ~Scl /\ Lines(sclOut, port, ddr, reg, d)
  BY <1>1 DEF Loose, Scl
<1> HIDE DEF d
<1>3. LineTypes /\ lib \in {"usi", "bitbang"} /\ sclOut \in BOOLEAN
  BY DEF TypeInv, LineTypes
<1>4. ThisCall' = ThisCall /\ Arg' = Arg
  BY <1>1 DEF ThisCall, Arg
<1>5. SUFFICES ASSUME was.sync
               PROVE  SyncInv'
  BY <1>1 DEF SyncInv
<1>6. job' # "init" /\ was'.mode = IF attached' THEN ModeAt' ELSE "idle"
  BY <1>1, <1>5 DEF SyncInv, ModeAt
<1>7. ThisCall.op = "write" => SpokenTo
  BY <1>5, WriteMode
<1>8. CASE sclOut
  <2>1. sclOut = TRUE
    BY <1>3, <1>8
  <2>2. LetGo(d)
    <3>1. Lines(TRUE, port, ddr, reg, d)
      BY <1>2, <2>1, Zenon
    <3>2. UNCHANGED <<lib, job, at, data, attached, was>> /\ (sclOut => dev.stretch)
      BY <1>1
    <3> QED
      BY <1>2, <3>1, <3>2, Zenon DEF LetGo
  <2>3. ip' = ip
    BY <1>1
  <2>4. ThisCall.op = "start" => StartInv'
    <3> SUFFICES ASSUME ThisCall.op = "start"
                 PROVE  StartInv'
      OBVIOUS
    <3>1. StartInv
      BY <1>5 DEF SyncInv
    <3> QED
      BY <1>1, <1>8, <2>2, <2>3, <3>1, StartRelease
  <2>5. ThisCall.op = "stop" => StopInv'
    <3> SUFFICES ASSUME ThisCall.op = "stop"
                 PROVE  StopInv'
      OBVIOUS
    <3>1. StopInv
      BY <1>5 DEF SyncInv
    <3> QED
      BY <1>1, <1>8, <2>2, <2>3, <3>1, StopRelease
  <2>6. ThisCall.op = "write" => IF lib = "usi" THEN UsiWriteInv' ELSE BitWriteInv'
    <3> SUFFICES ASSUME ThisCall.op = "write"
                 PROVE  IF lib = "usi" THEN UsiWriteInv' ELSE BitWriteInv'
      OBVIOUS
    <3>1. CASE lib = "usi"
      <4>1. UsiWriteInv
        BY <1>5, <3>1 DEF SyncInv
      <4> QED
        BY <1>1, <1>7, <1>8, <2>2, <2>3, <3>1, <4>1, UsiWriteRelease
    <3>2. CASE lib = "bitbang"
      <4>1. BitWriteInv
        BY <1>5, <3>2 DEF SyncInv
      <4> QED
        BY <1>1, <1>7, <1>8, <2>2, <2>3, <3>2, <4>1, BitWriteRelease
    <3> QED
      BY <1>3, <3>1, <3>2
  <2>7. ThisCall.op = "read" => IF lib = "usi" THEN UsiReadInv' ELSE BitReadInv'
    <3> SUFFICES ASSUME ThisCall.op = "read"
                 PROVE  IF lib = "usi" THEN UsiReadInv' ELSE BitReadInv'
      OBVIOUS
    <3>1. CASE lib = "usi"
      <4>1. UsiReadInv
        BY <1>5, <3>1 DEF SyncInv
      <4> QED
        BY <1>1, <1>8, <2>2, <2>3, <3>1, <4>1, UsiReadRelease
    <3>2. CASE lib = "bitbang"
      <4>1. BitReadInv
        BY <1>5, <3>2 DEF SyncInv
      <4> QED
        BY <1>1, <1>8, <2>2, <2>3, <3>2, <4>1, BitReadRelease
    <3> QED
      BY <1>3, <3>1, <3>2
  <2> QED
    BY <1>1, <1>4, <1>6, <2>4, <2>5, <2>6, <2>7, Zenon DEF SyncInv
<1>9. CASE ~sclOut
  <2>1. Still
    <3>1. sclOut = FALSE /\ sclOut \in BOOLEAN
      BY <1>3, <1>9
    <3>2. reg' = reg /\ dev' = d
      BY <1>2, <1>9, <3>1, LinesLow
    <3>3. sclOut' = sclOut /\ port' = port
      BY <1>2, LinesSet, Zenon
    <3>4. /\ ~sclOut /\ ~sclOut' /\ lib' = lib /\ ip' = ip /\ data' = data /\ reg' = reg
          /\ was' = was /\ Arg' = Arg /\ (port' <=> port)
      BY <1>1, <1>4, <1>9, <3>2, <3>3
    <3>5. /\ \A a, k : InWrite(dev, was, a, k, FALSE) => InWrite(dev', was, a, k, FALSE)
          /\ \A k : InRead(dev, was, k, FALSE) => InRead(dev', was, k, FALSE)
          /\ \A a : Written(dev, was, a) => Written(dev', was, a)
          /\ \A a : Read(dev, was, a) => Read(dev', was, a)
          /\ Started(dev, was) => Started(dev', was)
          /\ \A n : Ended(dev, was, n) => Ended(dev', was, n)
      BY <1>2, <1>3, <3>2, LooseKeeps
    <3> QED
      BY <3>4, <3>5, Zenon DEF Still
  <2>2. /\ StartInv => StartInv'
        /\ StopInv => StopInv'
        /\ UsiWriteInv => UsiWriteInv'
        /\ BitWriteInv => BitWriteInv'
        /\ UsiReadInv => UsiReadInv'
        /\ BitReadInv => BitReadInv'
    BY <2>1, StartStill, StopStill, UsiWriteStill, BitWriteStill, UsiReadStill, BitReadStill
  <2>3. /\ ThisCall.op = "start" => StartInv
        /\ ThisCall.op = "stop" => StopInv
        /\ ThisCall.op = "write" => IF lib = "usi" THEN UsiWriteInv ELSE BitWriteInv
        /\ ThisCall.op = "read" => IF lib = "usi" THEN UsiReadInv ELSE BitReadInv
    BY <1>5 DEF SyncInv
  <2> QED
    BY <1>1, <1>4, <1>6, <2>2, <2>3, Zenon DEF SyncInv
<1> QED
  BY <1>8, <1>9

LEMMA ResetSyncInv == ASSUME TypeInv, Reset \/ Plug PROVE SyncInv' /\ ~was'.sync
<1>1. was \in WasType
  BY DEF TypeInv
<1>2. CASE Reset
  BY <1>1, <1>2 DEF Reset, SyncInv, WasType
<1>3. CASE Plug
  BY <1>1, <1>3 DEF Plug, SyncInv, WasType
<1> QED
  BY <1>2, <1>3

-----------------------------------------------------------------------------
(* The end of a call *)

\* Between two bytes; the bit that comes first is on SDA already.
Rested(d) == d.n = 0 /\ d.in = 0 /\ (d.pull <=> d.mode = "send" /\ ~OneIn(d.out, 0))

LEMMA DeafRests == ASSUME NEW d, DevType(d), NEW w, Deaf(d, w) PROVE Rested(d) /\ d.mode = "idle"
BY DeviceFields DEF Deaf, Rested

LEMMA StartIsHeard ==
  ASSUME TypeInv, SyncInv, was.sync, ThisCall.op = "start", ip > Len(Steps)
  PROVE  StartHeard /\ Kept(dev, was)
<1>1. StartInv /\ was.attached = attached
  BY DEF SyncInv, TypeInv
<1>2. Steps = UsiStart \/ Steps = BitStart
  BY TheSteps DEF Steps, TypeInv
<1>3. ip = 5 \/ ip = 6
  <2>1. PICK n : n = Len(Steps)
    OBVIOUS
  <2>2. n = 4 \/ n = 5
    BY <1>2, <2>1, ShortSteps
  <2>3. ip \in 1 .. n + 1 /\ ip > n
    BY <2>1, CallIs
  <2> QED
    BY <2>2, <2>3
<1>4. Started(dev, was)
  BY <1>1, <1>3 DEF StartInv, LowIs
<1> QED
  BY <1>1, <1>4 DEF StartHeard, Started, ToReceive, Deaf

LEMMA StartEnds ==
  ASSUME TypeInv, DriverInv, StartHeard, ip > Len(Steps)
  PROVE  /\ Rested(dev) /\ dev.mode = (IF attached THEN "address" ELSE "idle")
         /\ ~sclOut /\ (lib = "usi" => port)
<1>1. ThisCall.op = "start" /\ (~attached \/ (dev.mode = "address" /\ dev.n = 0))
  BY DEF StartHeard
<1>2. DevType(dev) /\ (~attached => dev.mode = "idle" /\ ~dev.pull)
  BY DEF TypeInv, LineTypes
<1>5. ~sclOut /\ (lib = "usi" => port)
  <2>1. CASE lib = "usi"
    <3>1. Steps = UsiStart /\ Len(UsiStart) = 5
      BY <1>1, <2>1, TheSteps, ShortSteps DEF Steps
    <3>2. ip = 6
      BY <3>1, CallIs
    <3> QED
      BY <1>1, <3>2 DEF DriverInv
  <2>2. CASE lib = "bitbang"
    <3>1. Steps = BitStart /\ Len(BitStart) = 4
      BY <1>1, <2>2, TheSteps, ShortSteps DEF Steps
    <3>2. ip = 5
      BY <3>1, CallIs
    <3> QED
      BY <1>1, <2>2, <3>2 DEF DriverInv
  <2> QED
    BY <2>1, <2>2 DEF TypeInv
<1>3. CASE attached
  <2>1. dev.in \in 0 .. 127 /\ dev.in < 2 ^ dev.n /\ ~dev.pull /\ dev.n = 0
    BY <1>1, <1>2, <1>3, DeviceFields
  <2>2. dev.in = 0
    <3>1. 2 ^ 0 = 1
      OBVIOUS
    <3>2. 2 ^ dev.n = 1
      BY <2>1, <3>1, Zenon
    <3>3. PICK x : x = dev.in
      OBVIOUS
    <3>4. x \in 0 .. 127 /\ x < 1
      BY <2>1, <3>2, <3>3
    <3>5. x = 0
      BY <3>4
    <3> QED
      BY <3>3, <3>5, Zenon
  <2> QED
    BY <1>1, <1>3, <2>1, <2>2, <1>5 DEF Rested
<1>4. CASE ~attached
  BY <1>2, <1>4, <1>5, DeviceFields DEF Rested
<1> QED
  BY <1>3, <1>4, <1>5

LEMMA StopEnds ==
  ASSUME TypeInv, SyncInv, was.sync, ThisCall.op = "stop", ip > Len(Steps)
  PROVE  High(port /\ latch /\ Deaf(dev, was))
<1>1. StopInv
  BY DEF SyncInv
<1>2. Steps = UsiStop \/ Steps = BitStop
  BY TheSteps DEF Steps, TypeInv
<1>3. ip = 5
  <2>1. Len(Steps) = 4
    BY <1>2, ShortSteps
  <2> QED
    BY <2>1, CallIs
<1> QED
  BY <1>1, <1>3 DEF StopInv

LEMMA WriteEnds ==
  ASSUME TypeInv, SyncInv, was.sync, ThisCall.op = "write", ip > Len(Steps)
  PROVE  /\ ~sclOut /\ data % 2 = AckBit(was) /\ Written(dev, was, Arg)
         /\ lib = "usi" => port /\ reg = 255
<1>1. CASE lib = "usi"
  <2>1. UsiWriteInv
    BY <1>1 DEF SyncInv
  <2>2. Steps = UsiWriteByte /\ Len(UsiWriteByte) = 34
    BY <1>1, TheSteps, UsiWriteSteps DEF Steps
  <2>3. ip \in 34 .. 35
    BY <2>2, CallIs
  <2>4. LowIs(port /\ reg = 255 /\ data % 2 = AckBit(was) /\ Written(dev, was, Arg))
    BY <2>1, <2>3, Zenon DEF UsiWriteInv
  <2> QED
    BY <2>4 DEF LowIs
<1>2. CASE lib = "bitbang"
  <2>1. BitWriteInv
    BY <1>2 DEF SyncInv
  <2>2. Steps = BitWriteByte /\ Len(BitWriteByte) = 40
    BY <1>2, TheSteps, BitWriteSteps DEF Steps
  <2>3. ip = 41
    BY <2>2, CallIs
  <2>4. LowIs(data % 2 = AckBit(was) /\ Written(dev, was, Arg))
    BY <2>1, <2>3, Zenon DEF BitWriteInv
  <2> QED
    BY <1>2, <2>4 DEF LowIs
<1> QED
  BY <1>1, <1>2 DEF TypeInv

LEMMA ReadEnds ==
  ASSUME TypeInv, SyncInv, was.sync, ThisCall.op = "read", ip > Len(Steps)
  PROVE  /\ ~sclOut /\ data = Offered(was) /\ Read(dev, was, Arg)
         /\ lib = "usi" => port /\ reg = 255
<1>1. CASE lib = "usi"
  <2>1. UsiReadInv
    BY <1>1 DEF SyncInv
  <2>2. Steps = UsiReadByte /\ Len(UsiReadByte) = 34
    BY <1>1, TheSteps, UsiReadSteps DEF Steps
  <2>3. ip = 35
    BY <2>2, CallIs
  <2>4. LowIs(port /\ data = Offered(was) /\ reg = 255 /\ Read(dev, was, Arg))
    BY <2>1, <2>3, Zenon DEF UsiReadInv
  <2> QED
    BY <2>4 DEF LowIs
<1>2. CASE lib = "bitbang"
  <2>1. BitReadInv
    BY <1>2 DEF SyncInv
  <2>2. Steps = BitReadByte /\ Len(BitReadByte) = 46
    BY <1>2, TheSteps, BitReadSteps DEF Steps
  <2>3. ip = 47
    BY <2>2, CallIs
  <2>4. LowIs(data = Offered(was) /\ Read(dev, was, Arg))
    BY <2>1, <2>3, Zenon DEF BitReadInv
  <2> QED
    BY <1>2, <2>4 DEF LowIs
<1> QED
  BY <1>1, <1>2 DEF TypeInv

LEMMA WrittenRests ==
  ASSUME NEW d, DevType(d), NEW w, NEW a, Written(d, w, a)
  PROVE  /\ Rested(d)
         /\ d.mode = IF w.attached
                     THEN IF w.mode = "address" /\ a = Own + 1 THEN "send" ELSE "receive"
                     ELSE "idle"
<1>0. d.pull \in BOOLEAN
  BY DeviceFields
<1>1. CASE w.attached
  BY <1>0, <1>1 DEF Written, ToSend, ToReceive, Rested
<1>2. CASE ~w.attached
  BY <1>2, DeafRests DEF Written
<1> QED
  BY <1>1, <1>2

LEMMA ReadRests ==
  ASSUME NEW d, DevType(d), NEW w, NEW a, Read(d, w, a)
  PROVE  Rested(d) /\ d.mode = IF w.attached /\ a < 128 THEN "send" ELSE "idle"
<1>0. d.pull \in BOOLEAN
  BY DeviceFields
<1>1. CASE w.attached /\ a < 128
  BY <1>0, <1>1 DEF Read, ToSend, Rested
<1>2. CASE ~(w.attached /\ a < 128)
  BY <1>2, DeafRests DEF Read
<1> QED
  BY <1>1, <1>2

\* What the next call finds.
LEMMA CallEnds ==
  ASSUME TypeInv, DriverInv, SyncInv, ip > Len(Steps), was.sync \/ StartHeard
  PROVE  /\ Rested(dev) /\ job # "init"
         /\ ThisCall.op # "stop" => ~sclOut /\ (lib = "usi" => port)
         /\ ThisCall.op # "stop" /\ ThisCall.op # "start" => (lib = "usi" => reg = 255)
         /\ ThisCall.op = "stop" => sclOut /\ ~dev.stretch /\ port /\ latch /\ dev.mode = "idle"
         /\ ThisCall.op = "start" => dev.mode = (IF attached THEN "address" ELSE "idle")
         /\ ThisCall.op = "write" =>
              dev.mode = IF attached
                         THEN IF was.mode = "address" /\ Arg = Own + 1 THEN "send" ELSE "receive"
                         ELSE "idle"
         /\ ThisCall.op = "read" => dev.mode = IF attached /\ Arg < 128 THEN "send" ELSE "idle"
<1>0. DevType(dev) /\ was.attached = attached /\ job \in Jobs /\ at \in 1 .. Len(Calls[job])
  BY DEF TypeInv, LineTypes
<1>1. CASE ThisCall.op = "start"
  <2>1. StartHeard
    BY <1>1, StartIsHeard
  <2>2. job # "init"
    BY <1>0, <1>1, TheCalls DEF ThisCall
  <2> QED
    BY <1>1, <2>1, <2>2, StartEnds
<1>2. CASE ThisCall.op # "start"
  <2>0. was.sync /\ job # "init"
    BY <1>2 DEF StartHeard, SyncInv
  <2>1. CASE ThisCall.op = "stop"
    <3>1. High(port /\ latch /\ Deaf(dev, was))
      BY <2>0, <2>1, StopEnds
    <3>2. sclOut /\ ~dev.stretch /\ port /\ latch /\ Deaf(dev, was)
      BY <3>1 DEF High
    <3> QED
      BY <1>0, <2>0, <2>1, <3>2, DeafRests
  <2>2. CASE ThisCall.op = "write"
    <3>1. /\ ~sclOut /\ Written(dev, was, Arg)
          /\ lib = "usi" => port /\ reg = 255
      BY <2>0, <2>2, WriteEnds
    <3>2. /\ Rested(dev)
          /\ dev.mode = IF was.attached
                        THEN IF was.mode = "address" /\ Arg = Own + 1 THEN "send" ELSE "receive"
                        ELSE "idle"
      BY <1>0, <3>1, WrittenRests
    <3> QED
      BY <1>0, <2>0, <2>2, <3>1, <3>2
  <2>3. CASE ThisCall.op = "read"
    <3>1. /\ ~sclOut /\ Read(dev, was, Arg)
          /\ lib = "usi" => port /\ reg = 255
      BY <2>0, <2>3, ReadEnds
    <3>2. Rested(dev) /\ dev.mode = IF was.attached /\ Arg < 128 THEN "send" ELSE "idle"
      BY <1>0, <3>1, ReadRests
    <3> QED
      BY <1>0, <2>0, <2>3, <3>1, <3>2
  <2>4. ThisCall.op # "init"
    BY <1>0, <2>0, TheCalls DEF ThisCall
  <2> QED
    BY <1>2, <2>1, <2>2, <2>3, <2>4, CallIs
<1> QED
  BY <1>1, <1>2

-----------------------------------------------------------------------------
(* A call returns, and the next begins *)

\* At its first step a call has nothing behind it.
LEMMA FirstStep ==
  ASSUME ip' = 1
  PROVE  /\ High(port /\ latch /\ Deaf(dev, was))' => StartInv'
         /\ LowIs((lib = "usi" => reg = 255) /\ Ended(dev, was, 0))' => StopInv'
         /\ LowIs(port /\ InWrite(dev, was, Arg, 0, FALSE))' => UsiWriteInv'
         /\ LowIs(InWrite(dev, was, Arg, 0, FALSE))' => BitWriteInv'
         /\ LowIs(port /\ InRead(dev, was, 0, FALSE))' => UsiReadInv'
         /\ LowIs(InRead(dev, was, 0, FALSE))' => BitReadInv'
<1>1. High(port /\ latch /\ Deaf(dev, was))' => StartInv'
  BY DEF StartInv
<1>2. LowIs((lib = "usi" => reg = 255) /\ Ended(dev, was, 0))' => StopInv'
  BY DEF StopInv
<1>3. LowIs(port /\ InWrite(dev, was, Arg, 0, FALSE))' => UsiWriteInv'
  <2>1. \A i \in 0 .. 7 : ip' # 3 + 3 * i /\ ip' # 4 + 3 * i /\ ip' # 5 + 3 * i
    OBVIOUS
  <2>2. ip' # 2 /\ ip' # 27 /\ ip' # 31 /\ ip' # 32 /\ ip' # 33
    OBVIOUS
  <2>3. ip' \notin 28 .. 30 /\ ip' \notin 34 .. 35
    OBVIOUS
  <2> QED
    BY <2>1, <2>2, <2>3, Zenon DEF UsiWriteInv
<1>4. LowIs(InWrite(dev, was, Arg, 0, FALSE))' => BitWriteInv'
  <2>1. \A i \in 0 .. 7 : ip' # 2 + 4 * i /\ ip' # 3 + 4 * i /\ ip' # 4 + 4 * i /\ ip' # 5 + 4 * i
    OBVIOUS
  <2>2. ip' # 34 /\ ip' # 35 /\ ip' # 36 /\ ip' # 37 /\ ip' # 38 /\ ip' # 39 /\ ip' # 40 /\ ip' # 41
    OBVIOUS
  <2> QED
    BY <2>1, <2>2, Zenon DEF BitWriteInv
<1>5. LowIs(port /\ InRead(dev, was, 0, FALSE))' => UsiReadInv'
  <2>1. \A i \in 0 .. 7 : ip' # 3 + 3 * i /\ ip' # 4 + 3 * i /\ ip' # 5 + 3 * i
    OBVIOUS
  <2>2. ip' # 2 /\ ip' # 27 /\ ip' # 32 /\ ip' # 33 /\ ip' # 34 /\ ip' # 35
    OBVIOUS
  <2>3. ip' \notin 28 .. 29 /\ ip' \notin 30 .. 31
    OBVIOUS
  <2> QED
    BY <2>1, <2>2, <2>3, Zenon DEF UsiReadInv
<1>6. LowIs(InRead(dev, was, 0, FALSE))' => BitReadInv'
  <2>1. \A i \in 0 .. 7 : ip' # 2 + 5 * i /\ ip' # 3 + 5 * i /\ ip' # 4 + 5 * i
                          /\ ip' # 5 + 5 * i /\ ip' # 6 + 5 * i
    OBVIOUS
  <2>2. ip' # 42 /\ ip' # 43 /\ ip' # 44 /\ ip' # 45 /\ ip' # 46 /\ ip' # 47
    OBVIOUS
  <2> QED
    BY <2>1, <2>2, Zenon DEF BitReadInv
<1> QED
  BY <1>1, <1>2, <1>3, <1>4, <1>5, <1>6, Zenon

\* What a call begins with, from what the one before left.
Left4(d, w) == Rested(d) /\ Kept(d, w) /\ d.mode = w.mode

LEMMA Begins ==
  ASSUME NEW d, NEW w, DevType(d), Left4(d, w), ~w.attached => d.mode = "idle", NEW a \in 0 .. 255
  PROVE  /\ d.mode = "idle" => Deaf(d, w) /\ Ended(d, w, 0)
         /\ d.mode = "receive" => Ended(d, w, 0)
         /\ (w.attached => d.mode \in {"address", "receive"}) => InWrite(d, w, a, 0, FALSE)
         /\ (w.attached => d.mode = "send") => InRead(d, w, 0, FALSE)
<1>0. /\ d.n = 0 /\ d.in = 0 /\ (d.pull <=> d.mode = "send" /\ ~OneIn(d.out, 0)) /\ Kept(d, w)
      /\ d.mode = w.mode /\ d.pull \in BOOLEAN
  BY DeviceFields DEF Left4, Rested
<1>1. d.mode = "idle" => Deaf(d, w) /\ Ended(d, w, 0)
  BY <1>0 DEF Deaf, Ended
<1>2. d.mode = "receive" => Ended(d, w, 0)
  BY <1>0 DEF Ended, Kept
<1>3. ASSUME w.attached => d.mode \in {"address", "receive"}
      PROVE  InWrite(d, w, a, 0, FALSE)
  <2>1. CASE w.attached
    <3>1. a \div 2 ^ (8 - 0) = 0
      <4>1. 2 ^ (8 - 0) = 256 /\ a \div 256 = 0
        OBVIOUS
      <4> QED
        BY <4>1
    <3>2. d.pull = FALSE
      BY <1>0, <1>3, <2>1
    <3> QED
      BY <1>0, <1>3, <2>1, <3>1, <3>2 DEF InWrite, Hearing, Kept
  <2>2. CASE ~w.attached
    BY <1>1, <2>2 DEF InWrite
  <2> QED
    BY <2>1, <2>2
<1>4. ASSUME w.attached => d.mode = "send"
      PROVE  InRead(d, w, 0, FALSE)
  <2>1. CASE w.attached
    BY <1>0, <1>4, <2>1 DEF InRead, Sending
  <2>2. CASE ~w.attached
    BY <1>1, <2>2 DEF InRead
  <2> QED
    BY <2>1, <2>2
<1> QED
  BY <1>1, <1>2, <1>3, <1>4

\* Which call follows which.
LEMMA NextMode ==
  ASSUME TypeInv, DriverInv, SyncInv, Return, was.sync \/ StartHeard
  PROVE  /\ dev.mode = IF attached THEN ModeAt' ELSE "idle"
         /\ ThisCall'.op = "start" <=> ThisCall.op = "stop"
         /\ ThisCall'.op = "start" => ModeAt' = "idle"
         /\ ThisCall'.op = "write" => ModeAt' \in {"address", "receive"}
         /\ ThisCall'.op = "read" => ModeAt' = "send"
         /\ ThisCall'.op = "stop" =>
              ModeAt' \in {"receive", "idle"} /\ ThisCall.op \in {"write", "read"}
<1>1. /\ job \in Jobs /\ at \in 1 .. Len(Calls[job]) /\ was.attached = attached
      /\ was.sync => was.mode = IF attached THEN ModeAt ELSE "idle"
  BY DEF TypeInv, SyncInv
<1>2. /\ job' \in {"connect", "select", "fetch"} /\ at' \in 1 .. Len(Calls[job'])
      /\ at < Len(Calls[job]) => job' = job /\ at' = at + 1
      /\ ~(at < Len(Calls[job])) => at' = 1
  BY NextCall
<1>3. ip > Len(Steps)
  BY DEF Return
<1>4. /\ job # "init"
      /\ ThisCall.op = "stop" => dev.mode = "idle"
      /\ ThisCall.op = "start" => dev.mode = (IF attached THEN "address" ELSE "idle")
      /\ ThisCall.op = "write" =>
           dev.mode = IF attached
                      THEN IF was.mode = "address" /\ Arg = Own + 1 THEN "send" ELSE "receive"
                      ELSE "idle"
      /\ ThisCall.op = "read" => dev.mode = IF attached /\ Arg < 128 THEN "send" ELSE "idle"
  BY <1>3, CallEnds
<1> DEFINE n == Len(Calls[job])
           n2 == Len(Calls[job'])
<1>5. /\ at \in 1 .. 9 /\ n \in 1 .. 9
      /\ (job = "connect" => n = 5) /\ (job = "select" => n = 4) /\ (job = "fetch" => n = 9)
      /\ ThisCall.op = "start" <=> at = 1
      /\ ThisCall.op = "stop" <=> at = n
      /\ ThisCall.op = "write" <=> at = 2 \/ (at > 2 /\ at < n /\ job # "fetch")
      /\ ThisCall.op = "read" <=> job = "fetch" /\ at \in 3 .. 8
      /\ ThisCall.op = "write" /\ at = 2 => Arg = IF job = "fetch" THEN Own + 1 ELSE Own
      /\ ThisCall.op = "read" => Arg = IF at = 8 THEN 255 ELSE 0
  BY <1>1, <1>4, TheCalls DEF ThisCall, Arg
<1>6. /\ at' \in 1 .. 9 /\ n2 \in 1 .. 9
      /\ (job' = "connect" => n2 = 5) /\ (job' = "select" => n2 = 4) /\ (job' = "fetch" => n2 = 9)
      /\ ThisCall'.op = "start" <=> at' = 1
      /\ ThisCall'.op = "stop" <=> at' = n2
      /\ ThisCall'.op = "write" <=> at' = 2 \/ (at' > 2 /\ at' < n2 /\ job' # "fetch")
      /\ ThisCall'.op = "read" <=> job' = "fetch" /\ at' \in 3 .. 8
  <2>1. job' \in Jobs /\ job' # "init" /\ ThisCall' = Calls[job'][at']
    BY <1>2 DEF ThisCall, Jobs
  <2> QED
    BY <1>2, <2>1, TheCalls
<1>7. at < n => n2 = n
  BY <1>2
<1>8. at \in 1 .. n /\ at' \in 1 .. n2
  BY <1>1, <1>2
<1>9. job \in {"connect", "select", "fetch"}
  BY <1>1, <1>4 DEF Jobs
<1>10. /\ at < n => job' = job /\ at' = at + 1
       /\ ~(at < n) => at' = 1
  BY <1>2
<1> HIDE DEF n, n2
<1>11. ModeAt' = CASE at' = 1 -> "idle" [] at' = 2 -> "address"
                   [] at' > 2 /\ job' = "fetch" -> IF at' < 9 THEN "send" ELSE "idle"
                   [] OTHER -> "receive"
  BY DEF ModeAt
<1>12. /\ at' = 1 => ModeAt' = "idle"
       /\ at' = 2 => ModeAt' = "address"
       /\ at' > 2 /\ job' = "fetch" /\ at' < 9 => ModeAt' = "send"
       /\ at' > 2 /\ job' = "fetch" /\ ~(at' < 9) => ModeAt' = "idle"
       /\ at' > 2 /\ job' # "fetch" => ModeAt' = "receive"
  BY <1>6, <1>11
<1>13. /\ at = 1 => ModeAt = "idle"
       /\ at = 2 => ModeAt = "address"
       /\ at > 2 /\ job # "fetch" => ModeAt = "receive"
  BY <1>5 DEF ModeAt
<1>14. /\ ThisCall'.op = "start" <=> ThisCall.op = "stop"
       /\ ThisCall'.op = "start" => ModeAt' = "idle"
       /\ ThisCall'.op = "write" => ModeAt' \in {"address", "receive"}
       /\ ThisCall'.op = "read" => ModeAt' = "send"
  BY <1>5, <1>6, <1>8, <1>9, <1>10, <1>12
<1>15. ThisCall'.op = "stop" =>
         ModeAt' \in {"receive", "idle"} /\ ThisCall.op \in {"write", "read"}
  BY <1>5, <1>6, <1>7, <1>8, <1>9, <1>10, <1>12
<1>16. dev.mode = IF attached THEN ModeAt' ELSE "idle"
  <2>1. CASE ThisCall.op = "start"
    BY <1>4, <1>5, <1>9, <1>10, <1>12, <2>1
  <2>2. CASE ThisCall.op = "stop"
    BY <1>4, <1>5, <1>10, <1>12, <2>2
  <2>3. CASE ThisCall.op = "write"
    <3>1. was.sync
      BY <2>3 DEF StartHeard
    <3>2. attached => was.mode = ModeAt
      BY <1>1, <3>1
    <3>3. CASE at = 2
      BY <1>4, <1>5, <1>9, <1>10, <1>12, <1>13, <2>3, <3>2, <3>3 DEF Own
    <3>4. CASE at > 2 /\ at < n /\ job # "fetch"
      BY <1>4, <1>5, <1>9, <1>10, <1>12, <1>13, <2>3, <3>2, <3>4
    <3> QED
      BY <1>5, <2>3, <3>3, <3>4
  <2>4. CASE ThisCall.op = "read"
    BY <1>4, <1>5, <1>10, <1>12, <2>4
  <2>5. ThisCall.op # "init"
    BY <1>1, <1>4, TheCalls DEF ThisCall
  <2> QED
    BY <2>1, <2>2, <2>3, <2>4, <2>5, CallIs
<1> QED
  BY <1>14, <1>15, <1>16

LEMMA ReturnSyncInv ==
  ASSUME TypeInv, DriverInv, SyncInv, Return
  PROVE  SyncInv'
<1>1. /\ ip' = 1 /\ UNCHANGED <<lib, data, ddr, port, reg, latch, sclOut, dev, attached, faults>>
      /\ job' \in {"connect", "select", "fetch"}
      /\ ThisCall' \in CallType /\ ThisCall'.op # "init"
  BY NextCall
<1>2. CASE ~(was.sync \/ StartHeard)
  <2>1. was' = was
    BY <1>2 DEF Return
  <2> QED
    BY <1>2, <2>1 DEF SyncInv
<1>3. CASE was.sync \/ StartHeard
  <2>1. was' = Outcome
    BY <1>3 DEF Return
  <2>2. /\ was'.mode = dev.mode /\ was'.got = dev.got /\ was'.offer = dev.out
        /\ was'.attached = attached
    BY <2>1 DEF Outcome
  <2>3. ip > Len(Steps)
    BY DEF Return
  <2>4. /\ Rested(dev)
        /\ ThisCall.op # "stop" => ~sclOut /\ (lib = "usi" => port)
        /\ ThisCall.op # "stop" /\ ThisCall.op # "start" => (lib = "usi" => reg = 255)
        /\ ThisCall.op = "stop" => sclOut /\ ~dev.stretch /\ port /\ latch
    BY <1>3, <2>3, CallEnds
  <2>5. /\ dev.mode = IF attached THEN ModeAt' ELSE "idle"
        /\ ThisCall'.op = "start" <=> ThisCall.op = "stop"
        /\ ThisCall'.op = "start" => ModeAt' = "idle"
        /\ ThisCall'.op = "write" => ModeAt' \in {"address", "receive"}
        /\ ThisCall'.op = "read" => ModeAt' = "send"
        /\ ThisCall'.op = "stop" =>
             ModeAt' \in {"receive", "idle"} /\ ThisCall.op \in {"write", "read"}
    BY <1>3, NextMode
  <2>6. DevType(dev) /\ attached \in BOOLEAN
    BY DEF TypeInv, LineTypes
  <2>7. Left4(dev, was')
    BY <2>2, <2>4 DEF Left4, Kept
  <2>8. ~was'.attached => dev.mode = "idle"
    BY <2>2, <2>5
  <2>9. Arg' \in 0 .. 255
    BY <1>1 DEF CallType, Arg
  <2>10. /\ dev.mode = "idle" => Deaf(dev, was') /\ Ended(dev, was', 0)
         /\ dev.mode = "receive" => Ended(dev, was', 0)
         /\ (was'.attached => dev.mode \in {"address", "receive"})
              => InWrite(dev, was', Arg', 0, FALSE)
         /\ (was'.attached => dev.mode = "send") => InRead(dev, was', 0, FALSE)
    BY <2>6, <2>7, <2>8, <2>9, Begins
  <2>11. dev' = dev /\ (sclOut' <=> sclOut) /\ (port' <=> port) /\ (latch' <=> latch)
         /\ reg' = reg /\ lib' = lib
    BY <1>1
  <2>12. ThisCall'.op = "start" => StartInv'
    <3> SUFFICES ASSUME ThisCall'.op = "start"
                 PROVE  StartInv'
      OBVIOUS
    <3>1. Deaf(dev, was')
      BY <2>5, <2>10
    <3>2. sclOut /\ ~dev.stretch /\ port /\ latch
      BY <2>4, <2>5
    <3>3. High(port /\ latch /\ Deaf(dev, was))'
      BY <2>11, <3>1, <3>2, Zenon DEF High
    <3> QED
      BY <1>1, <3>3, FirstStep
  <2>13. ThisCall'.op = "stop" => StopInv'
    <3> SUFFICES ASSUME ThisCall'.op = "stop"
                 PROVE  StopInv'
      OBVIOUS
    <3>1. Ended(dev, was', 0)
      BY <2>5, <2>6, <2>10
    <3>2. ~sclOut /\ (lib = "usi" => reg = 255)
      BY <2>4, <2>5
    <3>3. LowIs((lib = "usi" => reg = 255) /\ Ended(dev, was, 0))'
      BY <2>11, <3>1, <3>2, Zenon DEF LowIs
    <3> QED
      BY <1>1, <3>3, FirstStep
  <2>14. ThisCall'.op \in {"write", "read"} => ~sclOut /\ (lib = "usi" => port)
    BY <2>4, <2>5
  <2>15. ThisCall'.op = "write" => IF lib' = "usi" THEN UsiWriteInv' ELSE BitWriteInv'
    <3> SUFFICES ASSUME ThisCall'.op = "write"
                 PROVE  IF lib' = "usi" THEN UsiWriteInv' ELSE BitWriteInv'
      OBVIOUS
    <3>1. InWrite(dev, was', Arg', 0, FALSE)
      BY <2>2, <2>5, <2>10
    <3>2. ~sclOut /\ (lib = "usi" => port)
      BY <2>14
    <3>3. LowIs(InWrite(dev, was, Arg, 0, FALSE))'
      BY <2>11, <3>1, <3>2, Zenon DEF LowIs
    <3>4. lib' = "usi" => LowIs(port /\ InWrite(dev, was, Arg, 0, FALSE))'
      BY <2>11, <3>1, <3>2, Zenon DEF LowIs
    <3>5. BitWriteInv' /\ (lib' = "usi" => UsiWriteInv')
      BY <1>1, <3>3, <3>4, FirstStep, Zenon
    <3> QED
      BY <3>5
  <2>16. ThisCall'.op = "read" => IF lib' = "usi" THEN UsiReadInv' ELSE BitReadInv'
    <3> SUFFICES ASSUME ThisCall'.op = "read"
                 PROVE  IF lib' = "usi" THEN UsiReadInv' ELSE BitReadInv'
      OBVIOUS
    <3>1. InRead(dev, was', 0, FALSE)
      BY <2>2, <2>5, <2>10
    <3>2. ~sclOut /\ (lib = "usi" => port)
      BY <2>14
    <3>3. LowIs(InRead(dev, was, 0, FALSE))'
      BY <2>11, <3>1, <3>2, Zenon DEF LowIs
    <3>4. lib' = "usi" => LowIs(port /\ InRead(dev, was, 0, FALSE))'
      BY <2>11, <3>1, <3>2, Zenon DEF LowIs
    <3>5. BitReadInv' /\ (lib' = "usi" => UsiReadInv')
      BY <1>1, <3>3, <3>4, FirstStep, Zenon
    <3> QED
      BY <3>5
  <2>17. job' # "init" /\ was'.mode = IF attached' THEN ModeAt' ELSE "idle"
    BY <1>1, <2>2, <2>5
  <2> QED
    BY <2>12, <2>13, <2>15, <2>16, <2>17, Zenon DEF SyncInv
<1> QED
  BY <1>2, <1>3

-----------------------------------------------------------------------------
(* The invariant *)

LEMMA LibraryIs == ASSUME Library PROVE ip <= Len(Steps) \/ Return
BY Zenon DEF Library, SdaHigh, SdaLow, SclHigh, SclLow, AwaitScl, SdaInput, SdaOutput, Enable, Load,
   Take, Drop, Clear, NextBit, Nack, SampleBit, Do

LEMMA I2cNext == I2cInv /\ [Next]_vars => I2cInv'
<1> SUFFICES ASSUME I2cInv, [Next]_vars
             PROVE  I2cInv'
  OBVIOUS
<1>0. TypeInv /\ DriverInv /\ SyncInv
  BY DEF I2cInv
<1>1. CASE Library /\ ip <= Len(Steps)
  BY <1>0, <1>1, StepTypeInv, StepDriverInv, StepSyncInv DEF I2cInv
<1>2. CASE Return
  BY <1>0, <1>2, ReturnTypeInv, ReturnSyncInv DEF I2cInv
<1>3. CASE Release
  BY <1>0, <1>3, ReleaseTypeInv, ReleaseSyncInv DEF I2cInv
<1>4. CASE Reset
  BY <1>0, <1>4, ResetTypeInv, ResetSyncInv DEF I2cInv
<1>5. CASE Plug
  BY <1>0, <1>5, PlugTypeInv, ResetSyncInv DEF I2cInv
<1>6. CASE UNCHANGED vars
  <2>1. UNCHANGED <<lib, job, at, ip, data, ddr, port, reg, latch, sclOut, dev, attached, was>>
    BY <1>6 DEF vars, driver
  <2>2. ThisCall' = ThisCall /\ Steps' = Steps /\ (Scl' <=> Scl) /\ ModeAt' = ModeAt
    BY <2>1 DEF ThisCall, Steps, Scl, ModeAt
  <2>3. TypeInv'
    BY <1>0, <2>1, <2>2 DEF TypeInv, LineTypes
  <2>4. DriverInv'
    BY <1>0, <2>1, <2>2 DEF DriverInv
  <2>5. /\ StartInv' <=> StartInv
        /\ StopInv' <=> StopInv
    BY <2>1 DEF StartInv, StopInv, High, LowIs, Rising, StopLow, StopHigh
  <2>6. Arg' = Arg
    BY <2>2 DEF Arg
  <2>7. /\ UsiWriteInv' <=> UsiWriteInv
        /\ BitWriteInv' <=> BitWriteInv
    BY <2>1, <2>6 DEF UsiWriteInv, BitWriteInv, High, LowIs, Rising, UsiWriteLow, UsiWriteHigh,
         UsiAckLow, UsiAckHigh, BitWriteLow, BitWriteHigh, BitAckLow, BitAckHigh
  <2>8. /\ UsiReadInv' <=> UsiReadInv
        /\ BitReadInv' <=> BitReadInv
    BY <2>1, <2>6 DEF UsiReadInv, BitReadInv, High, LowIs, Rising, UsiReadLow, UsiReadHigh,
         UsiNackLow, UsiNackHigh, BitReadLow, BitReadHigh, BitReadTaken, BitNackLow, BitNackHigh
  <2>9. SyncInv'
    BY <1>0, <2>1, <2>2, <2>5, <2>7, <2>8 DEF SyncInv
  <2> QED
    BY <2>3, <2>4, <2>9 DEF I2cInv
<1> QED
  BY <1>1, <1>2, <1>3, <1>4, <1>5, <1>6, LibraryIs DEF Next

\* While the library and the controller agree on where a byte begins, every step of a call finds the
\* pins, the registers and the controller where the clocks counted so far put them.
LEMMA I2cInvariant == Spec => []I2cInv
BY InitInv, I2cNext, PTL DEF Spec

-----------------------------------------------------------------------------
(* Each call that returns is one call of I2cBytes *)

LEMMA PromiseInit == Init => Promise!Init
<1> SUFFICES ASSUME Init
             PROVE  Promise!Init
  OBVIOUS
<1>1. was = [call |-> Op("init"), ret |-> 0, mode |-> "idle", got |-> 0, offer |-> dev.out,
             attached |-> attached, sync |-> FALSE]
      /\ dev = Powered /\ attached \in BOOLEAN
  BY DEF Init
<1>2. dev.out \in Bytes
  BY <1>1, PoweredType
<1> QED
  BY <1>1, <1>2 DEF Promise!Init, Op

\* What the history says after a call.
LEMMA TheOutcome ==
  ASSUME TypeInv, Return, was.sync \/ StartHeard
  PROVE  /\ was'.call.op = ThisCall.op /\ was'.call.arg = Arg
         /\ was'.mode = dev.mode /\ was'.got = dev.got /\ was'.offer = dev.out
         /\ was'.attached = was.attached /\ was'.sync = TRUE
         /\ ThisCall.op = "write" => was'.ret = data % 2
         /\ ThisCall.op = "read" => was'.ret = data
         /\ ThisCall.op \notin {"write", "read"} => was'.ret = was.ret
<1>1. was' = Outcome
  BY DEF Return
<1>2. was.attached = attached
  BY DEF TypeInv
<1> QED
  BY <1>1, <1>2 DEF Outcome, Arg

LEMMA StartCall ==
  ASSUME TypeInv, DriverInv, SyncInv, Return, was.sync, ThisCall.op = "start"
  PROVE  Promise!Call
<1>1. ip > Len(Steps)
  BY DEF Return
<1>2. StartHeard /\ Kept(dev, was)
  BY <1>1, StartIsHeard
<1>3. dev.mode = IF was.attached THEN "address" ELSE "idle"
  BY <1>1, <1>2, StartEnds DEF TypeInv
<1>4. was.sync = TRUE
  BY DEF TypeInv, WasType
<1>5. Promise!Start
  BY <1>2, <1>3, TheOutcome DEF Promise!Start, Kept
<1> QED
  BY <1>4, <1>5, TheOutcome DEF Promise!Call

LEMMA StopCall ==
  ASSUME TypeInv, DriverInv, SyncInv, Return, was.sync, ThisCall.op = "stop"
  PROVE  Promise!Call
<1>1. ip > Len(Steps)
  BY DEF Return
<1>2. Deaf(dev, was)
  BY <1>1, StopEnds DEF High
<1>4. was.sync = TRUE
  BY DEF TypeInv, WasType
<1>5. Promise!Stop
  BY <1>2, TheOutcome DEF Promise!Stop, Deaf, Kept
<1> QED
  BY <1>4, <1>5, TheOutcome DEF Promise!Call

LEMMA WriteCall ==
  ASSUME TypeInv, DriverInv, SyncInv, Return, was.sync, ThisCall.op = "write"
  PROVE  Promise!Call
<1>1. ip > Len(Steps)
  BY DEF Return
<1>2. data % 2 = AckBit(was) /\ Written(dev, was, Arg)
  BY <1>1, WriteEnds
<1>3. /\ was'.got = dev.got /\ was'.mode = dev.mode /\ was'.offer = dev.out /\ was'.ret = data % 2
      /\ was'.call.op = "write" /\ was'.call.arg = Arg /\ was'.attached = was.attached
      /\ was'.sync = TRUE
  BY TheOutcome
<1>4. was.sync = TRUE /\ dev.out \in Bytes /\ was.attached \in BOOLEAN /\ was.attached = attached
  BY DeviceFields DEF TypeInv, WasType, LineTypes
<1>5. /\ attached => was.mode = ModeAt
      /\ ~attached => was.mode = "idle"
      /\ job \in Jobs /\ at \in 1 .. Len(Calls[job])
  BY DEF SyncInv, TypeInv
<1>6. at = 2 => Arg \in {Own, Own + 1}
  BY <1>5, TheCalls DEF ThisCall, Arg
<1>7. /\ at = 2 => ModeAt = "address"
      /\ at # 2 => ModeAt = "receive"
  <2>1. at = 2 \/ (at > 2 /\ job # "fetch")
    BY <1>5, TheCalls DEF ThisCall
  <2> QED
    BY <2>1 DEF ModeAt
<1>8. CASE attached
  <2>1. was.mode \in {"address", "receive"} /\ (was.mode = "address" => Arg \in {Own, Own + 1})
    BY <1>5, <1>6, <1>7, <1>8
  <2>2. dev.got = Arg /\ data % 2 = 0
    BY <1>2, <1>4, <1>8 DEF Written, AckBit
  <2>3. IF was.mode = "address" /\ Arg = Own + 1 THEN dev.mode = "send"
        ELSE dev.mode = "receive" /\ dev.out = was.offer
    BY <1>2, <1>4, <1>8 DEF Written, ToSend, ToReceive
  <2>4. Promise!Write(Arg)
    BY <1>3, <1>4, <2>1, <2>2, <2>3 DEF Promise!Write
  <2> QED
    BY <1>3, <1>4, <2>4 DEF Promise!Call
<1>9. CASE ~attached
  <2>1. was.mode = "idle" /\ dev.mode = "idle" /\ Kept(dev, was) /\ data % 2 = 1
    BY <1>2, <1>4, <1>5, <1>9 DEF Written, Deaf, AckBit
  <2>2. Promise!Write(Arg)
    BY <1>3, <2>1 DEF Promise!Write, Promise!controller, Kept
  <2> QED
    BY <1>3, <1>4, <2>2 DEF Promise!Call
<1> QED
  BY <1>8, <1>9

LEMMA ReadCall ==
  ASSUME TypeInv, DriverInv, SyncInv, Return, was.sync, ThisCall.op = "read"
  PROVE  Promise!Call
<1>1. ip > Len(Steps)
  BY DEF Return
<1>2. data = Offered(was) /\ Read(dev, was, Arg)
  BY <1>1, ReadEnds
<1>3. /\ was'.got = dev.got /\ was'.mode = dev.mode /\ was'.offer = dev.out /\ was'.ret = data
      /\ was'.call.op = "read" /\ was'.call.arg = Arg /\ was'.attached = was.attached
      /\ was'.sync = TRUE
  BY TheOutcome
<1>4. /\ was.sync = TRUE /\ dev.out \in Bytes /\ was.attached \in BOOLEAN /\ was.attached = attached
      /\ Arg \in 0 .. 255
  BY DeviceFields, CallIs DEF TypeInv, WasType, LineTypes, Arg
<1>5. /\ attached => was.mode = ModeAt
      /\ ~attached => was.mode = "idle"
      /\ job \in Jobs /\ at \in 1 .. Len(Calls[job])
  BY DEF SyncInv, TypeInv
<1>6. ModeAt = "send"
  <2>1. at > 2 /\ job = "fetch" /\ at < 9
    BY <1>5, TheCalls DEF ThisCall
  <2> QED
    BY <2>1 DEF ModeAt
<1>7. CASE attached
  <2>1. was.mode = "send" /\ data = was.offer
    BY <1>2, <1>4, <1>5, <1>6, <1>7 DEF Offered
  <2>2. CASE Arg < 128
    <3>1. dev.mode = "send" /\ dev.got = was.got
      BY <1>2, <1>4, <1>7, <2>2 DEF Read, ToSend
    <3>2. ~(Arg >= 128)
      BY <1>4, <2>2
    <3>3. Promise!Read(Arg >= 128)
      BY <1>3, <1>4, <2>1, <3>1, <3>2 DEF Promise!Read
    <3> QED
      BY <1>3, <1>4, <3>3 DEF Promise!Call
  <2>3. CASE ~(Arg < 128)
    <3>1. dev.mode = "idle" /\ Kept(dev, was)
      BY <1>2, <1>4, <1>7, <2>3 DEF Read, Deaf
    <3>2. Arg >= 128
      BY <1>4, <2>3
    <3>3. Promise!Read(Arg >= 128)
      BY <1>3, <1>4, <2>1, <3>1, <3>2 DEF Promise!Read, Kept
    <3> QED
      BY <1>3, <1>4, <3>3 DEF Promise!Call
  <2> QED
    BY <2>2, <2>3
<1>8. CASE ~attached
  <2>1. was.mode = "idle" /\ dev.mode = "idle" /\ Kept(dev, was) /\ data = 255
    BY <1>2, <1>4, <1>5, <1>8 DEF Read, Deaf, Offered
  <2>2. Promise!Read(Arg >= 128)
    BY <1>3, <2>1 DEF Promise!Read, Promise!controller, Kept
  <2> QED
    BY <1>3, <1>4, <2>2 DEF Promise!Call
<1> QED
  BY <1>7, <1>8

\* A start that the controller takes part in, whatever there was before.
LEMMA HeardResync ==
  ASSUME TypeInv, DriverInv, Return, ~was.sync, StartHeard
  PROVE  Promise!Resync
<1>1. ip > Len(Steps) /\ ThisCall.op = "start"
  BY DEF Return, StartHeard
<1>2. dev.mode = IF was.attached THEN "address" ELSE "idle"
  BY <1>1, StartEnds DEF TypeInv
<1>3. dev.got \in 0 .. 255 /\ dev.out \in Bytes
  BY DeviceFields DEF TypeInv, LineTypes
<1> QED
  BY <1>1, <1>2, <1>3, TheOutcome DEF Promise!Resync

LEMMA PromiseNext == I2cInv /\ [Next]_vars => [Promise!Next]_was
<1> SUFFICES ASSUME I2cInv, Next
             PROVE  Promise!Next \/ was' = was
  BY DEF vars
<1>0. TypeInv /\ DriverInv /\ SyncInv
  BY DEF I2cInv
<1>1. CASE Library /\ ip <= Len(Steps)
  BY <1>0, <1>1, Stepping
<1>2. CASE Return
  <2>1. CASE was.sync
    <3>1. job # "init" /\ job \in Jobs /\ at \in 1 .. Len(Calls[job])
      BY <1>0, <2>1 DEF SyncInv, TypeInv
    <3>2. ThisCall.op # "init"
      BY <3>1, TheCalls DEF ThisCall
    <3>3. ThisCall.op \in {"start", "stop", "write", "read"}
      BY <1>0, <3>2, CallIs
    <3> QED
      BY <1>0, <1>2, <2>1, <3>3, StartCall, StopCall, WriteCall, ReadCall DEF Promise!Next
  <2>2. CASE ~was.sync /\ StartHeard
    BY <1>0, <1>2, <2>2, HeardResync DEF Promise!Next
  <2>3. CASE ~was.sync /\ ~StartHeard
    BY <1>2, <2>3 DEF Return
  <2> QED
    BY <2>1, <2>2, <2>3
<1>3. CASE Release
  BY <1>3 DEF Release
<1>4. CASE Reset
  <2>1. was' = [was EXCEPT !.sync = FALSE] /\ was \in WasType
    BY <1>0, <1>4 DEF Reset, TypeInv
  <2>2. Promise!Disturb
    BY <2>1 DEF Promise!Disturb, Promise!controller, WasType
  <2> QED
    BY <2>2 DEF Promise!Next
<1>5. CASE Plug
  <2>1. /\ was' = [was EXCEPT !.sync = FALSE, !.attached = attached'] /\ was \in WasType
        /\ attached' = ~attached
    BY <1>0, <1>5 DEF Plug, TypeInv
  <2>2. Promise!Disturb
    BY <2>1 DEF Promise!Disturb, Promise!controller, WasType
  <2> QED
    BY <2>2 DEF Promise!Next
<1> QED
  BY <1>1, <1>2, <1>3, <1>4, <1>5, LibraryIs DEF Next

\* Both libraries implement I2cBytes: the controller receives the bytes that are written to it, the
\* caller gets the acknowledge and the bytes that are sent, and the controller hears the last NACK,
\* whenever it stretches the clock, restarts or is unplugged.
THEOREM BytesKept == Spec => BytesRight
<1>1. I2cInv /\ [Next]_vars
      => [Promise!Next]_<<was.call, was.ret, Promise!controller, was.attached, was.sync>>
  <2>1. was' = was => UNCHANGED <<was.call, was.ret, Promise!controller, was.attached, was.sync>>
    BY DEF Promise!controller
  <2> QED
    BY <2>1, PromiseNext
<1> QED
  BY <1>1, PromiseInit, I2cInvariant, PTL DEF Spec, BytesRight, Promise!Spec
=============================================================================
