-------------------------------- MODULE I2c ---------------------------------
(***************************************************************************)
(* The two I2C libraries below nesminicontrollerdrv.c, bit by bit: "usi",  *)
(* i2c_primary.c, which shifts with the USI of the ATtiny85, and           *)
(* "bitbang", i2cattiny85.c, its deprecated predecessor with the same      *)
(* functions.  A function is the sequence of what it does to the pins; one *)
(* action is one of these steps, and the controller at the other end of    *)
(* the two lines reacts to each edge.  Both lines are pulled up: a line is *)
(* high when nobody pulls it low.                                          *)
(***************************************************************************)
EXTENDS Integers, Sequences

CONSTANTS
  Libraries,    \* which of "usi" and "bitbang"
  Bytes,        \* what the controller may send
  Stretching,   \* the controller may hold SCL low
  MaxFaults     \* restarts of the device, and hands at the plug

ASSUME BytesAssumption == Bytes \subseteq 0 .. 255 /\ Bytes # {}
ASSUME LibrariesAssumption == Libraries \subseteq {"usi", "bitbang"}
ASSUME StretchingAssumption == Stretching \in BOOLEAN
ASSUME MaxFaultsAssumption == MaxFaults \in Nat

Own == 164      \* NES_I2C_ADDRESS_WRITE

-----------------------------------------------------------------------------
(* i2c_primary.c.  "in" and "out" are the direction of SDA; "load" fills    *)
(* USIDR; "take" and "drop" end a transfer whose result is, or is not, used *)
(* and release SDA.                                                         *)

Times(n, steps) == [i \in 1 .. n * Len(steps) |-> steps[((i - 1) % Len(steps)) + 1]]

\* The counter overflows at 16 edges of SCL, from where the mask sets it.
USISR_CLOCK_8_BITS == 240
USISR_CLOCK_1_BIT == 254
Clocks(mask) == (16 - (mask % 16)) \div 2

UsiInit == <<"out", "scl0", "scl1", "sda1", "enable">>
\* Mutant: SCL is pulled low before SDA is.
BugUsiStart == <<"sda1", "scl1", "scl0", "sda0", "sda1">>
\* The loop after the release of SCL tests PORTB, not PINB: it never waits.
UsiStart == <<"sda1", "scl1", "sda0", "scl0", "sda1">>
\* Mutant: the stop does not wait for SCL.
BugUsiStop == <<"sda0", "scl1", "sda1">>
UsiStop == <<"sda0", "scl1", "await", "sda1">>
UsiTransfer(mask, result) ==
  <<"scl0">> \o Times(Clocks(mask), <<"scl1", "await", "scl0">>) \o <<result>>
UsiWriteByte ==
  <<"load">> \o UsiTransfer(USISR_CLOCK_8_BITS, "drop")
    \o <<"in">> \o UsiTransfer(USISR_CLOCK_1_BIT, "take") \o <<"out">>
\* Mutant: SDA is still an input when the acknowledge is clocked.
BugUsiReadByte ==
  <<"in">> \o UsiTransfer(USISR_CLOCK_8_BITS, "take")
    \o <<"load">> \o UsiTransfer(USISR_CLOCK_1_BIT, "drop") \o <<"out">>
UsiReadByte ==
  <<"in">> \o UsiTransfer(USISR_CLOCK_8_BITS, "take")
    \o <<"out", "load">> \o UsiTransfer(USISR_CLOCK_1_BIT, "drop")

(* i2cattiny85.c.  "msb" puts the next bit of the byte on SDA, "nack" the   *)
(* argument of i2c_read_byte; "sample" shifts SDA into the byte.            *)

BitStart == <<"sda1", "scl1", "sda0", "scl0">>
BitStop == <<"sda0", "scl1", "await", "sda1">>
WriteSingleBit(bit) == <<bit, "scl1", "await", "scl0">>
ReadSingleBit == <<"sda1", "scl1", "await", "sample", "scl0">>
BitWriteByte ==
  <<"load">> \o Times(8, WriteSingleBit("msb")) \o <<"clear">> \o ReadSingleBit \o <<"take">>
BitReadByte ==
  <<"clear">> \o Times(8, ReadSingleBit) \o <<"take">> \o WriteSingleBit("nack")

Code ==
  [usi |-> [init |-> UsiInit, start |-> UsiStart, stop |-> UsiStop,
            write |-> UsiWriteByte, read |-> UsiReadByte],
   bitbang |-> [init |-> <<>>, start |-> BitStart, stop |-> BitStop,
                write |-> BitWriteByte, read |-> BitReadByte]]

(* The calls of nesminicontrollerdrv.c. *)

Op(op) == [op |-> op, arg |-> 0]
W(byte) == [op |-> "write", arg |-> byte]
R(nack) == [op |-> "read", arg |-> nack]

Calls ==
  [init |-> <<Op("init")>>,
   connect |-> <<Op("start"), W(Own), W(240), W(85), Op("stop")>>,
   select |-> <<Op("start"), W(Own), W(0), Op("stop")>>,
   fetch |-> <<Op("start"), W(Own + 1), R(0), R(0), R(0), R(0), R(0), R(255), Op("stop")>>]

-----------------------------------------------------------------------------
VARIABLES
  lib,
  job, at, ip,       \* the calls under way, which of them, which step of it
  connected,
  data,              \* what the last call returned
  ddr, port,         \* SDA: an output; its bit in PORTB
  reg, latch,        \* USIDR, or the byte of the other library; its output latch
  sclOut,            \* the device leaves SCL alone
  dev, attached,     \* the controller
  faults,
  was,               \* history: what the calls so far came to, for I2cBytes
  missed             \* history: starts in a row the controller did not hear

driver == <<lib, job, at, ip, connected>>
vars == <<driver, data, ddr, port, reg, latch, sclOut, dev, attached, faults, was, missed>>

Scl == sclOut /\ ~dev.stretch
Sda == (~ddr \/ (port /\ latch)) /\ ~dev.pull

ThisCall == Calls[job][at]
Steps == Code[lib][ThisCall.op]

(* The controller.  n counts the clocks of the byte it is at; the ninth is  *)
(* the acknowledge.                                                         *)

OneIn(byte, n) == (byte \div 2 ^ (7 - n)) % 2 = 1

Powered == [mode |-> "idle", n |-> 0, in |-> 0, got |-> 0, out |-> CHOOSE b \in Bytes : TRUE,
            pull |-> FALSE, stretch |-> FALSE]

Receiving(d) == d.mode \in {"address", "receive"}

Sample(d, sda) ==
  CASE d.mode = "idle" -> d
    [] d.mode = "send" /\ d.n = 8 /\ sda -> [d EXCEPT !.mode = "idle", !.n = 0]
    [] Receiving(d) /\ d.n < 8 ->
         LET byte == 2 * d.in + (IF sda THEN 1 ELSE 0) IN
         IF d.n < 7 THEN [d EXCEPT !.n = @ + 1, !.in = byte]
                    ELSE [d EXCEPT !.n = 8, !.in = 0, !.got = byte]
    [] OTHER -> [d EXCEPT !.n = @ + 1]

NextByte(d) ==
  {[d EXCEPT !.mode = "send", !.n = 0, !.out = b, !.pull = ~OneIn(b, 0)] : b \in Bytes}

Drive(d) ==
  CASE d.mode = "idle" \/ d.n = 0 -> {d}
    [] d.mode = "send" /\ d.n \in 1 .. 7 -> {[d EXCEPT !.pull = ~OneIn(d.out, d.n)]}
    [] d.mode = "send" /\ d.n = 8 -> {[d EXCEPT !.pull = FALSE]}
    [] Receiving(d) /\ d.n \in 1 .. 7 -> {d}
    [] Receiving(d) /\ d.n = 8 ->
         IF d.mode = "receive" \/ d.got \in {Own, Own + 1}
         THEN {[d EXCEPT !.pull = TRUE]}
         ELSE {[d EXCEPT !.mode = "idle", !.n = 0]}
    [] d.n = 9 /\ (d.mode = "send" \/ (d.mode = "address" /\ d.got = Own + 1)) -> NextByte(d)
    [] OTHER -> {[d EXCEPT !.mode = "receive", !.n = 0, !.pull = FALSE]}

MayStretch(ds) ==
  ds \cup {[d EXCEPT !.stretch = TRUE] : d \in {x \in ds : Stretching /\ x.mode # "idle"}}

React(d, scl, sda, scl2, sda2) ==
  IF ~attached THEN {d}
  ELSE CASE scl /\ scl2 /\ sda /\ ~sda2 ->
              {[d EXCEPT !.mode = "address", !.n = 0, !.in = 0, !.pull = FALSE]}
         [] scl /\ scl2 /\ ~sda /\ sda2 ->
              {[d EXCEPT !.mode = "idle", !.n = 0, !.in = 0, !.pull = FALSE]}
         [] ~scl /\ scl2 -> {Sample(d, sda2)}
         [] scl /\ ~scl2 -> MayStretch(Drive(d))
         [] OTHER -> {d}

(* The lines follow the registers.  The USI shifts SDA in when SCL rises,   *)
(* and lets the new bit 7 out when SCL is low.                              *)
Lines(scl, p, o, r, d) ==
  LET high == scl /\ ~d.stretch
      shifted == IF lib = "usi" /\ high /\ ~Scl
                 THEN (2 * r + (IF Sda THEN 1 ELSE 0)) % 256 ELSE r
      open == IF lib = "usi" THEN IF high THEN latch ELSE shifted >= 128 ELSE TRUE
  IN /\ sclOut' = scl /\ port' = p /\ ddr' = o /\ reg' = shifted /\ latch' = open
     /\ dev' \in React(d, Scl, Sda, high, (~o \/ (p /\ open)) /\ ~d.pull)

-----------------------------------------------------------------------------
Init ==
  /\ lib \in Libraries
  /\ job = "init" /\ at = 1 /\ ip = 1 /\ connected = FALSE /\ data = 0
  /\ ddr = (lib = "bitbang") /\ port = (lib = "bitbang") /\ reg = 255 /\ latch = TRUE
  /\ sclOut = TRUE
  /\ dev = Powered /\ attached \in BOOLEAN /\ faults = 0
  /\ was = [call |-> Op("init"), ret |-> 0, mode |-> "idle", got |-> 0, offer |-> dev.out,
            attached |-> attached, sync |-> FALSE]
  /\ missed = 0

Do(step, scl, p, o, r) ==
  /\ ip <= Len(Steps) /\ Steps[ip] = step
  /\ ip' = ip + 1
  /\ Lines(scl, p, o, r, dev)
  /\ UNCHANGED <<lib, job, at, connected, attached, faults, was, missed>>

Same == UNCHANGED data
SdaHigh == Do("sda1", sclOut, TRUE, ddr, reg) /\ Same
SdaLow == Do("sda0", sclOut, FALSE, ddr, reg) /\ Same
SclHigh == Do("scl1", TRUE, port, ddr, reg) /\ Same
SclLow == Do("scl0", FALSE, port, ddr, reg) /\ Same
AwaitScl == Scl /\ Do("await", sclOut, port, ddr, reg) /\ Same
SdaInput == Do("in", sclOut, port, FALSE, reg) /\ Same
SdaOutput == Do("out", sclOut, port, TRUE, reg) /\ Same
Enable == Do("enable", sclOut, port, ddr, 255) /\ Same
Load == Do("load", sclOut, port, ddr, ThisCall.arg) /\ Same
Take == Do("take", sclOut, port, ddr, 255) /\ data' = reg
Drop == Do("drop", sclOut, port, ddr, 255) /\ Same
Clear == Do("clear", sclOut, port, ddr, 0) /\ Same
NextBit == Do("msb", sclOut, reg >= 128, ddr, (2 * reg) % 256) /\ Same
Nack == Do("nack", sclOut, ThisCall.arg # 0, ddr, reg) /\ Same
SampleBit == Do("sample", sclOut, port, ddr, (2 * reg + (IF Sda THEN 1 ELSE 0)) % 256) /\ Same

\* What the call came to, as I2cBytes sees it.
Outcome ==
  [call |-> ThisCall,
   ret |-> CASE ThisCall.op = "write" -> data % 2 [] ThisCall.op = "read" -> data
             [] OTHER -> was.ret,
   mode |-> dev.mode, got |-> dev.got, offer |-> dev.out,
   attached |-> attached, sync |-> TRUE]
StartHeard == ThisCall.op = "start" /\ (~attached \/ (dev.mode = "address" /\ dev.n = 0))

\* The call returns; the first byte of snes_connect and of snes_get_state says
\* whether the controller is there.
Return ==
  /\ ip > Len(Steps)
  /\ connected' = IF job \in {"connect", "select"} /\ at = 2 THEN data % 2 = 0 ELSE connected
  /\ ip' = 1
  /\ IF at < Len(Calls[job])
     THEN at' = at + 1 /\ UNCHANGED job
     ELSE /\ at' = 1
          /\ job' = IF ~connected THEN "connect" ELSE IF job = "select" THEN "fetch" ELSE "select"
  /\ was' = IF was.sync \/ StartHeard THEN Outcome ELSE was
  /\ missed' = IF ThisCall.op # "start" THEN missed
               ELSE IF StartHeard THEN 0 ELSE IF missed > 3 THEN missed ELSE missed + 1
  /\ UNCHANGED <<lib, data, ddr, port, reg, latch, sclOut, dev, attached, faults>>

Library ==
  \/ SdaHigh \/ SdaLow \/ SclHigh \/ SclLow \/ AwaitScl \/ SdaInput \/ SdaOutput \/ Enable
  \/ Load \/ Take \/ Drop \/ Clear \/ NextBit \/ Nack \/ SampleBit \/ Return

(* The environment. *)

Release ==
  /\ dev.stretch
  /\ Lines(sclOut, port, ddr, reg, [dev EXCEPT !.stretch = FALSE])
  /\ UNCHANGED <<driver, data, attached, faults, was, missed>>

Fault == faults < MaxFaults /\ faults' = faults + 1

\* The watchdog, or whatever restarts the device: the pins are inputs again.
Reset ==
  /\ Fault
  /\ job' = "init" /\ at' = 1 /\ ip' = 1 /\ connected' = FALSE /\ data' = 0
  /\ Lines(TRUE, lib = "bitbang", lib = "bitbang", 255, dev)
  /\ was' = [was EXCEPT !.sync = FALSE]
  /\ missed' = 0
  /\ UNCHANGED <<lib, attached>>

Plug ==
  /\ Fault
  /\ attached' = ~attached /\ dev' = Powered /\ missed' = 0
  /\ was' = [was EXCEPT !.sync = FALSE, !.attached = attached']
  /\ UNCHANGED <<driver, data, ddr, port, reg, latch, sclOut>>

Next == Library \/ Release \/ Reset \/ Plug
Spec == Init /\ [][Next]_vars
\* The code goes on, and no controller holds SCL for ever.
FairSpec == Spec /\ WF_vars(Library) /\ WF_vars(Release)

-----------------------------------------------------------------------------
(* Properties *)

Promise == INSTANCE I2cBytes WITH
  call <- was.call, ret <- was.ret, mode <- was.mode, got <- was.got, offer <- was.offer,
  attached <- was.attached, sync <- was.sync

\* Every call does what I2cBytes says: the controller receives the bytes written and
\* is told when to stop (by 0xFF and not, as i2c_primary.c comments, by 0), the
\* caller gets its acknowledge and the bytes it sent.
BytesRight == Promise!Spec

\* Wherever in a byte the device is restarted or the controller plugged in, in the end
\* they agree again on where a byte begins.
Recovers == ~was.sync ~> was.sync

\* It takes at most four starts, each the beginning of a transfer that snes_connect or
\* snes_get_state makes anyway: no code clocks the controller out of its byte.
SoonInSync == missed <= 3
=============================================================================
