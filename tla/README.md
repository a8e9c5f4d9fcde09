# A verification of the NES Mini USB adapter

The firmware (an ATtiny85 at 16.5 MHz) reads a NES or SNES Mini controller over
I2C and presents it as a low-speed USB gamepad. USB is done in software by the
V-USB driver: an interrupt handler in assembler that receives, answers and sends
packets, and C code that the main loop runs by polling. This directory models the
firmware in TLA+, checks it with TLC and proves part of it with TLAPS.

## The system

| Part | State | Operations | Talks to |
|---|---|---|---|
| interrupt handler (`asmcommon.inc`, `usbdrvasm165.inc`) | `usbRxBuf`, `usbInputBufOffset`, `usbCurrentTok`, `usbRxLen`, `usbRxToken`; consumes `usbTxLen`, `usbTxLen1`; sets `usbDeviceAddr` | one per packet: token, data, IN on endpoint 0 or 1, anything else | the bus; `usbdrv.c` through shared variables, no lock |
| driver, C part (`usbdrv.c`) | `usbTxBuf`, `usbMsgPtr`, `usbMsgLen`, `usbMsgFlags`, `usbNewDeviceAddr`, `usbConfiguration`, `usbTxStatus1` | `usbPoll` (process a request, build a packet, watch for a reset), `usbSetInterrupt` | the handler; `main.c` |
| calibration (`osccal.c`) | `OSCCAL` | `calibrateOscillator`, from the reset hook, interrupts off | the bus (frame strobes) |
| CRC, frame timing (`usbdrvasm.S`) | none | `usbCrc16Append`, `usbMeasureFrameLength` | `usbdrv.c`, `osccal.c` |
| continuous tuning (`osctune.h`), not used | `OSCCAL`, `lastTimer0Value` | `tuneOsccal` at each start of a frame | the handler |
| main loop (`main.c`) | `controller_state`, `report_buffer`, the LED, the watchdog | boot, loop | all of them |
| controller driver (`nesminicontrollerdrv.c`) | `connected`, `buttons` | `snes_connect`, `snes_get_state`, `snes_set_report_buttons` | I2C |
| I2C (`i2c_primary.c`; `i2cattiny85.c`, not used) | USI registers, pins | start, stop, write a byte, read a byte | the controller |
| XInput report (`xinputreporthandler.c`), not called | 20 bytes of its caller | initialise, five setters, compare | none yet |
| host, bus, controller, player | | external | |

What is hard here, in the order of the hazards in `PROJECT.json`:

* the handler runs at any instruction of the C code and there is no lock: only the
  order of stores protects a packet being built, a report being replaced, a request
  being read and the two address variables being cleared;
* `usbTxLen` and `usbTxLen1` are reset when a packet is sent, not when it is
  acknowledged; data tokens then disagree for a while after a loss;
* `usbCurrentTok` outlives its transaction, and interrupts are off for 11 to 22 ms
  after a reset;
* transfers are given up and started again, and a reset clears only the addresses;
* the controller comes and goes in the middle of an I2C transfer, the `connected`
  flag is only as fresh as the last address byte, and waits for SCL are unbounded;
* a lost status packet of `SET_ADDRESS` leaves host and device with different addresses;
* a restart in the middle of an I2C byte leaves the controller in it, and `i2c_start` does not wait for SCL;
* a few byte-wide boundaries: replies of a multiple of 8, `wLength` above 255,
  `USB_NO_MSG`, `OSCCAL`;
* the receive loops take a sample before they know whether it is a stuffed bit, repair
  the byte afterwards, and look for the end of the packet in one or a few bits only;
* the CRC loops rely on a carry the code before leaves set, and the check at 18 MHz on a table
  looked up one byte late.

## The modules

| Module | Models |
|---|---|
| `UsbDefs` | constants of `usbdrv.h` and `usbconfig.h`, requests, the replies `usbDriverSetup` gives |
| `UsbDrv` | the driver: handler and main loop side by side |
| `ControlPipe`, `ReportPipe` | what endpoint 0 and endpoint 1 promise; `UsbDrv` implements both |
| `UsbBus` | `UsbDrv` with a conforming host over an imperfect bus instead of any packet at any time |
| `Adapter` | the main loop and the controller driver; endpoint 1 is the mailbox of `ReportPipe` |
| `I2cBytes` | what an I2C library promises: whole bytes, acknowledged or not |
| `I2c` | both I2C libraries, bit by bit, with a controller on the two lines; implements `I2cBytes` |
| `OscCal` | `calibrateOscillator`, which the reset hook calls |
| `OscTune` | `tuneOsccal`, its alternative |
| `Crc` | both versions of `usbCrc16Append`, and the check of the 18 MHz receiver |
| `XinputReport` | the report of `xinputreporthandler.c` |
| `LineBits`, `Receiver`, `Transmitter` | the lines and the registers; the receive and the transmit loops of `usbdrvasm*.inc` |
| `Wire` | a packet of the host through the one, the answer through the other |
| `UsbProofs` | theorems about `UsbDrv` (the address and report endpoints, then endpoint 0), and on top of those about `UsbBus`; the last is about the reports |
| `I2cProofs` | theorem about `I2c`: the invariant of every step, then the refinement |
| `WireProofs` | theorems about `Wire`: stores, answers, reception |
| `AdapterProofs`, `OscCalProofs`, `OscTuneProofs`, `CrcProofs`, `XinputReportProofs` | theorems about the module they are named after |
| `MC*` | constants for the runs |

### UsbDrv

`pc` is where the main loop is: `rxTest` to `rxFree` in the first half of `usbPoll`
(`usbProcessRx`), `txTest` to `txLen` in the second (`usbBuildTxBlock`), `line`,
`clearAddr`, `calibrate` for the reset detection and its hook, `main` for the test of
`usbInterruptIsReady`, and `intr*` in `usbGenericSetInterrupt`. One action is one
access to a variable shared with the handler, and what the C code does up to the
next. Stores of `usbTxBuf`, `usbTxBuf1` and `usbTxLen` are taken in the order
of the program: `usbTxLen` and `usbTxStatus1.len` are volatile, calls of
`usbCrc16Append` (assembler) separate the copies from them.

The handler is one action per packet. It is atomic for the C code, which it
interrupts, and ends with the answer on the wire. Every packet that is received
overwrites the current half of `usbRxBuf` (`Receive`), whatever comes of it.

Data are abstracted to what the properties tell apart. A packet is a data token and a
segment: `len` bytes of an object from `off` on. `whole` is false while the bytes of a
transmit buffer do not match its CRC, which is what a torn packet is. A report is a
number. A request keeps the fields the driver looks at.

The history variables `req`, `sent`, `out0`, `out1`, `resync` record what crossed the wire;
no guard reads them.

In this module the host is arbitrary: any packet may be heard at any time, for
the right address or another. What holds here holds whatever the host does.

### UsbBus

The host follows the USB rules: it resets the bus, runs a list of control transfers
(`Script`) with the stages their direction and `wLength` imply, retries a transaction
that is not answered, takes data only with the token it expects, and polls endpoint 1
once it has sent `SET_CONFIGURATION`. `Exchange` is one packet: heard; heard but the
answer lost; garbled; lost; or not heard because the device calibrates. The host gives
a transfer up that nothing more can come of (`HostTimeout`), or any transfer of its own
accord (`HostAbort`, bounded), and resets a device that does not hear the address the host uses
(`HostGiveUp`). Two assumptions tie it to real time: a reset lasts for at least `ResetPolls` = 2 polls of
the device (a reset takes at least 10 ms; during it endpoint 1 is not fetched, so at
most one read of the controller, about 6.5 ms, delays one poll); the host waits
after a reset until the device has seen its end (`Recovered`, the 10 ms recovery time of
USB). The calibration may end anywhere, also in the two bit times between a token and its
data: then the device takes the data for those of the token before. `misheard` remembers
that a request was taken for the data of an OUT.

With one poll per reset `AddressAgreement` fails: a packet armed before the reset can carry a
stale address between the two assignments. The bound is thus a real condition
on the main loop (`PollsAssumption`). `AddressingAssumption` is about the host: an address has seven bits, and a
configured device is not given another one. `NumberedAssumption`
numbers the reports round, so that the host can tell how many it missed.

`SetupNeverNaked`, `HostDataRight` and `AddressAgreement` begin with `losses = 0`, and `OutDataIsData` allows `misheard` after a loss. "The driver assumes error-free communication" (`usbdrv.h`),
and they need it: when an OUT token after a SETUP is lost, the data that follow
are taken for a request; the buffer is then full at the next SETUP, the reply is that of the wrong
request and the address may be anything. `lossy` shows that the host gets out of all this.

### Adapter

One action is one byte on the I2C bus (the start belongs to its address byte), a stop,
or a piece of the main loop between them; four bytes whose value is not used are one
action. The player, the plug and the host act between any two. Buttons are sets
of bits. `held` and `seen` are history that no guard reads: what was pressed all the time since the address byte of a
read, and what at some time of it. The controllers answer as `main.c` and `nesminicontrollerdrv.c` describe: a bus nobody
drives reads 0xFF, an SNES Mini controller that is not initialised sends
0x00. `Transfer` needs `SclRises`: with neither pull-ups nor controller the code waits
and the watchdog, which only the loop serves, starts the device again.

### I2c

A function of either library is the sequence of its accesses to the pins (`Code`): `UsiWriteByte`
is the load of `USIDR`, a transfer of 8 bits, SDA to input, a transfer of one, SDA to output. One action
is one access; `Lines` gives both lines and the USI after it (a bit enters with the rising edge of SCL,
the output latch follows bit 7 while SCL is low), and the controller reacts to the edge: it samples,
drives, acknowledges, or holds SCL. `job`, `at`, `ip` say which transfer of
`nesminicontrollerdrv.c`, which call of it, and which step of it is under way. The number of clocks
comes from the value written to `USISR`.

`Reset` is the watchdog at any access; `Plug` a hand at the plug. The registers of the device are then as
after power on, the controller is still where it was in its byte. `was` is the history that the
refinement maps to `I2cBytes`: it changes when a call returns. `sync` is false from a fault until a start is heard; what
`I2cBytes` promises, it promises from there on.

`Adapter` uses the same bytes: a byte that nobody sends reads 0xFF, one that
nobody receives is not acknowledged.

### OscCal

One action is one measurement of a frame and what is done with the count. `OSCCAL` and the
`uchar` variables wrap at 256, an `int` has 16 bits, and `trialValue + 1` is an
`int`, which is what decides whether the neighbour search stops. `usbMeasureFrameLength`
returns the frame length of this oscillator with the current `OSCCAL`, or an element of
`Disturbed`: 0 is its timeout, and twice the target stands for the count of two frames when the strobe between
them is missed (which of the large counts it is makes no difference to the comparisons). The wait for the end of the first
strobe (`usbMFWaitIdle`) has no bound in the code; that a host, or noise, holds D- low for ever is not modelled, the watchdog would
end it. Which oscillators there are is a constant;
`Recalibrate` is the next reset, with an oscillator that may have drifted.

`RangeAssumption` says what the code needs of the chip and does not check: the target lies
inside the range of the register (with `trialValue` 0 the neighbours are skipped, with
254 or 255 the search never leaves them), and no single step of the register doubles the frequency
(the first deviation the neighbour search compares with is a whole count, not a deviation).

In `UsbDrv` the calibration is one step, as interrupts are off from its
first instruction to its last and nothing else of the driver is read or written;
packets of this time are not heard, which `UsbBus` models.

### OscTune

A step is a frame: noticed (`tuneOsccal`) or missed, at most `MaxGap` in a row, while
timer 0 runs on. Its assumptions are where the proof found the limits of the code: with more than 20 frames
missed an oscillator at 1.5 % gains or loses half a turn of the byte and is moved the wrong way; a clock that makes 256 ticks
more or fewer than the right one looks right; and within the tolerance but more than 2 ticks off, one step of
`OSCCAL` must not leave it. Only `TCNT0 - lastTimer0Value` matters, so that difference is the variable, with
the part of a tick the timer is in: counts of one frame jitter by a tick. `brmi` and `brpl` look
at bit 7 of a byte that wraps (`Minus`).

### Crc

A register is the set of its bits. The short `usbCrc16` is one action for each label, with the
carry that its `sbci`/`ror` depend on; the fast one is one action per byte, its six shifts and additions as
operators. `Travel` inverts some bits of the packet, and the receiver of
`usbdrvasm18-crc.inc` takes what arrives: the table is replaced by the loop its comment generates
it with (all 512 bytes of it are those). Only data packets have this sum; the driver does not check the
CRC5 of tokens, and at the other clocks nothing is checked.

### XinputReport

One action is one call. The float arithmetic of the percentages is that of integers that drop the
fraction, which agrees for each of the 256 arguments. `IntBytes` is `sizeof(int)`, which the code
shifts by.

### Wire

What `UsbDrv` takes as one action, a packet that is heard or ignored, is here one action for each
bit. The code differs with the clock, which `USB_CFG_CLOCK_KHZ` chooses; the adapter has the one for
16.5 MHz, and those for 12, 12.8, 15, 16, 18 and 20 MHz are modelled beside it, as they do the same in
five ways:

* 12, 15 and 16.5 MHz (`LoopUnrolled`): a loop with eight different bits. `shift` has a 1 where the lines changed;
  masked to the last six bits it is zero when a stuffed bit follows. Then that bit is set,
  so that the next look does not see the same run, and `x3` remembers it.
* 12.8 MHz, in the same `LoopUnrolled`: only D- is sampled, and a stuffed bit not at all; the samples for the
  phase locked loop (`Phases`, one of the two bits they lie between) tell SE0 from K.
* 18 MHz (`Loop180`): a loop of its own for the PID, and the unrolled one with checks: a stuffed bit that
  is not a change, and SE0 in bits 2 to 4, drop the packet. What it does for the CRC is in `Crc`.
* 16 MHz (`Loop160`): `shift` moves, two bits a round for three rounds. The bits to repair
  are marked in `x3` and move with the byte.
* 20 MHz (`Loop200`): a counter of the 1s still allowed.

A register is the set of its positions that hold a 1, so `ror`, `eor` and `andi` are set operations and
comparisons with masks are inclusions. `s` is the sample of a bit time. Code that
first samples and then looks back takes the look in the action of the sample, as the
sample then is what the look decides about. The transmitters send a bit (`SendBit`), the
stuffed bit after it if one is due (`SendStuffed`), and count (`Advance`): with one register for bits
and bytes at 12 and 12.8 MHz, with 37 for a seventh of 256 at 16.5 MHz. Counters of cycles and the
correction of the phase (`leap`, `phase`) are time and are left out: a sample is that of its bit.

The host obeys the rules for the lines, but may break a packet off at any bit and leave
the lines in any state for ever. The handler begins with any of the first bits of the
sync byte, as "max allowable interrupt latency" allows. `SyncRounds` stands for the
bound of `waitForJ`, 58 bits or more.

## The runs

| Run | Question | States |
|---|---|---|
| `control` | does endpoint 0 work against any host, interleaved with any step of `usbPoll`? is a report safe to replace? | 1559 k |
| `report` | does endpoint 1, for an application that asks first? does the loop always get on? | 309 k |
| `enumerate` | does a conforming host get everything, with a reset and a retry anywhere? | 113 k |
| `lossy` | is the device enumerated when packets are lost, and what do they cost? | 188 k |
| `adapter` | do buttons pressed on a controller that comes and goes reach the host? | 100 k |
| `i2c` | do both libraries carry whole bytes, and recover from a restart at any edge? | 346 k |
| `calibrate` | does the calibration end, with the best value? | 1044 k |
| `tune` | does continuous tuning lock, and stay locked when frames are missed? | 450 k |
| `wire` | do all bytes get through the loops, whatever has to be stuffed where? | 928 k |
| `crc` | is the sum the one USB defines, and is a damaged packet refused? | 296 k |
| `xinput` | is the report right after any order of the setters? | 41 k |
| `replug` | a disagreement with the documentation, below | |

**Endpoint 0** (`control`). `ControlTransfersRight` says that the driver implements
`ControlPipe`: every packet is the next one of the reply to the last request that was
acknowledged, with the right token, and the reply ends with a short packet.
`NoStaleOrTornReply` is the state behind it: at any instruction, a packet the
handler would send is finished and the right one. `RequestStable` says that the request
being read is in the half the handler does not write. `ResetForgetsAddress` that no
packet sent during the reset brings an address back.
Bounds: replies of 0, 2, 8 and 18 bytes (none, short, exactly one packet, several); one address; data
packets of 3 (empty), 4 (shortest that is stored) and 11 bytes (longest). The reply and
its rest are all that matters of a descriptor, so a longer one repeats states.

**Endpoint 1** (`report`). `ReportsRight` says that the driver implements
`ReportPipe`, a mailbox with alternating tokens; `NoTornReport` (in `control`, whose application
never asks) that an armed packet is whole all the same; `NeverRevokes` that
`usbInterruptIsReady` cannot become false between the question and the act. `SET_INTERFACE`
changes the token of a report that already waits, so after it `ReportPipe` allows either
token: "the first packet is sent with the oposite value" in `usbconfig-prototype.h` does not hold then. Two reports tell an old one from a new one.

**Progress** (`report`). `RxBufferFreed`: no packet holds the receive buffer for ever. `RequestAnswered`: after each SETUP the
first packet of the reply to that very request is armed. It starts behind the abort in `usbProcessRx`, since before it the packet of
an interrupted reply may still be armed; without the abort it stays so, if the host never fetches it, and the
request is not answered. `FairSpec` has weak fairness
of the main loop only: it is never disabled, and its steps end (the wait
for I2C is in `Adapter`). Nothing is assumed of the host.

**Enumeration** (`enumerate`). Script: 8 bytes of the device descriptor, `SET_ADDRESS`,
`SET_CONFIGURATION`, an OUT transfer, the whole device descriptor. `SetupNeverNaked`,
`HostDataRight`, `AddressAgreement` and `OutDataIsData` are safety: the host gets its bytes, and the
device takes nothing for what it is not, except a request that `misheard` tells of, which takes a second reset;
the host then times out and asks again. `ReportsFlow` is liveness: the script ends
and then every report arrives, again and again. It needs `FairBusSpec`: the main loop and a
begun transaction go on (weak fairness), and the host controller serves
transfers and the interrupt endpoint again and again (strong fairness, as each
is only possible between transactions of the other). The host does not wait for ever: it gives up
a transfer a mute device never answers (weak fairness of `HostTimeout`, as `Mute` lasts
until the host acts), and resets a device that does not hear its address (strong fairness of
`HostGiveUp`, as it acts between polls). Other resets, aborts and losses are never
required. One reset and one abort anywhere are enough to meet every state the driver can
carry into a new enumeration; a second one meets the same states.

**Losses** (`lossy`). `Enumerated`: whatever was lost, the script ends. A lost packet of a read ends the
transfer, as the driver does not repeat it, and the next try must find the device ready; a lost status
packet of `SET_ADDRESS` leaves it at an address the host does not use, until the reset. `ReportsResync`: the host misses at most two reports per lost packet:
the one that was lost and the next, sent with the token it already saw. Seven reports
numbered round keep two losses (at most four missed) apart from a repetition.

**Adapter** (`adapter`). Weak fairness of the firmware and of the host's poll;
four plugs or unplugs are a replug that is not noticed, one that is and a final state; two buttons, one in each byte.
`InitialisedBeforeRead`, `PhantomOnlyUnnoticed` are safety in spite of
any replug that is noticed; `ReportOfItsRead` relates a report to what the player did while its bytes were
read: the two bytes of the buttons are not read at once, so a report may show a state the buttons never had, but
each button held all the time is in it, and none that was pressed at no time of the read (except when a loss went
unnoticed); `UnplugReleases` and `HeldButtonsShown` say that the host ends up with
what the player holds; `BusWaitEnds` that the hang without pull-ups ends.

**I2C** (`i2c`). `BytesRight`: both libraries implement `I2cBytes`: the controller receives the bytes
written and learns when to stop, the caller gets its acknowledge and the bytes sent. `Recovers` and
`SoonInSync`: neither library clocks a controller out of a byte it was left in, but it happens by the transfers themselves, within four
starts. Weak fairness of the library and of a controller that holds SCL. Bytes of only 0s and only
1s and a mixed one leave SDA in every state a fault can meet it in; one fault, as the next may come only after
the recovery or starts it anew.

**Calibration** (`calibrate`). `BestMatch`: no value of the register is closer to the target,
for an oscillator that only grows. `BestOfThree`: whatever the oscillator, also with
the two overlapping ranges of an ATtiny85, the value kept is the best of the three that the neighbour search measured. `CalibrationEnds` is under weak fairness of
`calibrateOscillator`: with interrupts off nothing keeps it from its next measurement, as
long as the host sends frames. `targetValue` is the one of 16.5 MHz; the oscillators place
it at the first value, at the last but one, where the ranges
meet and in between. Any frame may be missed. `CalibrationEnds` allows one way not to end, a search
that arrived at 254 or 255; `OnlyMissedFramesTrap` says that only a missed frame leads there.

**Tuning** (`tune`). `StaysUsable`: once a frame was in order, the clock stays within the 1.5 % of USB,
although a count over several frames moves it at random. `Locks`: when no more frames are missed, it ends within the 1 %
the file promises. Both hold for oscillators whose register steps by 0.2 % to 0.9 %, from 15.0 to 17.8 MHz
on; four parts of a tick are enough for each place of a step between two counts. Weak fairness
of `tuneOsccal`: some frames are noticed.

**The CRC** (`crc`). `SumAppended` compares what is appended with a division by the polynomial, bit by bit,
that shares no operator with the code: all packets of no byte and of one, and
longer ones, up to 8, of bytes chosen so that the carries differ. `OnlyWholeAccepted`: a packet is taken exactly when none of its bits
was inverted, for bursts of up to 16 bits, all of which a CRC of 16 bits finds
(`DamageAssumption`: no sum of 16 bits finds every longer one).

**The XInput report** (`xinput`). `ReportRight`: whatever setters ran in whatever order, the host reads the
buttons last set, and axes that keep the order and the sign of the percentages; the percentages
are those next to each limit.

**The wire** (`wire`). `Delivered`: every byte the code stores, and every byte the host
hears, is the one that was said, in order. `PacketsWhole`: the code sees the end of a packet exactly where it is, with
the right length, and drops only packets longer than `usbRxBuf`. `AnswersWhole`: what is
sent is stuffed and ends with the last byte, for every length up to 12. `StoresFit`: whatever is on the lines, no
more than `USB_BUFSIZE` bytes are stored, at 15 MHz one more, as that loop counts a byte after it stored it.
`HandlerReturns`, with weak fairness of one bit after the other, as the code never waits for the
lines without a bound, and says that a packet without an end does not hold the handler.
The bytes are chosen so that runs of six 1s end at each bit, cross bytes and follow one
another; each byte of a packet is chosen anew, packets of the host have up to 12 bytes, one more than fits.

## Disagreements with the documentation

* `replug` / `NoPhantomButtons`: a comment in `main.c` says that the forced
  `snes_connect` avoids reading an uninitialised SNES controller. A replug
  between two polls is not noticed, and all buttons appear pressed.

Met while modelling, and stated in the properties above instead of by a run of their own:

* `usbdrv.h` says that a message replaced too early loses the old one. When the host fetches
  the old one between the test and the act of `usbGenericSetInterrupt`, the new one is dropped by the host,
  as its token is not toggled. The adapter asks first and is not affected (`ReportsRight` needs `ReadyChecked`).
* a comment in `usbProcessRx` says that what is not a SETUP is the data of a control-out
  transfer. After a calibration that ends between a token and its data, it can be a request (`misheard`).
* `osccal.h` guarantees that the neighbour search finds the best match. When the host stops
  sending frames, `usbMeasureFrameLength` returns 0, the binary search ends with 254 or 255, and
  `OSCCAL <= trialValue + 1` then holds for every byte: the loop goes on for ever with interrupts
  off, also when the frames come back. Only the watchdog ends it (`Trapped`).
* `i2c_start` has the comment "scl release until high" but tests `PORTB`, what it wrote, and not `PINB`:
  it does not wait for a controller that stretches the clock. `BytesRight` holds all the same, as the start
  comes after a stop, which waits.
* `i2c_write_byte` is commented "returns 0 if there's a valid nack, otherwise 1": it returns
  the bit of the line, which is 0 for an ACK.
* the comment of `i2c_read_byte` in `i2c_primary.c` (lines 100-103) says "sends a nack if wanna read another one (1 = will
  read another one, 0 = stop sending)". It is the other way round: the argument is the acknowledge bit, after 0
  the controller sends on, and the 0xFF that `nesminicontrollerdrv.c` passes for the last byte stops it.
  `i2cattiny85.c` has it right ("send 0 if we wanna read more"). `I2cBytes`, and so `BytesRight`, say what
  the code and its caller do, not what this comment says.
* `osctune.h` calls a prescaler of 64 "good for the entire OSCCAL range". The count is a byte and the timer
  runs on while frames are missed, so a clock further off than some percent may then be moved the wrong
  way and lock at another frequency; `tune` therefore begins between 15.0 and 17.8 MHz, the
  tolerance, more or less, of a chip as it comes. With no frame missed there is no such limit (8 bits of a count of 257).

`README.md` of the repository also says that a controller must be attached before the
adapter is powered; the loop now calls `snes_connect` until one answers, and
`HeldButtonsShown` covers a controller plugged later.

## The proofs

Each theorem holds for every choice of the constants that meets the assumptions of its
module: any requests, reports, addresses and packet lengths, any oscillators. The prover
checks them from the definitions TLC runs.

| Theorem | Says | Rests on |
|---|---|---|
| `TypeCorrect` | `TypeOK` | `TypeInv`, which adds that reply lengths stay below `USB_NO_MSG` |
| `RequestNeverOverwritten` | `RequestStable` | inductive by itself with `TypeInv` |
| `AddressForgotten` | `ResetForgetsAddress` | `AddressInv` |
| `NeverTorn` | `NoTornReport` | `ReportInv` |
| `NothingRevoked` | `NeverRevokes` | `ReportInv` |
| `ReportsDelivered` | with `ReadyChecked`, `UsbDrv` implements `ReportPipe` | `ReportInv` and `MailboxInv` |
| `NeverStaleOrTorn` | `NoStaleOrTornReply` | `ControlInv` |
| `ControlImplemented` | `UsbDrv` implements `ControlPipe` | `ControlInv` |
| `RequestAlwaysTaken` | `SetupNeverNaked` | `SetupInv` |
| `HostGetsItsData` | `HostDataRight` | `BusInv` |
| `AddressAgreed` | `AddressAgreement` | `BusInv` |
| `OutDataGenuine` | `OutDataIsData` | `OutInv` and `BusInv` |
| `ControlOnTheBus` | where nothing is lost, `UsbBus` implements `ControlPipe` | `BusInv` |
| `ReportsInOrder` | `ReportsResync`, for a script that configures the device once | `ResyncInv` |
| `NeverOverrun` | `StoresFit` | `StoreInv` |
| `AnswersHeard` | `AnswersWhole` | `SendInv` |
| `BytesHeard` | the half of `Delivered` about the transmitters | `SendInv` |
| `PacketsReceived` | `PacketsWhole`, if the PIDs are real ones | `DecodeInv` and `StoreInv` |
| `AllDelivered` | `Delivered`, if the PIDs are real ones | `DecodeInv`, `StoreInv` and `SendInv` |
| `BytesKept` | `BytesRight`: both libraries implement `I2cBytes` | `I2cInv` |
| `NeverReadUninitialised` | `InitialisedBeforeRead` | `AdapterInv` |
| `PhantomsExplained` | `PhantomOnlyUnnoticed` | `AdapterInv` |
| `ReportExplained` | `ReportOfItsRead` | `AdapterInv` |
| `CalibrationIsBest` | `BestMatch`: with no frame missed, the best of all values | `CalInv` |
| `KeepsTheBest` | `BestOfThree` | `CalInv` |
| `OnlyMissedTrap` | `OnlyMissedFramesTrap`: with no frame missed, the search does not arrive at 254 or 255 | `CalInv` |
| `TuningStaysUsable` | `StaysUsable` | `TuneInv` |
| `SumRight` | `SumAppended`, for messages of any bytes and any length | `SendInv` of `CrcProofs` |
| `DamageSeen` | `OnlyWholeAccepted`, for the same messages and any burst of up to 16 bits | `ReceiveInv` and `SendInv` |
| `WhateverOrder` | `ReportRight` of `xinputreporthandler.c` | `ReportInv` of that module |

The lemmas about steps are stated for `Driver`, a step of the main loop or a packet with any contents the driver may hear
(`Heard`), of which both `Next` of `UsbDrv` and every step of `UsbBus` (`BusDriver`) are cases: what is proved of the
driver holds against any host and also on the bus.

The driver's invariants are about the window between two instructions. `ReportInv` says, for each place of
`usbGenericSetInterrupt`, what is already stored: while the copy or the CRC is under way
endpoint 1 is not armed, because the test of `txStatus->len` or the store of `USBPID_NAK`
came first and the handler never arms, it only disarms (`HandlerEffect`, the
one lemma about `Interrupt` all proofs share). `AddressInv` says the
same of the two stores that clear the addresses. `MailboxInv` ties `usbTxLen1`, the token and the
segment to the mailbox; the last lemmas show one by one that a step of the handler or of the main loop is
a step of `ReportPipe` or changes nothing of it. `ReadyChecked` is what `main.c` does, and the
theorem needs it, as the first of the disagreements shows.

`ControlInv` says for each place of `usbPoll` how much of the reply is left. Either a request waits
(`Preparing`): then nothing leaves, because `InReply0` is NAK while `usbRxLen` is not 0, and the armed packet, which
may be of the reply before, is disarmed and its token set before the buffer is freed. Or the reply is served (`Serving`): the packet
armed is number `sent` and `usbMsgLen` what follows it (`Armed`); or none is armed and `usbMsgLen` is all from
number `sent` on, the token the one before it (`Idle`); or `usbBuildTxBlock` is on the way from the second to the first
(`Build`). A SETUP can only be stored with the buffer free, and takes each of the three to `Preparing`.

On the bus, `SetupInv` is about the receive buffer alone: a reset has room for two polls, the first frees the buffer unless the packet came
after it looked, the second does; and between transfers the host has seen an answer that only a free buffer gives. The rest of
`BusInv` is `ScriptInv` (where the host is in its script) and, while nothing was lost, `DeviceInv`: `FreshInv` (from a reset
to the first SETUP the device forgets its addresses and calibrates), `TokenInv` (which token the data of a
transaction find in `usbCurrentTok`), `RequestInv` (the request the device serves is the host's, and the host holds
exactly the first `sent` packets of the reply), `AddrInv` (`usbNewDeviceAddr` is the address the host uses or the one it is about to). All five
are needed together: the data are right because the request is, the request because the token is, the token because the
address is. The proof also found what the properties owe to `misheard`: after a second reset a request can be taken for
data of an OUT, and then a packet that was armed long before may complete the transfer for the host; in
`AddressAgreement` this is the case that is excluded, and TLC finds it when it is not. `OutInv` needs less: only which half of `usbRxBuf` came with which token.

`ResyncInv` is about what the host has yet to notice. `Due(k)`: k reports were sent and not taken after the
last one the host took; if the tokens are out of step it will miss one more (`Owed`). While the host still expects DATA1 a configuration
may set its token back, which costs one (`Unset`), unless the host configured the device already and the device hears it (`Settled`). The three
share the slack of `2 * losses + resets` that `ReportsResync` allows. Only a poll consumes a packet. If its data are lost, nothing is owed: the device
offers the packet again. If the answer to them is lost, the device holds the packet for sent and the tokens are out of step:
the next report is taken for a repetition and dropped, which puts them back in step. Each loss is
therefore two reports at most, and a reset one. The theorem needs `ReadyChecked`, a script that configures once and selects no interface, and
`NumberedAssumption`: the reports are numbered round, from 1, so that one that is missing shows.

For the wire, `StoreInv` ties `cnt` to the number of bytes stored, for each loop in its own way, as they count at
different bits (2, 6, or bit 0 of the next byte) and may store a byte one bit late when a stuffed bit follows it. At 15 MHz the byte is stored
before it is counted, which is the one byte of `StoresFit`. It needs nothing of the host: the lines may do anything.
`SendInv` is about the way back. `Sends(p, n)` says how each transmitter's counters encode that bit p goes out and n bytes are
left (they are shifted masks at some clocks), and `StuffRight` that its history of bits, or its count of the 1s
still allowed, agrees with the run of 1s the host has heard.

`DecodeInv` is the correctness of the decoders. In the unrolled loops, `Window` says which of the last six bits `shift` shows as changes,
where the two bits to come, the hidden ones and those of the sync byte do not count; so `StuffedNext` holds
after six 1s and only then (`WindowStuffed`). `Decoded` says that with the bits in `x3` put right, `shift` holds the byte. The loop at 16
MHz moves its register, and what `x3` puts right moves after it two bits at a time: `Offset` is how far it is behind (`DecodedAt`,
`DecodedRor`, `DecodedUnstuff`), and `Place160` ties the counter of rounds in `bitcnt` to the place in the byte. At 18 MHz the PID has its own loop, which does not
look for stuffed bits, and at 16 and 20 MHz the count of 1s begins with the last bit of the sync byte. That this is
right depends on what PIDs are: their four high bits are the complement of the four low ones (`RealPids`), so six 1s are never
reached in them (`PidRun`); the theorems take it as their hypothesis. The invariant also shows where the end is seen: the loops other than that at 15 MHz take the first bit of SE0 for data, in a place
where no byte is completed (`InEnd`), and see the second.

For the I2C libraries, `I2cInv` is about each step of each call. `TypeInv` and `DriverInv` are what holds also while library and
controller do not agree: the bits the controller has are a number below `2 ^ n`, the USI shows bit 7 while SCL is low,
SDA is an output at all steps but those of `InputAt`, and a start ends with SCL low. `SyncInv` is what holds while they agree. For each step it
says which bits have left the register and which came in (`Outgoing`, `Incoming`: quotients and remainders of powers of 2), and where the
clocks so far put the controller, before and after the edge (`Hearing`, `Sending`). So SDA does not change while SCL is high but in a start and a stop:
what the release of SCL shows was on SDA before (`Rising`; there the controller may still hold SCL, and the clock is to come). `LinesRise`, `LinesFall`, `LinesHigh` and `LinesLow`
say once what an edge does to registers and controller; the lemmas on a step (`UsiWriteStep` to `StopStep`) and on a release cite them. Between two calls
the controller is at rest (`Rested`), and `NextMode` says which call comes next: the libraries shift right only because the driver
never writes to a controller that sends and never reads from one that listens, and `SyncInv` carries that (`ModeAt`). `i2c_start` needs no
wait for SCL as the stop before left SCL high and the controller deaf (`StopEnds`). The refinement then has one lemma per kind of call (`StartCall`, `StopCall`, `WriteCall`, `ReadCall`)
and one for the start that ends a disagreement (`HeardResync`); every other step leaves `was` alone. TLC checks `I2cInv` on the instance of `i2c`, too.

In `AdapterInv`, `ConnectionInv` says from where the I2C functions are called, `InitialisedInv` that `connected` without an unnoticed loss means
an initialised controller, and `WordInv` that the two bytes read hold only what a player held, which is why
phantom buttons need a loss. `WindowInv` ties the bytes to the history of the read: each byte holds at least what was held since the
address, whoever answers (`InvertedShowsHeld`), as a controller that has gone has no button held and an uninitialised one
gives all; and without a loss at most what is pressed at that moment. `ReportedInv` carries this to the report, with no button where there was no read.

For the calibration `MatchInv` is in three parts. In the binary search (`Bracket`) the value
found so far is too slow, or nothing was found, and `step` above it is either fast enough or
beyond the range; when `step` is 0 the target lies between `trialValue` and the next value.
`Last` ties the last count to it, and in the neighbour search (`Candidates`)
`optimumDev` is the least deviation of the values tried. That the two values
around the target are best among all is `BestIsNext`, from `Growing`. `TrapInv` bounds the value by
the frequencies measured on the way: it can only reach the top if the highest values were too slow, and
`RangeAssumption` says they are not.

For `OscTune`, `TuneInv` ties the byte the timer shows to the whole ticks since the last noticed frame: they differ by
a number of turns (`Drift`), and in 21 frames within the tolerance that number is known, so the sign bit the code tests is the sign of
the drift. That the sign is right is not enough: the step must also not overshoot, which is `StepAssumption`.

The CRC is defined by a recursion over the bits of the message, and its proofs go by it. `Induction` is induction for a set of
numbers, from the pigeonhole principle of the library (if n were missing, subtracting 1 would take the missing numbers up to n
one-to-one into those below n), and `Recursion` derives from it that a function defined by recursion
exists; so `Division` and `CrcTable` have the values their equations say (`DivisionRight`, `TableRight`).
The model's operators are then compared bit by bit: `Step` is one step of the division seen from the register, `Eight` is eight of them.
`ByteStep` shows that the shifts and parities of the fast loop are eight steps, by the parities `Odd` of the lower bits of the
byte, and `LookUpRight` that the table is. `Rest(W, bits, k, r, e)` is what ties them to the definition: after k bits the
rest of the division is the register, at its place, and the bits from `e` on that were not added to it yet (`RestStep`,
`RestByte`). `SendInv` is `Rest` at each label of the short and of the fast version; the short one keeps the complement of the
register, which takes the same steps because a 1 enters for the 0 (`InvertedStep`): that is what it needs the carry for.

In `ReceiveInv` the register is the sum of two, because steps are linear (`EightXor`): what a whole packet gives (`Clean`),
which after the last byte is 0xb001 whatever the message was (`LowStep`, `HighStep`), and what the damage alone gives (`Hurt`). The rest
of the damage is a burst of at most 16 bits when it begins and at each step it stays one: if its first bit is at k, the divisor
removes that and adds the one at k + 16 (`BurstStep`). It is never empty, so after the last byte the register differs from 0xb001.

For the XInput report, `Encoded` says what the 20 bytes are for the values last set, and the lemmas on `Toward0` that the
integer arithmetic of the percentages is monotonic, keeps the sign and stays in range. `axis_percent` is
linear on both sides of 0 with different factors, so each side is a lemma.

Out of the prover's reach, and left to TLC: all liveness (`RxBufferFreed`, `RequestAnswered`, `Enumerated`, `ReportsFlow`,
`UnplugReleases`, `HeldButtonsShown`, `BusWaitEnds`, `Recovers`, `CalibrationEnds`, `Locks`, `HandlerReturns`).
Induction over data is in reach only as it is done for the CRC, over a set of numbers. Of the safety properties only `SoonInSync` of the I2C
libraries is model-checked and not proved: how a controller drifts out of the byte it was left in depends on its place in it, on the bits it
sends and on the call, and no invariant was found that is shorter than this enumeration, which is what TLC does.

## Not modelled

* Cycle counts: the phase correction of the receivers, the delays of I2C, the loop of
  `usbMeasureFrameLength`. They are time, and the code has no decision of its own in them.
* `descriptors.h` (tables nothing reads), `usbportability.h` and the Makefile, the debug output (off at
  `DEBUG_LEVEL` 0), `usbdrvasm.asm` (includes another file).
* In `usbdrv.c` what `usbconfig.h` compiles out: endpoint 3, endpoint halt, flow control, the user's read
  and write functions, long transfers. Most of the lines of `usbdrv.h` and `usbconfig.h` are
  documentation and such options.

`PROJECT.json` lists each part with its reason.

## Plan

1. Modules and runs: `UsbDrv`, `UsbBus`, `Adapter`, `OscCal`, `Wire`, then `I2c`, `OscTune`, `Crc`, `XinputReport`: done.
2. Proofs: the theorems above are done. `SoonInSync` is left.
