------------------------------ MODULE Adapter ------------------------------
(***************************************************************************)
(* The firmware above the USB driver: the main loop of main.c and the      *)
(* driver of the controller (nesminicontrollerdrv.c).  One action is one   *)
(* byte on the I2C bus; the controller may be plugged, unplugged and its   *)
(* buttons pressed between any two.  Endpoint 1 is the mailbox of module   *)
(* ReportPipe, which module UsbDrv implements.                             *)
(*                                                                         *)
(* A button state is the set of the bits that are set in its 16-bit word.  *)
(***************************************************************************)
EXTENDS Integers

CONSTANTS
  Controllers, \* what may be plugged: TRUE is a SNES Mini controller, which needs
               \* its initialisation, FALSE a NES Mini one, which does not
  Boards,      \* TRUE is a board that pulls SCL up itself
  Presses,     \* what a player may hold down: sets of bits
  MaxPlug      \* times the controller is plugged or unplugged

High == 8 .. 15
Low == 0 .. 7
Word == High \cup Low

ASSUME PressesAssumption == Presses \subseteq SUBSET Word
ASSUME KindAssumption == Controllers \subseteq BOOLEAN /\ Boards \subseteq BOOLEAN
ASSUME MaxPlugAssumption == MaxPlug \in Nat

\* snes_set_report_buttons: where each bit of the word goes in the report;
\* bits 0..7 are commonButtonMask, 8..15 snesButtonMask.
ReportBit ==
  [b \in {0, 15, 14, 1, 12, 10, 6, 4, 3, 5, 13, 9} |->
     CASE b = 0 -> 0      \* UP
       [] b = 15 -> 1     \* RIGHT
       [] b = 14 -> 2     \* DOWN
       [] b = 1 -> 3      \* LEFT
       [] b = 12 -> 4     \* SELECT
       [] b = 10 -> 5     \* START
       [] b = 6 -> 6      \* B
       [] b = 4 -> 7      \* A
       [] b = 3 -> 8      \* X
       [] b = 5 -> 9      \* Y
       [] b = 13 -> 10    \* L
       [] b = 9 -> 11]    \* R
ReportOf(word) == {ReportBit[b] : b \in word \cap DOMAIN ReportBit}

NoReport == {-1}     \* the mailbox is empty: usbInterruptIsReady

VARIABLES
  \* the controller
  needsInit, attached, pressed,
  initialised,    \* it got 0x55 in 0xF0 since it was plugged
  selected,       \* it has answered to its address since the last start
  plugs,
  pullUps,        \* the board
  \* the firmware
  pc, connected, buttons, led,
  high,           \* the byte read as fifth of six
  booting,        \* snes_connect was called before the loop
  \* endpoint 1 and the host
  box,            \* report waiting for the host
  shown,          \* report the host got last
  \* history
  lost,           \* unplugged since snes_connect last reached the controller
  held, seen      \* buttons held all through the read, and at some time of it

controller == <<needsInit, attached, pressed, initialised, selected, plugs, pullUps>>
state == <<connected, buttons, high, led>>
usb == <<box, shown>>
history == <<lost, held, seen>>
vars == <<controller, state, pc, booting, usb, history>>

-----------------------------------------------------------------------------
Init ==
  /\ needsInit \in Controllers /\ attached \in BOOLEAN
  /\ pullUps \in Boards
  /\ pressed = {} /\ initialised = FALSE /\ selected = FALSE /\ plugs = 0
  /\ pc = "boot" /\ booting = TRUE
  /\ connected = FALSE /\ buttons = {} /\ high = {} /\ led = FALSE
  /\ box = NoReport /\ shown = {}
  /\ lost = FALSE /\ held = {} /\ seen = {}

(* The environment. *)

\* History: what the player holds from now on is p; it matters while the bytes are
\* read.
Observe(p) ==
  IF pc \in {"readSkip", "readHigh", "readLow"}
  THEN held' = held \cap p /\ seen' = seen \cup p
  ELSE UNCHANGED <<held, seen>>

Plug ==
  /\ ~attached /\ plugs < MaxPlug
  /\ attached' = TRUE /\ plugs' = plugs + 1
  /\ needsInit' \in Controllers
  /\ UNCHANGED <<pullUps, pressed, initialised, selected, state, pc, booting, usb, history>>

Unplug ==
  /\ attached /\ plugs < MaxPlug
  /\ attached' = FALSE /\ initialised' = FALSE /\ selected' = FALSE
  /\ pressed' = {}
  /\ plugs' = plugs + 1
  /\ lost' = TRUE /\ Observe({})
  /\ UNCHANGED <<needsInit, pullUps, state, pc, booting, usb>>

Press(p) ==
  /\ attached /\ pressed' = p /\ Observe(p)
  /\ UNCHANGED <<needsInit, pullUps, attached, initialised, selected, plugs, state, pc, booting,
                 usb, lost>>

HostTake ==
  /\ box # NoReport
  /\ shown' = box /\ box' = NoReport
  /\ UNCHANGED <<controller, state, pc, booting, history>>

-----------------------------------------------------------------------------
(* The firmware. *)

Step(from, to) == pc = from /\ pc' = to

\* main, before the loop: DDRB, watchdog, usbInit, i2c_init
Boot ==
  /\ Step("boot", "connAddr")
  /\ booting' = TRUE
  /\ UNCHANGED <<controller, state, usb, history>>

\* i2c_transfer and i2c_stop wait for SCL, which the board or the controller
\* pulls up.
SclRises == pullUps \/ attached

I2C == {"connAddr", "connReg", "connVal", "connStop", "getAddr", "getReg",
        "getStop", "readAddr", "readSkip", "readHigh", "readLow", "readStop"}

\* One byte, or a stop, on the bus.
Transfer(from, to) == SclRises /\ Step(from, to)

\* Mutant: the watchdog is enabled only after the first snes_connect.
BugLateWatchdog ==
  /\ pc \in I2C /\ ~SclRises /\ ~booting
  /\ pc' = "boot" /\ booting' = TRUE
  /\ connected' = FALSE /\ buttons' = {} /\ high' = {} /\ led' = FALSE
  /\ box' = NoReport
  /\ selected' = FALSE
  /\ UNCHANGED <<needsInit, pullUps, attached, pressed, initialised, plugs, shown, history>>

\* Nobody serves the watchdog while the bus waits: the device starts again.
Watchdog ==
  /\ pc \in I2C /\ ~SclRises
  /\ pc' = "boot" /\ booting' = TRUE
  /\ connected' = FALSE /\ buttons' = {} /\ high' = {} /\ led' = FALSE
  /\ box' = NoReport
  /\ selected' = FALSE
  /\ UNCHANGED <<needsInit, pullUps, attached, pressed, initialised, plugs, shown, history>>

\* The address of the controller: it acknowledges if it is there.
Select == selected' = attached

\* snes_connect
ConnectAddress ==
  /\ Transfer("connAddr", "connReg")
  /\ Select
  /\ connected' = attached
  /\ lost' = (lost /\ ~attached)
  /\ UNCHANGED <<needsInit, pullUps, attached, pressed, initialised, plugs, buttons, high, led,
                 booting, usb, held, seen>>

ConnectRegister ==
  /\ Transfer("connReg", "connVal")
  /\ UNCHANGED <<controller, state, booting, usb, history>>

ConnectValue ==
  /\ Transfer("connVal", "connStop")
  /\ initialised' = (initialised \/ selected)
  /\ UNCHANGED <<needsInit, pullUps, attached, pressed, selected, plugs, state, booting, usb,
                 history>>

\* ... and what main does when it returns
ConnectStop ==
  /\ Transfer("connStop", IF booting THEN "loop" ELSE "report")
  /\ led' = IF booting THEN led ELSE ~connected
  /\ booting' = FALSE
  /\ UNCHANGED <<controller, connected, buttons, high, usb, history>>

\* main: wdt_reset, usbPoll, usbInterruptIsReady.  Mutant: it is not asked whether
\* the controller is connected.
BugAlwaysFetch ==
  /\ IF box # NoReport THEN Step("loop", "led") ELSE Step("loop", "getAddr")
  /\ UNCHANGED <<controller, state, booting, usb, history>>

Loop ==
  /\ IF box # NoReport THEN Step("loop", "led")
     ELSE Step("loop", IF connected THEN "getAddr" ELSE "connAddr")
  /\ led' = (led \/ (box = NoReport /\ ~connected))
  /\ IF box = NoReport THEN held' = {} /\ seen' = {} ELSE UNCHANGED <<held, seen>>
  /\ UNCHANGED <<controller, connected, buttons, high, booting, usb, lost>>

\* snes_get_state: the address again says whether the controller is there.
GetAddress ==
  /\ Transfer("getAddr", "getReg")
  /\ Select
  /\ connected' = attached
  /\ UNCHANGED <<needsInit, pullUps, attached, pressed, initialised, plugs, buttons, high, led,
                 booting, usb, history>>

GetRegister ==
  /\ Transfer("getReg", "getStop")
  /\ UNCHANGED <<controller, state, booting, usb, history>>

\* Mutant: the buttons of a controller that is gone stay pressed.
BugKeepButtons ==
  /\ Transfer("getStop", IF connected THEN "readAddr" ELSE "report")
  /\ UNCHANGED <<controller, state, booting, usb, history>>

GetStop ==
  /\ Transfer("getStop", IF connected THEN "readAddr" ELSE "report")
  /\ buttons' = IF connected THEN buttons ELSE {}
  /\ UNCHANGED <<controller, connected, high, led, booting, usb, history>>

\* the second address, whose acknowledge is not looked at, and four bytes
ReadAddress ==
  /\ Transfer("readAddr", "readSkip")
  /\ Select
  /\ held' = pressed /\ seen' = pressed
  /\ UNCHANGED <<needsInit, pullUps, attached, pressed, initialised, plugs, state, booting, usb,
                 lost>>

ReadSkip ==
  /\ Transfer("readSkip", "readHigh")
  /\ UNCHANGED <<controller, state, booting, usb, history>>

\* A byte of the controller, as the firmware inverts it: a released bus reads
\* 0xFF; before its initialisation the SNES controller sends 0x00.
Inverted(byte) ==
  IF ~selected THEN {}
  ELSE IF needsInit /\ ~initialised THEN byte
  ELSE pressed \cap byte

ReadHigh ==
  /\ Transfer("readHigh", "readLow")
  /\ high' = Inverted(High)
  /\ UNCHANGED <<controller, connected, buttons, led, booting, usb, history>>

\* Mutants: the second byte replaces the first; the first is not shifted.
BugDropHigh ==
  /\ Transfer("readLow", "readStop")
  /\ high' = Inverted(Low)
  /\ UNCHANGED <<controller, connected, buttons, led, booting, usb, history>>

BugNoShift ==
  /\ Transfer("readLow", "readStop")
  /\ high' = {b - 8 : b \in high} \cup Inverted(Low)
  /\ UNCHANGED <<controller, connected, buttons, led, booting, usb, history>>

ReadLow ==
  /\ Transfer("readLow", "readStop")
  /\ high' = high \cup Inverted(Low)
  /\ UNCHANGED <<controller, connected, buttons, led, booting, usb, history>>

ReadStop ==
  /\ Transfer("readStop", "report")
  /\ buttons' = high
  /\ high' = {}
  /\ UNCHANGED <<controller, connected, led, booting, usb, history>>

\* snes_set_report_buttons, usbSetInterrupt
SetReport ==
  /\ Step("report", "led")
  /\ box' = ReportOf(buttons)
  /\ UNCHANGED <<controller, state, booting, shown, history>>

\* the end of the loop
SetLed ==
  /\ Step("led", "loop")
  /\ led' = IF connected THEN buttons # {} ELSE led
  /\ UNCHANGED <<controller, connected, buttons, high, booting, usb, history>>

Firmware ==
  \/ Boot \/ Loop \/ SetReport \/ SetLed
  \/ ConnectAddress \/ ConnectRegister \/ ConnectValue \/ ConnectStop
  \/ GetAddress \/ GetRegister \/ GetStop
  \/ ReadAddress \/ ReadSkip \/ ReadHigh \/ ReadLow \/ ReadStop
  \/ Watchdog

Next ==
  \/ Firmware
  \/ Plug \/ Unplug \/ HostTake
  \/ \E p \in Presses : Press(p)

Spec == Init /\ [][Next]_vars
\* The firmware runs on or the watchdog starts it again; the host polls.
FairSpec == Spec /\ WF_vars(Firmware) /\ WF_vars(HostTake)

-----------------------------------------------------------------------------
(* Properties *)

\* The bytes of a report are read one after the other while the player goes on, so
\* it may mix two states of the buttons, but it shows every button that was held all
\* through the read and, unless a loss went unnoticed, none that was not held at
\* some time of it; a report made without a read shows none.
ReportOfItsRead ==
  box # NoReport =>
    /\ ReportOf(held) \subseteq box
    /\ ~lost => box \subseteq ReportOf(seen)

\* snes_get_state reads only from a controller that snes_connect initialised,
\* unless it was unplugged since: not even one plugged in the middle of it.
Reading == {"getAddr", "getReg", "getStop", "readAddr", "readSkip", "readHigh",
            "readLow", "readStop"}
InitialisedBeforeRead == pc \in Reading /\ connected /\ ~lost => initialised

\* No report shows a button that nobody can have pressed: "force snes_connect
\* everytime the connection is lost" (main.c), or the read gives all of them.
NoPhantomButtons ==
  box # NoReport => \E q \in SUBSET UNION Presses : box = ReportOf(q)

\* They only appear once a controller was unplugged and the loss not noticed: the
\* first read that fails releases them, before the next report is handed over.
PhantomOnlyUnnoticed == ~lost => NoPhantomButtons

\* A controller that is gone releases its buttons: the host, polling, ends up with
\* a report of no button.
UnplugReleases == <>[](pullUps /\ ~attached) => <>[](shown = {})

\* Buttons held on a controller that stays are what the host ends up with, for
\* the SNES controller if the loss of an earlier one was noticed.
HeldButtonsShown ==
  \A p \in Presses :
    <>[](attached /\ pressed = p /\ ~(needsInit /\ lost)) => <>[](shown = ReportOf(p))

\* A wait for SCL ends: the bus comes back or the watchdog starts the device
\* again, so the adapter never needs to be unplugged to recover.
BusWaitEnds == pc \in I2C ~> pc \notin I2C
=============================================================================
