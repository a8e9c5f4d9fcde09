--------------------------- MODULE AdapterProofs ----------------------------
(***************************************************************************)
(* Proofs about the main loop and the controller driver of module Adapter, *)
(* for any buttons a player may hold and any number of times the           *)
(* controller is plugged.                                                  *)
(***************************************************************************)
EXTENDS Adapter, TLAPS

-----------------------------------------------------------------------------
(* The invariant *)

\* What the booleans of the firmware are, and that a player holds what players can.
Held == UNION Presses
BooleanInv ==
  /\ connected \in BOOLEAN /\ attached \in BOOLEAN /\ lost \in BOOLEAN
  /\ initialised \in BOOLEAN /\ selected \in BOOLEAN
  /\ pressed \subseteq Held

\* A report waits only from snes_set_report_buttons to the end of the next round of
\* the loop that finds it gone, and until then it is that of the buttons.
WaitingInv == box # NoReport => pc \in {"led", "loop"} /\ box = ReportOf(buttons)

\* Where snes_connect and snes_get_state are: the first is called without a
\* connection, and only a connected controller is read.
InBytes == {"readAddr", "readSkip", "readHigh", "readLow", "readStop"}
ConnectionInv ==
  /\ pc \in {"boot", "connAddr"} => ~connected
  /\ pc \in {"getAddr"} \cup InBytes => connected

\* A controller that answered, and was not unplugged since, is initialised when
\* snes_connect returns: 0x55 went to the one that had been selected.
InitialisedInv ==
  connected /\ ~lost =>
    IF pc \in {"connReg", "connVal"} THEN selected ELSE initialised

\* The word read is empty between two reads and the buttons are released when no
\* controller answers; both hold nothing else than players do, unless a controller
\* was lost.
WordInv ==
  /\ pc \notin {"readLow", "readStop"} => high = {}
  /\ ~connected /\ pc \notin {"getReg", "getStop"} => buttons = {}
  /\ ~lost => buttons \subseteq Held /\ high \subseteq Held

\* What the bytes read so far have to do with what was pressed since the address
\* of the read: a controller that has left has no button pressed, so one that does
\* not answer cannot have held any.  Nothing was held or seen without a read.
ReadWindow == {"readSkip", "readHigh", "readLow"}
Connecting == {"connReg", "connVal", "connStop"}
WindowInv ==
  /\ ~attached => pressed = {}
  /\ pc \in ReadWindow =>
       held \subseteq pressed /\ pressed \subseteq seen /\ (selected \/ held = {})
  /\ pc = "readLow" => held \cap High \subseteq high
  /\ pc = "readStop" => held \cap Word \subseteq high
  /\ pc \in {"readLow", "readStop"} /\ ~lost => high \subseteq seen

\* What was read is what is reported, until the next read begins.
ReportedInv ==
  /\ pc \in {"getAddr", "getReg", "getStop", "readAddr"} => held = {}
  /\ pc \in {"connAddr"} \cup Connecting /\ ~booting => held = {}
  /\ pc \in Connecting => buttons = {}
  /\ pc = "report" \/ box # NoReport =>
       held \cap Word \subseteq buttons /\ (~lost => buttons \subseteq seen)

AdapterInv ==
  /\ BooleanInv /\ WaitingInv /\ ConnectionInv /\ InitialisedInv /\ WordInv
  /\ WindowInv /\ ReportedInv

LEMMA AdapterInit == Init => AdapterInv
<1> SUFFICES ASSUME Init PROVE AdapterInv
  OBVIOUS
<1>1. BooleanInv
  BY DEF Init, BooleanInv
<1> QED
  BY <1>1
  DEF Init, AdapterInv, WaitingInv, ConnectionInv, InitialisedInv, WordInv, InBytes,
      WindowInv, ReportedInv, ReadWindow, Connecting

-----------------------------------------------------------------------------
(* The environment *)

LEMMA EnvironmentKeeps ==
  ASSUME AdapterInv, Plug \/ Unplug \/ HostTake \/ \E p \in Presses : Press(p)
  PROVE  AdapterInv'
<1> USE DEF AdapterInv, state, usb, history
<1>1. CASE Plug
  BY <1>1 DEF Plug, BooleanInv, WaitingInv, ConnectionInv, InitialisedInv, WordInv,
              WindowInv, ReportedInv
<1>2. CASE Unplug
  <2>1. BooleanInv' /\ WaitingInv' /\ ConnectionInv' /\ InitialisedInv' /\ WordInv'
    BY <1>2 DEF Unplug, BooleanInv, WaitingInv, ConnectionInv, InitialisedInv, WordInv
  <2>2. WindowInv'
    BY <1>2 DEF Unplug, Observe, WindowInv, ReadWindow
  <2>3. ReportedInv'
    BY <1>2 DEF Unplug, Observe, WaitingInv, ReportedInv, Connecting
  <2> QED
    BY <2>1, <2>2, <2>3
<1>3. CASE HostTake
  BY <1>3
  DEF HostTake, controller, BooleanInv, WaitingInv, ConnectionInv, InitialisedInv, WordInv,
      WindowInv, ReportedInv
<1>4. ASSUME NEW p \in Presses, Press(p)
      PROVE  AdapterInv'
  <2>1. p \subseteq Held
    BY DEF Held
  <2>2. BooleanInv' /\ WaitingInv' /\ ConnectionInv' /\ InitialisedInv' /\ WordInv'
    BY <1>4, <2>1
    DEF Press, BooleanInv, WaitingInv, ConnectionInv, InitialisedInv, WordInv
  <2>3. WindowInv'
    BY <1>4 DEF Press, Observe, WindowInv, ReadWindow
  <2>4. ReportedInv'
    BY <1>4 DEF Press, Observe, WaitingInv, ReportedInv, Connecting
  <2> QED
    BY <2>2, <2>3, <2>4
<1> QED
  BY <1>1, <1>2, <1>3, <1>4

-----------------------------------------------------------------------------
(* The firmware *)

LEMMA BooleansKept ==
  ASSUME BooleanInv, Firmware
  PROVE  BooleanInv'
<1> USE DEF BooleanInv, Transfer, Step, Select, controller, state, usb, history
<1>1. CASE Boot \/ Loop \/ SetReport \/ SetLed \/ Watchdog
  BY <1>1 DEF Boot, Loop, SetReport, SetLed, Watchdog
<1>2. CASE ConnectAddress \/ ConnectRegister \/ ConnectValue \/ ConnectStop
  BY <1>2 DEF ConnectAddress, ConnectRegister, ConnectValue, ConnectStop
<1>3. CASE GetAddress \/ GetRegister \/ GetStop
  BY <1>3 DEF GetAddress, GetRegister, GetStop
<1>4. CASE ReadAddress \/ ReadSkip \/ ReadHigh \/ ReadLow \/ ReadStop
  BY <1>4 DEF ReadAddress, ReadSkip, ReadHigh, ReadLow, ReadStop
<1> QED
  BY <1>1, <1>2, <1>3, <1>4 DEF Firmware

\* Only an initialised controller is read, unless one was lost: no bit is set that
\* its player does not hold.
LEMMA InvertedPressed ==
  ASSUME BooleanInv, ConnectionInv, InitialisedInv, ~lost, pc \in InBytes, NEW byte
  PROVE  Inverted(byte) \subseteq pressed
<1>1. initialised
  BY DEF BooleanInv, ConnectionInv, InitialisedInv, InBytes
<1> QED
  BY <1>1 DEF Inverted, BooleanInv

\* What was held since the address is in the byte read, whether it is true, the
\* 0xFF of a bus without a controller or the 0x00 of an uninitialised one.
LEMMA InvertedShowsHeld ==
  ASSUME WindowInv, pc \in ReadWindow, NEW byte
  PROVE  held \cap byte \subseteq Inverted(byte)
BY DEF WindowInv, Inverted

LEMMA FirmwareKeeps ==
  ASSUME AdapterInv, Firmware
  PROVE  BooleanInv' /\ WaitingInv' /\ ConnectionInv' /\ InitialisedInv' /\ WordInv'
<1>0. BooleanInv'
  BY BooleansKept DEF AdapterInv
<1> USE DEF AdapterInv, BooleanInv, WaitingInv, ConnectionInv, InitialisedInv, WordInv,
            Transfer, Step, Select, controller, state, usb, history, InBytes
<1>1. CASE Boot
  BY <1>0, <1>1 DEF Boot
<1>2. CASE Loop
  BY <1>0, <1>2 DEF Loop
<1>3. CASE SetReport \/ SetLed
  BY <1>0, <1>3 DEF SetReport, SetLed
<1>4. CASE Watchdog
  BY <1>0, <1>4 DEF Watchdog
<1>5. CASE ConnectAddress
  BY <1>0, <1>5 DEF ConnectAddress
<1>6. CASE ConnectRegister \/ ConnectValue \/ ConnectStop
  BY <1>0, <1>6 DEF ConnectRegister, ConnectValue, ConnectStop
<1>7. CASE GetAddress
  BY <1>0, <1>7 DEF GetAddress
<1>8. CASE GetRegister \/ GetStop
  BY <1>0, <1>8 DEF GetRegister, GetStop
<1>9. CASE ReadAddress \/ ReadSkip
  BY <1>0, <1>9 DEF ReadAddress, ReadSkip
<1>10. CASE ReadHigh \/ ReadLow
  BY <1>0, <1>10, InvertedPressed DEF ReadHigh, ReadLow
<1>11. CASE ReadStop
  BY <1>0, <1>11 DEF ReadStop
<1> QED
  BY <1>1, <1>2, <1>3, <1>4, <1>5, <1>6, <1>7, <1>8, <1>9, <1>10, <1>11 DEF Firmware

LEMMA WindowKept ==
  ASSUME AdapterInv, Firmware
  PROVE  WindowInv'
<1> USE DEF AdapterInv, WindowInv, ReadWindow, Transfer, Step, Select,
            controller, state, usb, history
<1>1. CASE Boot \/ Loop \/ SetReport \/ SetLed \/ Watchdog
  BY <1>1 DEF Boot, Loop, SetReport, SetLed, Watchdog
<1>2. CASE ConnectAddress \/ ConnectRegister \/ ConnectValue \/ ConnectStop
  BY <1>2 DEF ConnectAddress, ConnectRegister, ConnectValue, ConnectStop
<1>3. CASE GetAddress \/ GetRegister \/ GetStop
  BY <1>3 DEF GetAddress, GetRegister, GetStop
<1>4. CASE ReadAddress \/ ReadSkip \/ ReadStop
  BY <1>4 DEF ReadAddress, ReadSkip, ReadStop, BooleanInv
<1>5. CASE ReadHigh
  <2>1. held \cap High \subseteq Inverted(High)
    BY <1>5, InvertedShowsHeld DEF ReadHigh
  <2>2. ~lost => Inverted(High) \subseteq pressed
    BY <1>5, InvertedPressed DEF ReadHigh, InBytes
  <2> QED
    BY <1>5, <2>1, <2>2 DEF ReadHigh
<1>6. CASE ReadLow
  <2>1. held \cap Low \subseteq Inverted(Low)
    BY <1>6, InvertedShowsHeld DEF ReadLow
  <2>2. ~lost => Inverted(Low) \subseteq pressed
    BY <1>6, InvertedPressed DEF ReadLow, InBytes
  <2> QED
    BY <1>6, <2>1, <2>2 DEF ReadLow, Word
<1> QED
  BY <1>1, <1>2, <1>3, <1>4, <1>5, <1>6 DEF Firmware

LEMMA ReportedKept ==
  ASSUME AdapterInv, Firmware
  PROVE  ReportedInv'
<1> USE DEF AdapterInv, ReportedInv, WaitingInv, Connecting, Transfer, Step, Select,
            controller, state, usb, history
<1>1. CASE Boot \/ Watchdog
  BY <1>1 DEF Boot, Watchdog
<1>2. CASE Loop
  BY <1>2 DEF Loop
<1>3. CASE SetReport \/ SetLed
  BY <1>3 DEF SetReport, SetLed
<1>4. CASE ConnectAddress
  BY <1>4 DEF ConnectAddress, ConnectionInv, WordInv
<1>5. CASE ConnectRegister \/ ConnectValue \/ ConnectStop
  BY <1>5 DEF ConnectRegister, ConnectValue, ConnectStop
<1>6. CASE GetAddress \/ GetRegister \/ GetStop
  BY <1>6 DEF GetAddress, GetRegister, GetStop
<1>7. CASE ReadAddress \/ ReadSkip \/ ReadHigh \/ ReadLow
  BY <1>7 DEF ReadAddress, ReadSkip, ReadHigh, ReadLow
<1>8. CASE ReadStop
  BY <1>8 DEF ReadStop, WindowInv
<1> QED
  BY <1>1, <1>2, <1>3, <1>4, <1>5, <1>6, <1>7, <1>8 DEF Firmware

LEMMA AdapterInvariant == Spec => []AdapterInv
<1>1. AdapterInv /\ UNCHANGED vars => AdapterInv'
  BY DEF AdapterInv, BooleanInv, WaitingInv, ConnectionInv, InitialisedInv, WordInv,
         WindowInv, ReportedInv, vars, controller, state, usb, history
<1>2. AdapterInv /\ Firmware => AdapterInv'
  BY FirmwareKeeps, WindowKept, ReportedKept DEF AdapterInv
<1>3. AdapterInv /\ [Next]_vars => AdapterInv'
  BY <1>1, <1>2, EnvironmentKeeps DEF Next
<1> QED
  BY <1>3, AdapterInit, PTL DEF Spec

-----------------------------------------------------------------------------
(* What it shows *)

\* snes_get_state never reads a controller that did not get its 0x55, unless one
\* was unplugged since snes_connect last reached a controller.
THEOREM NeverReadUninitialised == Spec => []InitialisedBeforeRead
<1>1. AdapterInv => InitialisedBeforeRead
  BY DEF AdapterInv, BooleanInv, InitialisedInv, InitialisedBeforeRead, Reading
<1> QED
  BY <1>1, AdapterInvariant, PTL

\* A report with buttons that nobody can have pressed appears only after a
\* controller was unplugged and before snes_connect reached one again.
THEOREM PhantomsExplained == Spec => []PhantomOnlyUnnoticed
<1>1. AdapterInv => PhantomOnlyUnnoticed
  BY DEF AdapterInv, WaitingInv, WordInv, Held, PhantomOnlyUnnoticed, NoPhantomButtons
<1> QED
  BY <1>1, AdapterInvariant, PTL

\* A report shows each button held all through its read and, unless a loss went
\* unnoticed, only buttons held at some time of it.
THEOREM ReportExplained == Spec => []ReportOfItsRead
<1>1. AdapterInv => ReportOfItsRead
  <2> SUFFICES ASSUME AdapterInv, box # NoReport
               PROVE  ReportOf(held) \subseteq box /\ (~lost => box \subseteq ReportOf(seen))
    BY DEF ReportOfItsRead
  <2>1. box = ReportOf(buttons)
    BY DEF AdapterInv, WaitingInv
  <2>2. held \cap Word \subseteq buttons /\ (~lost => buttons \subseteq seen)
    BY DEF AdapterInv, ReportedInv
  <2>3. DOMAIN ReportBit \subseteq Word
    BY DEF ReportBit, Word, High, Low
  <2> QED
    BY <2>1, <2>2, <2>3 DEF ReportOf
<1> QED
  BY <1>1, AdapterInvariant, PTL
=============================================================================
