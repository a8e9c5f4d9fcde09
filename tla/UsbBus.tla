------------------------------- MODULE UsbBus -------------------------------
(***************************************************************************)
(* The driver of UsbDrv on a bus with a host that follows the USB rules:   *)
(* it resets the bus, runs a list of control transfers and, once it has    *)
(* configured the device, polls endpoint 1.  Packets are heard, garbled or *)
(* lost; a packet sent while the device calibrates is not heard.           *)
(***************************************************************************)
EXTENDS UsbDrv, Sequences, FiniteSets

CONSTANTS
  Script,     \* the control transfers of the host, in order
  MaxLoss,    \* packets the bus loses or garbles
  MaxAbort,   \* transfers the host gives up and starts again
  MaxReset,   \* resets of the bus after the first
  ResetPolls  \* polls of the device that a reset lasts at least

ASSUME ScriptAssumption == Script \in Seq(Requests) /\ Len(Script) > 0
\* An address has seven bits, and a device that is configured keeps the one it has.
ASSUME AddressingAssumption ==
  \A i \in 1 .. Len(Script) : Script[i].bRequest = "SET_ADDRESS" =>
    /\ Script[i].value < 128
    /\ \A j \in 1 .. i : Script[j].bRequest # "SET_CONFIGURATION"
ASSUME BoundsAssumption == MaxLoss \in Nat /\ MaxAbort \in Nat /\ MaxReset \in Nat
\* A reset takes 10 ms or more.  Endpoint 1 is not fetched in it, so the device reads
\* the controller for at most one more report, and polls twice at least.
ASSUME PollsAssumption == ResetPolls \in Nat /\ ResetPolls >= 2

\* Reports are numbered round, from 1.
ASSUME NumberedAssumption ==
  IsFiniteSet(Reports) /\ Reports = 1 .. Cardinality(Reports)

VARIABLES
  bus,        \* "reset" while the host drives SE0, else "run"
  polled,     \* polls of the device that saw this reset
  step,       \* transfer of Script in progress; beyond its end: none left
  stage,      \* stage of the transfer: setup, out, in, status
  xact,       \* what the host sends next in a transaction, "none" between two
  hostAddr,   \* the address the host uses for the device
  expect,     \* the data token the host expects on endpoint 0
  seen,       \* the data it took in this transfer, packet by packet
  expect1,    \* the data token it expects on endpoint 1
  accepted,   \* the report it took last
  gap,        \* reports it missed before that one
  misheard,   \* history: the device took the last request for the data of an OUT
  losses, aborts, resets

hostVars == <<bus, polled, step, stage, xact, hostAddr, expect, seen, expect1,
              accepted, gap, misheard>>
budget == <<losses, aborts, resets>>
busVars == <<vars, hostVars, budget>>

Current == Script[step]
Transferring == bus = "run" /\ step <= Len(Script)
Configured ==
  bus = "run" /\ \E i \in 1 .. step - 1 : Script[i].bRequest = "SET_CONFIGURATION"

\* The stages the USB rules give a transfer.
ReadCodes == {"GET_STATUS", "GET_DESCRIPTOR", "GET_CONFIGURATION", "GET_INTERFACE"}
Reads(r) == r.bRequest \in ReadCodes /\ r.wLength > 0
Writes(r) == r.bRequest \notin ReadCodes /\ r.wLength > 0
AfterSetup(r) == IF Reads(r) THEN "in" ELSE IF Writes(r) THEN "out" ELSE "status"

\* Only the last packet of a reply is not full.
Total(s) == IF s = <<>> THEN 0 ELSE PacketSize * (Len(s) - 1) + s[Len(s)].len

-----------------------------------------------------------------------------
(* The bus: Exchange is one packet of the host, what the device does with   *)
(* it (action), the answer, and what the host does with the answer it sees. *)

Lose == losses < MaxLoss /\ losses' = losses + 1 /\ UNCHANGED <<aborts, resets>>

Exchange(action, answer, react(_)) ==
  \/ action /\ react(answer) /\ UNCHANGED budget
  \/ action /\ answer # "none" /\ react("none") /\ Lose
  \/ IgnoredPacket /\ react("none") /\ Lose
  \/ UNCHANGED vars /\ react("none") /\ Lose
  \/ ~InterruptsEnabled /\ UNCHANGED vars /\ react("none") /\ UNCHANGED budget

\* A packet no answer is expected to.
Packet(action, after) ==
  Exchange(action, "none", LAMBDA a : after)

-----------------------------------------------------------------------------
BusInit ==
  /\ Init
  /\ bus = "reset" /\ polled = 0
  /\ step = 1 /\ stage = "setup" /\ xact = "none" /\ hostAddr = 0
  /\ expect = USBPID_DATA1 /\ seen = <<>>
  /\ expect1 = USBPID_DATA0 /\ accepted = NoReport /\ gap = 0
  /\ misheard = FALSE
  /\ losses = 0 /\ aborts = 0 /\ resets = 0

StartReset ==
  /\ bus' = "reset" /\ polled' = 0
  /\ step' = 1 /\ stage' = "setup" /\ xact' = "none" /\ hostAddr' = 0
  /\ seen' = <<>> /\ expect' = USBPID_DATA1
  /\ UNCHANGED <<vars, expect1, accepted, gap, misheard>>

HostReset ==
  /\ bus = "run" /\ resets < MaxReset
  /\ StartReset
  /\ resets' = resets + 1
  /\ UNCHANGED <<losses, aborts>>

\* A device that does not answer to the address the host uses is reset.
HostGiveUp ==
  /\ Transferring /\ xact = "none" /\ hostAddr # usbDeviceAddr
  /\ StartReset
  /\ UNCHANGED budget

\* A reset lasts 10 ms or more, and once the report it may be reading is handed
\* over the device polls faster than that.
HostEndReset ==
  /\ bus = "reset" /\ polled >= ResetPolls
  /\ bus' = "run"
  /\ UNCHANGED <<vars, polled, step, stage, xact, hostAddr, expect, seen,
                 expect1, accepted, gap, misheard, budget>>

StartTransfer(n) ==
  step' = n /\ stage' = "setup" /\ seen' = <<>> /\ expect' = USBPID_DATA1

\* What a completed transfer changes for the host.
Complete ==
  /\ StartTransfer(step + 1)
  /\ hostAddr' = IF Current.bRequest = "SET_ADDRESS" THEN Current.value ELSE hostAddr
  /\ expect1' = IF Current.bRequest = "SET_CONFIGURATION" THEN USBPID_DATA0 ELSE expect1

\* The host gives a transfer up, by a timeout of its own, and starts it again.
HostAbort ==
  /\ Transferring /\ xact = "none" /\ stage # "setup"
  /\ aborts < MaxAbort
  /\ StartTransfer(step)
  /\ aborts' = aborts + 1
  /\ UNCHANGED <<vars, bus, polled, xact, hostAddr, expect1, accepted, gap,
                 misheard, losses, resets>>

\* A device that has nothing to answer with answers NAK for ever: in the end the
\* host gives up.
Mute ==
  /\ usbRxLen = 0 /\ IsHandshake(usbTxLen) /\ usbMsgLen = USB_NO_MSG
  /\ pc \notin {"txToggle", "txCopy", "txCrc", "txLen"}
HostTimeout ==
  /\ Transferring /\ xact = "none"
  /\ stage = "in" \/ (stage = "status" /\ ~Reads(Current))
  /\ Mute
  /\ StartTransfer(step)
  /\ UNCHANGED <<vars, bus, polled, xact, hostAddr, expect1, accepted, gap, misheard, budget>>

notTransfer == <<bus, polled, step, stage, hostAddr, expect, seen, expect1,
                 accepted, gap, misheard>>

\* A transaction that sends data starts with its token.  The data follow two bit
\* times later; the calibration may end in between.
HostToken(tok, s, next) ==
  /\ Transferring /\ xact = "none" /\ stage = s
  /\ Packet(SetupOrOutToken(tok, hostAddr), xact' = next /\ UNCHANGED notTransfer)

\* The host waits 10 ms after a reset: the device has polled the line again,
\* and may at most still be calibrating.
Recovered == wasReset => pc = "calibrate"

HostSetupToken == Recovered /\ HostToken(USBPID_SETUP, "setup", "setup")
HostOutToken == HostToken(USBPID_OUT, "out", "out")
HostStatusToken ==
  Transferring /\ Reads(Current) /\ HostToken(USBPID_OUT, "status", "status")

\* The data packet of a transaction, which the device acknowledges or not.
HostSetupData ==
  /\ bus = "run" /\ xact = "setup"
  /\ Exchange(DataPacket(Current, SetupSize + RxOverhead), DataReply,
       LAMBDA a : /\ xact' = "none"
                  /\ stage' = IF a = "ACK" THEN AfterSetup(Current) ELSE stage
                  /\ UNCHANGED <<bus, polled, step, hostAddr, expect, seen,
                                 expect1, accepted, gap>>)
  /\ misheard' = IF usbRxLen' = usbRxLen THEN misheard ELSE usbCurrentTok = USBPID_OUT

HostOutData ==
  /\ bus = "run" /\ xact = "out"
  /\ Exchange(DataPacket(Junk, PacketSize + RxOverhead), DataReply,
       LAMBDA a : /\ xact' = "none"
                  /\ stage' = IF a = "ACK" THEN "status" ELSE stage
                  /\ UNCHANGED <<bus, polled, step, hostAddr, expect, seen,
                                 expect1, accepted, gap, misheard>>)

HostStatusData ==
  /\ bus = "run" /\ xact = "status"
  /\ Exchange(DataPacket(Junk, RxOverhead), DataReply,
       LAMBDA a : /\ xact' = "none"
                  /\ IF a = "ACK" THEN Complete
                     ELSE UNCHANGED <<step, stage, hostAddr, expect, seen, expect1>>
                  /\ UNCHANGED <<bus, polled, accepted, gap, misheard>>)

\* The data stage of a read ends with a short packet or with wLength bytes.
Take(seg) ==
  /\ seen' = Append(seen, seg)
  /\ stage' = IF (seg.len < PacketSize) \/ (Total(seen') >= Current.wLength)
              THEN "status" ELSE stage
  /\ expect' = OtherToken(expect)
  /\ UNCHANGED <<step, hostAddr, expect1>>

\* A data packet with the token already seen is acknowledged and dropped.
HostIn ==
  /\ Transferring /\ xact = "none"
  /\ stage = "in" \/ (stage = "status" /\ ~Reads(Current))
  /\ Exchange(InToken0(hostAddr), IF InAnswered(hostAddr) THEN InReply0 ELSE "none",
       LAMBDA a :
         /\ xact' = IF a = "DATA" THEN "ack" ELSE "none"
         /\ IF a = "DATA" /\ usbTxBuf.tok = expect
            THEN IF stage = "in" THEN Take(usbTxBuf.seg) ELSE Complete
            ELSE UNCHANGED <<step, stage, hostAddr, expect, seen, expect1>>
         /\ UNCHANGED <<bus, polled, accepted, gap, misheard>>)

HostAck ==
  /\ bus = "run" /\ xact = "ack"
  /\ Packet(IgnoredPacket, xact' = "none" /\ UNCHANGED notTransfer)

\* Reports are numbered round; the host counts the numbers it missed.
NextReport(r) == IF r + 1 \in Reports THEN r + 1 ELSE 1
Missed(r) == (r - accepted - 1) % Cardinality(Reports)

HostPoll ==
  /\ Configured /\ xact = "none"
  /\ Exchange(InToken1(hostAddr), IF InAnswered(hostAddr) THEN InReply1 ELSE "none",
       LAMBDA a :
         /\ xact' = IF a = "DATA" THEN "ack" ELSE "none"
         /\ IF a = "DATA" /\ usbTxBuf1.tok = expect1
            THEN /\ accepted' = usbTxBuf1.data
                 /\ gap' = Missed(usbTxBuf1.data)
                 /\ expect1' = OtherToken(expect1)
            ELSE UNCHANGED <<accepted, gap, expect1>>
         /\ UNCHANGED <<bus, polled, step, stage, hostAddr, expect, seen,
                        misheard>>)

Host ==
  \/ HostReset \/ HostEndReset \/ HostAbort \/ HostTimeout \/ HostGiveUp
  \/ HostSetupToken \/ HostSetupData \/ HostOutToken \/ HostOutData
  \/ HostStatusToken \/ HostStatusData \/ HostIn \/ HostAck \/ HostPoll

\* The device: usbPoll sees the line the host drives.
Device ==
  /\ MainLoop
  /\ pc = "line" => (pc' = "clearAddr" <=> bus = "reset")
  /\ pc = "main" /\ pc' = "intrTest" => report' = NextReport(report)
  /\ polled' = IF pc = "clearAddr" THEN Min2(polled + 1, ResetPolls) ELSE polled
  /\ UNCHANGED <<bus, step, stage, xact, hostAddr, expect, seen, expect1,
                 accepted, gap, misheard, budget>>

BusNext == Host \/ Device

BusSpec == BusInit /\ [][BusNext]_busVars

\* A host controller serves the control transfers and the interrupt endpoint in
\* turn, and finishes a transaction it has begun; the main loop goes on.  Resets,
\* aborts and losses need not happen.
TransferStep == HostSetupToken \/ HostOutToken \/ HostStatusToken \/ HostIn
TransactionStep == HostSetupData \/ HostOutData \/ HostStatusData \/ HostAck
FairBusSpec ==
  /\ BusSpec
  /\ WF_busVars(Device)
  /\ WF_busVars(HostEndReset)
  /\ WF_busVars(HostTimeout)
  /\ WF_busVars(TransactionStep)
  /\ SF_busVars(HostGiveUp)
  /\ SF_busVars(TransferStep)
  /\ SF_busVars(HostPoll)

-----------------------------------------------------------------------------
(* Properties *)

\* "we must not NAK next SETUP" (asmcommon.inc): the receive buffer is free whenever
\* a host that gave no transfer up starts one, after a reset too, unless a packet was lost.
SetupNeverNaked ==
  losses = 0 /\ aborts = 0 /\ xact = "setup" /\ usbCurrentTok = USBPID_SETUP => DataReply = "ACK"

\* Data that usbProcessRx takes for the data stage of a control-out transfer is
\* what the host sent as such.  The request of a SETUP is mistaken for it only when the
\* calibration after a second reset ends between the token and the request, and the
\* last token before was an OUT.
OutDataIsData ==
  /\ pc = "rxProc" /\ usbRxToken = USBPID_OUT => usbRxBuf[data] = Junk \/ misheard
  /\ misheard => resets > 0 \/ losses > 0

\* The host gets the bytes it asked for, in order and to the end, unless a packet was
\* lost or the device did not take its request for one.
HostDataRight ==
  losses = 0 /\ Transferring /\ Reads(Current) /\ ~misheard =>
    /\ \A i \in 1 .. Len(seen) : seen[i] = Control!BlockSegment(Current, i - 1)
    /\ stage = "status" =>
         Total(seen) = Limit(ReplyLength(Current), Current.wLength)

\* Between two transfers host and device agree on the device's address, unless a packet
\* was lost or the device did not take the last request for one: a packet of the transfer
\* before, still armed, may then pass for the status of a SET_ADDRESS.
AddressAgreement ==
  losses = 0 /\ bus = "run" /\ stage = "setup" /\ ~misheard =>
    /\ usbDeviceAddr = hostAddr
    /\ aborts = 0 => usbNewDeviceAddr = hostAddr

\* Reports arrive in order and without repetition; each packet that is lost
\* costs at most two of them before the data tokens agree again, and a reset one,
\* as configuring the device does not reset its data token.
ReportsResync == gap <= 2 * losses + resets

\* The device is enumerated, whatever was lost, given up or reset before: a transfer
\* that comes to nothing is begun again, and a device that does not hear its address,
\* because it took one the host did not see it take, is reset.
Enumerated == []<>(step > Len(Script))

\* With the last transfer done every report reaches the host, again and again.
ReportsFlow == \A r \in Reports : []<>(step > Len(Script) /\ accepted = r)
=============================================================================
