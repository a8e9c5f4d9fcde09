------------------------------- MODULE UsbDrv -------------------------------
(***************************************************************************)
(* The V-USB driver of the adapter: usbPoll and usbSetInterrupt, which the *)
(* main loop runs, and the interrupt handler, which answers the host while *)
(* the main loop is anywhere.                                              *)
(*                                                                         *)
(* One action is one access of the main loop to a variable it shares with  *)
(* the handler (pc says where the loop is); one action is one packet for   *)
(* the handler, which runs with interrupts disabled and answers before it  *)
(* returns.  The host is the environment of this module: any packet may    *)
(* arrive at any moment.  Module UsbBus replaces it by a conforming host.  *)
(*                                                                         *)
(* Configuration modelled: usbconfig.h of the repository (one interrupt-in *)
(* endpoint; no halt, no flow control, no user read/write hooks).          *)
(***************************************************************************)
EXTENDS UsbDefs

CONSTANTS
  Requests,      \* setup requests the host may send
  Reports,       \* reports the application may hand to usbSetInterrupt
  Addresses,     \* non-zero device addresses
  PacketLens,    \* lengths of data packets, with PID and CRC
  ReadyChecked   \* TRUE: the application asks usbInterruptIsReady first

ASSUME RequestsAssumption == Requests \subseteq RequestType
ASSUME ReportsAssumption == Reports # {} /\ NoReport \notin Reports
ASSUME AddressesAssumption == Addresses \subseteq 1 .. 127
ASSUME ReadyAssumption == ReadyChecked \in BOOLEAN
ASSUME PacketLensAssumption == PacketLens \subseteq 1 .. 11

VARIABLES
  \* shared by the handler and the main loop
  usbRxBuf,           \* the two halves of the receive buffer
  usbInputBufOffset,  \* the half the handler receives into
  usbCurrentTok,      \* last SETUP or OUT token for this device
  usbRxLen, usbRxToken, usbTxLen, usbTxBuf, usbDeviceAddr, usbNewDeviceAddr,
  usbTxLen1, usbTxBuf1,
  \* the main loop only
  usbMsgPtr, usbMsgLen, usbMsgFlags, usbConfiguration, wasReset,
  pc,
  data,               \* the half usbProcessRx reads
  len,                \* rx length, then replyLen, then the packet's length
  report,             \* the report last handed to usbSetInterrupt
  \* history: what went over the wire
  req,                \* last setup request that was acknowledged
  sent,               \* data packets sent on endpoint 0 since
  out0,               \* the last of them
  out1,               \* last data packet sent on endpoint 1
  resync              \* SET_INTERFACE was processed since

rxVars == <<usbRxBuf, usbInputBufOffset, usbCurrentTok, usbRxLen, usbRxToken>>
tx0Vars == <<usbTxLen, usbTxBuf>>
tx1Vars == <<usbTxLen1, usbTxBuf1>>
msgVars == <<usbMsgPtr, usbMsgLen, usbMsgFlags>>
addrVars == <<usbDeviceAddr, usbNewDeviceAddr>>
localVars == <<pc, data, len, report>>
hist0 == <<req, sent, out0>>
hist1 == <<out1, resync>>
vars == <<rxVars, tx0Vars, tx1Vars, msgVars, addrVars, usbConfiguration,
          wasReset, localVars, hist0, hist1>>

-----------------------------------------------------------------------------
Init ==
  /\ usbRxBuf = [h \in {0, 1} |-> Junk]
  /\ usbInputBufOffset = 0
  /\ usbCurrentTok = 0
  /\ usbRxLen = 0
  /\ usbRxToken = 0
  /\ usbTxLen = USBPID_NAK
  /\ usbTxBuf = [tok |-> 0, seg |-> Empty, whole |-> FALSE]
  /\ usbDeviceAddr = 0
  /\ usbNewDeviceAddr = 0
  /\ usbTxLen1 = USBPID_NAK
  /\ usbTxBuf1 = [tok |-> USBPID_DATA1, data |-> NoReport, whole |-> FALSE]
  /\ usbMsgPtr = [obj |-> "none", off |-> 0]
  /\ usbMsgLen = USB_NO_MSG
  /\ usbMsgFlags = 0
  /\ usbConfiguration = 0
  /\ wasReset = FALSE
  /\ pc = "rxTest"
  /\ data = 0
  /\ len = 0
  /\ report = NoReport
  /\ req = Junk
  /\ sent = 0
  /\ out0 = NoPacket
  /\ out1 = [tok |-> USBPID_DATA1, data |-> NoReport]
  /\ resync = FALSE

-----------------------------------------------------------------------------
(* The interrupt handler: one action per packet the device hears. *)

InterruptsEnabled == pc # "calibrate"

\* Every packet is received into the current half before it is looked at.
Receive(bytes) == usbRxBuf' = [usbRxBuf EXCEPT ![usbInputBufOffset] = bytes]

\* Mutant: data are taken although the last ones are not processed yet.
BugTakeBusy == IF usbCurrentTok = 0 THEN "none" ELSE "ACK"

\* What the handler answers to a data packet and to an IN token.
DataReply ==
  CASE usbCurrentTok = 0 -> "none"
    [] usbCurrentTok # 0 /\ usbRxLen # 0 -> "NAK"
    [] OTHER -> "ACK"
DataStored(n) == DataReply = "ACK" /\ n >= 4

InAnswered(addr) == addr = usbDeviceAddr
InReply0 == IF usbRxLen >= 1 \/ IsHandshake(usbTxLen) THEN "NAK" ELSE "DATA"
InReply1 == IF usbRxLen >= 1 \/ IsHandshake(usbTxLen1) THEN "NAK" ELSE "DATA"

\* se0, handleSetupOrOut, storeTokenAndReturn
SetupOrOutToken(tok, addr) ==
  /\ InterruptsEnabled
  /\ Receive(Junk)
  /\ usbCurrentTok' = IF addr = usbDeviceAddr THEN tok ELSE 0
  /\ UNCHANGED <<usbInputBufOffset, usbRxLen, usbRxToken, tx0Vars, tx1Vars,
                 msgVars, addrVars, usbConfiguration, wasReset, localVars,
                 hist0, hist1>>

\* overflow, ignorePacket: a handshake, a packet too long, another PID
IgnoredPacket ==
  /\ InterruptsEnabled
  /\ Receive(Junk)
  /\ usbCurrentTok' = 0
  /\ UNCHANGED <<usbInputBufOffset, usbRxLen, usbRxToken, tx0Vars, tx1Vars,
                 msgVars, addrVars, usbConfiguration, wasReset, localVars,
                 hist0, hist1>>

\* handleData: bytes is what the packet carries, n its length with PID and CRC
DataPacket(bytes, n) ==
  /\ InterruptsEnabled
  /\ Receive(bytes)
  /\ IF DataStored(n)
     THEN /\ usbRxLen' = n
          /\ usbRxToken' = usbCurrentTok
          /\ usbInputBufOffset' = 1 - usbInputBufOffset
     ELSE UNCHANGED <<usbRxLen, usbRxToken, usbInputBufOffset>>
  /\ IF DataStored(n) /\ usbCurrentTok = USBPID_SETUP /\ n = SetupSize + RxOverhead
     THEN req' = bytes /\ sent' = 0 /\ out0' = NoPacket
     ELSE UNCHANGED hist0
  /\ UNCHANGED <<usbCurrentTok, tx0Vars, tx1Vars, msgVars, addrVars,
                 usbConfiguration, wasReset, localVars, hist1>>

\* After a data packet, on either endpoint, the new address is the address; it is
\* kept shifted left by one in its byte, which drops bit 7.
usbSendAndReti == usbDeviceAddr' = usbNewDeviceAddr % 128

\* handleIn on endpoint 0
InToken0(addr) ==
  /\ InterruptsEnabled
  /\ Receive(Junk)
  /\ IF InAnswered(addr) THEN UNCHANGED usbCurrentTok ELSE usbCurrentTok' = 0
  /\ IF InAnswered(addr) /\ InReply0 = "DATA"
     THEN /\ usbTxLen' = USBPID_NAK
          /\ usbSendAndReti
          /\ out0' = [tok |-> usbTxBuf.tok, seg |-> usbTxBuf.seg]
          /\ sent' = sent + 1
     ELSE UNCHANGED <<usbTxLen, usbDeviceAddr, out0, sent>>
  /\ UNCHANGED <<usbInputBufOffset, usbRxLen, usbRxToken, usbTxBuf, tx1Vars,
                 msgVars, usbNewDeviceAddr, usbConfiguration, wasReset,
                 localVars, req, hist1>>

\* handleIn1: every endpoint but 0
InToken1(addr) ==
  /\ InterruptsEnabled
  /\ Receive(Junk)
  /\ IF InAnswered(addr) THEN UNCHANGED usbCurrentTok ELSE usbCurrentTok' = 0
  /\ IF InAnswered(addr) /\ InReply1 = "DATA"
     THEN /\ usbTxLen1' = USBPID_NAK
          /\ usbSendAndReti
          /\ out1' = [tok |-> usbTxBuf1.tok, data |-> usbTxBuf1.data]
          /\ resync' = FALSE
     ELSE UNCHANGED <<usbTxLen1, usbDeviceAddr, hist1>>
  /\ UNCHANGED <<usbInputBufOffset, usbRxLen, usbRxToken, tx0Vars, usbTxBuf1,
                 msgVars, usbNewDeviceAddr, usbConfiguration, wasReset,
                 localVars, hist0>>

\* The bytes of a data packet matter where they are taken for a request.
DataBytes(n) ==
  IF usbCurrentTok = USBPID_SETUP /\ n = SetupSize + RxOverhead
  THEN Requests ELSE {Junk}

Interrupt ==
  \/ \E tok \in {USBPID_SETUP, USBPID_OUT}, addr \in Addresses \cup {0} :
       SetupOrOutToken(tok, addr)
  \/ IgnoredPacket
  \/ \E n \in PacketLens : \E bytes \in DataBytes(n) : DataPacket(bytes, n)
  \/ \E addr \in Addresses \cup {0} : InToken0(addr) \/ InToken1(addr)

-----------------------------------------------------------------------------
(* The main loop: usbPoll, then the application's call of usbSetInterrupt. *)

At(label) == pc = label
Goto(label) == pc' = label

isrOwned == <<rxVars, hist0, hist1>>

\* Mutant: the half being received into is read.
BugWrongHalf ==
  /\ At("rxTest")
  /\ IF usbRxLen - RxOverhead >= 0
     THEN /\ data' = usbInputBufOffset
          /\ len' = usbRxLen - RxOverhead
          /\ Goto("rxProc")
     ELSE Goto("txTest") /\ UNCHANGED <<data, len>>
  /\ UNCHANGED <<isrOwned, tx0Vars, tx1Vars, msgVars, addrVars,
                 usbConfiguration, wasReset, report>>

\* usbPoll: len = usbRxLen - 3; the half not being received into is read
RxTest ==
  /\ At("rxTest")
  /\ IF usbRxLen - RxOverhead >= 0
     THEN /\ data' = 1 - usbInputBufOffset
          /\ len' = usbRxLen - RxOverhead
          /\ Goto("rxProc")
     ELSE Goto("txTest") /\ UNCHANGED <<data, len>>
  /\ UNCHANGED <<isrOwned, tx0Vars, tx1Vars, msgVars, addrVars,
                 usbConfiguration, wasReset, report>>

\* Mutant: a packet that is ignored leaves the receive buffer taken.
BugIgnoreKeepsBuffer ==
  /\ At("rxProc")
  /\ IF usbRxToken = USBPID_SETUP /\ len = SetupSize
     THEN usbTxBuf' = [usbTxBuf EXCEPT !.tok = USBPID_DATA0] /\ Goto("rxAbort")
     ELSE UNCHANGED usbTxBuf /\ Goto("txTest")
  /\ UNCHANGED <<isrOwned, usbTxLen, tx1Vars, msgVars, addrVars,
                 usbConfiguration, wasReset, data, len, report>>

\* usbProcessRx: only a SETUP of 8 bytes is looked at
RxProc ==
  /\ At("rxProc")
  /\ IF usbRxToken = USBPID_SETUP /\ len = SetupSize
     THEN usbTxBuf' = [usbTxBuf EXCEPT !.tok = USBPID_DATA0] /\ Goto("rxAbort")
     ELSE UNCHANGED usbTxBuf /\ Goto("rxFree")
  /\ UNCHANGED <<isrOwned, usbTxLen, tx1Vars, msgVars, addrVars,
                 usbConfiguration, wasReset, data, len, report>>

\* Mutant: the transmit that is pending is not aborted.
BugNoAbort ==
  /\ At("rxAbort")
  /\ usbMsgFlags' = 0
  /\ Goto("rxSetup")
  /\ UNCHANGED <<isrOwned, tx0Vars, tx1Vars, usbMsgPtr, usbMsgLen, addrVars,
                 usbConfiguration, wasReset, data, len, report>>

\* usbProcessRx: abort the pending transmit, usbMsgFlags = 0
RxAbort ==
  /\ At("rxAbort")
  /\ usbTxLen' = USBPID_NAK
  /\ usbMsgFlags' = 0
  /\ Goto("rxSetup")
  /\ UNCHANGED <<isrOwned, usbTxBuf, tx1Vars, usbMsgPtr, usbMsgLen, addrVars,
                 usbConfiguration, wasReset, data, len, report>>

\* usbDriverDescriptor and usbDriverSetup set the pointer; an unavailable
\* descriptor and a request of the application leave it alone.
PointerSet(r) ==
  \/ r.bRequest = "GET_DESCRIPTOR" /\ DescriptorLength[r.desc] > 0
  \/ r.bRequest \notin {"GET_DESCRIPTOR", "NON_STANDARD"}

\* usbDriverSetup clears usbTxBuf[9], which is the first CRC byte of a packet of
\* 8 bytes and the second of one of 7.
ClearReplyByte(r) ==
  IF r.bRequest # "NON_STANDARD" /\ usbTxBuf.seg.len >= PacketSize - 1
  THEN usbTxBuf' = [usbTxBuf EXCEPT !.whole = FALSE]
  ELSE UNCHANGED usbTxBuf

\* usbProcessRx: usbFunctionSetup or usbDriverSetup, whose result is replyLen
RxSetup ==
  /\ At("rxSetup")
  /\ LET r == usbRxBuf[data] IN
     /\ ClearReplyByte(r)
     /\ len' = ReplyLength(r)
     /\ usbMsgPtr' = IF PointerSet(r) THEN [obj |-> ReplyObject(r), off |-> 0]
                     ELSE usbMsgPtr
     /\ usbMsgFlags' = IF r.bRequest = "GET_DESCRIPTOR"
                       THEN USB_FLG_MSGPTR_IS_ROM ELSE usbMsgFlags
     /\ usbNewDeviceAddr' = IF r.bRequest = "SET_ADDRESS" THEN r.value
                            ELSE usbNewDeviceAddr
     /\ usbConfiguration' = IF r.bRequest = "SET_CONFIGURATION" THEN r.value
                            ELSE usbConfiguration
     /\ IF r.bRequest = "SET_INTERFACE"
        THEN /\ usbTxBuf1' = [usbTxBuf1 EXCEPT !.tok = USBPID_DATA1]
             /\ resync' = TRUE
        ELSE UNCHANGED <<usbTxBuf1, resync>>
  /\ Goto("rxLimit")
  /\ UNCHANGED <<rxVars, usbTxLen, usbTxLen1, usbMsgLen, usbDeviceAddr,
                 wasReset, data, report, hist0, out1>>

\* usbProcessRx: limit the reply, usbMsgLen = replyLen
RxLimit ==
  /\ At("rxLimit")
  /\ usbMsgLen' = Limit(len, usbRxBuf[data].wLength)
  /\ Goto("rxFree")
  /\ UNCHANGED <<isrOwned, tx0Vars, tx1Vars, usbMsgPtr, usbMsgFlags, addrVars,
                 usbConfiguration, wasReset, data, len, report>>

\* usbPoll: usbRxLen = 0 marks the receive buffer as available
RxFree ==
  /\ At("rxFree")
  /\ usbRxLen' = 0
  /\ Goto("txTest")
  /\ UNCHANGED <<usbRxBuf, usbInputBufOffset, usbCurrentTok, usbRxToken, hist0,
                 hist1, tx0Vars, tx1Vars, msgVars, addrVars, usbConfiguration,
                 wasReset, data, len, report>>

\* Mutant: no packet is built for a reply of no bytes.
BugNoEmptyPacket ==
  /\ At("txTest")
  /\ IF IsHandshake(usbTxLen) /\ usbMsgLen \notin {0, USB_NO_MSG}
     THEN Goto("txToggle") ELSE Goto("line")
  /\ UNCHANGED <<isrOwned, tx0Vars, tx1Vars, msgVars, addrVars,
                 usbConfiguration, wasReset, data, len, report>>

\* usbPoll: transmit system idle, and data pending?
TxTest ==
  /\ At("txTest")
  /\ IF IsHandshake(usbTxLen) /\ usbMsgLen # USB_NO_MSG
     THEN Goto("txToggle") ELSE Goto("line")
  /\ UNCHANGED <<isrOwned, tx0Vars, tx1Vars, msgVars, addrVars,
                 usbConfiguration, wasReset, data, len, report>>

\* Mutants: the packet is not limited to 8 bytes; the token is not toggled.
BugNoPacketLimit ==
  /\ At("txToggle")
  /\ len' = usbMsgLen
  /\ usbMsgLen' = 0
  /\ usbTxBuf' = [usbTxBuf EXCEPT !.tok = OtherToken(@), !.whole = FALSE]
  /\ Goto("txCopy")
  /\ UNCHANGED <<isrOwned, usbTxLen, tx1Vars, usbMsgPtr, usbMsgFlags, addrVars,
                 usbConfiguration, wasReset, data, report>>

BugNoToggle0 ==
  /\ At("txToggle")
  /\ len' = Min2(usbMsgLen, PacketSize)
  /\ usbMsgLen' = usbMsgLen - len'
  /\ usbTxBuf' = [usbTxBuf EXCEPT !.whole = FALSE]
  /\ Goto("txCopy")
  /\ UNCHANGED <<isrOwned, usbTxLen, tx1Vars, usbMsgPtr, usbMsgFlags, addrVars,
                 usbConfiguration, wasReset, data, report>>

\* usbBuildTxBlock: take at most 8 bytes, toggle the token
TxToggle ==
  /\ At("txToggle")
  /\ len' = Min2(usbMsgLen, PacketSize)
  /\ usbMsgLen' = usbMsgLen - len'
  /\ usbTxBuf' = [usbTxBuf EXCEPT !.tok = OtherToken(@), !.whole = FALSE]
  /\ Goto("txCopy")
  /\ UNCHANGED <<isrOwned, usbTxLen, tx1Vars, usbMsgPtr, usbMsgFlags, addrVars,
                 usbConfiguration, wasReset, data, report>>

\* usbDeviceRead: a pointer read with the wrong flag yields other bytes.
ReadSegment(n) ==
  IF n = 0 THEN Empty
  ELSE [obj |-> IF (usbMsgPtr.obj \in Descriptors)
                   <=> (usbMsgFlags = USB_FLG_MSGPTR_IS_ROM)
                THEN usbMsgPtr.obj ELSE "garbage",
        off |-> usbMsgPtr.off, len |-> n]

\* Mutant: the pointer stays where it is.
BugPointerStays ==
  /\ At("txCopy")
  /\ usbTxBuf' = [usbTxBuf EXCEPT !.seg = ReadSegment(len)]
  /\ Goto("txCrc")
  /\ UNCHANGED <<isrOwned, usbTxLen, tx1Vars, msgVars, addrVars,
                 usbConfiguration, wasReset, data, len, report>>

\* usbBuildTxBlock: usbDeviceRead copies the bytes and moves the pointer on
TxCopy ==
  /\ At("txCopy")
  /\ usbTxBuf' = [usbTxBuf EXCEPT !.seg = ReadSegment(len)]
  /\ usbMsgPtr' = [usbMsgPtr EXCEPT !.off = @ + len]
  /\ Goto("txCrc")
  /\ UNCHANGED <<isrOwned, usbTxLen, tx1Vars, usbMsgLen, usbMsgFlags, addrVars,
                 usbConfiguration, wasReset, data, len, report>>

\* The CRC that goes with the data: the packet is whole.
usbCrc16Append(buffer) == [buffer EXCEPT !.whole = TRUE]

\* usbBuildTxBlock: append the CRC; a partial packet ends the message
TxCrc ==
  /\ At("txCrc")
  /\ usbTxBuf' = usbCrc16Append(usbTxBuf)
  /\ usbMsgLen' = IF len < PacketSize THEN USB_NO_MSG ELSE usbMsgLen
  /\ Goto("txLen")
  /\ UNCHANGED <<isrOwned, usbTxLen, tx1Vars, usbMsgPtr, usbMsgFlags, addrVars,
                 usbConfiguration, wasReset, data, len, report>>

\* usbBuildTxBlock: usbTxLen hands the packet to the handler
TxLen ==
  /\ At("txLen")
  /\ usbTxLen' = len + TxOverhead
  /\ Goto("line")
  /\ UNCHANGED <<isrOwned, usbTxBuf, tx1Vars, msgVars, addrVars,
                 usbConfiguration, wasReset, data, len, report>>

notLine == <<isrOwned, tx0Vars, tx1Vars, msgVars, usbConfiguration, data, len>>

\* Mutant: the address waiting for the next data packet survives a reset.
BugResetKeepsNewAddr ==
  /\ At("line")
  /\ Goto("clearAddr")
  /\ UNCHANGED <<notLine, addrVars, wasReset, report>>

\* usbPoll: SE0 in all 20 samples is a reset of the bus
LineReset ==
  /\ At("line")
  /\ usbNewDeviceAddr' = 0
  /\ Goto("clearAddr")
  /\ UNCHANGED <<notLine, usbDeviceAddr, wasReset, report>>

\* usbPoll, then usbHandleResetHook: the hook does nothing as a reset starts
ClearAddr ==
  /\ At("clearAddr")
  /\ usbDeviceAddr' = 0
  /\ wasReset' = TRUE
  /\ Goto("main")
  /\ UNCHANGED <<notLine, usbNewDeviceAddr, report>>

\* usbPoll, isNotReset: the first poll after a reset calibrates the clock
LineIdle ==
  /\ At("line")
  /\ IF wasReset THEN Goto("calibrate") ELSE Goto("main")
  /\ UNCHANGED <<notLine, addrVars, wasReset, report>>

\* USB_RESET_HOOK: cli, calibrateOscillator, sei
Calibrate ==
  /\ At("calibrate")
  /\ wasReset' = FALSE
  /\ Goto("main")
  /\ UNCHANGED <<notLine, addrVars, report>>

\* Mutant: the report is handed over without asking.
BugNotAsked(r) ==
  /\ At("main")
  /\ report' = r
  /\ Goto("intrTest")
  /\ UNCHANGED <<notLine, addrVars, wasReset>>

\* main: hand over a report if usbInterruptIsReady says so
SetInterrupt(r) ==
  /\ At("main")
  /\ ReadyChecked => IsHandshake(usbTxLen1)
  /\ report' = r
  /\ Goto("intrTest")
  /\ UNCHANGED <<notLine, addrVars, wasReset>>

\* main: no report this time round
SkipInterrupt ==
  /\ At("main")
  /\ ReadyChecked => ~IsHandshake(usbTxLen1)
  /\ Goto("rxTest")
  /\ UNCHANGED <<notLine, addrVars, wasReset, report>>

\* what the steps of usbGenericSetInterrupt leave alone
notIntr == <<isrOwned, tx0Vars, msgVars, addrVars, usbConfiguration, wasReset,
             data, len, report>>

\* usbGenericSetInterrupt: was the packet buffer empty?
IntrTest ==
  /\ At("intrTest")
  /\ IF IsHandshake(usbTxLen1) THEN Goto("intrToggle") ELSE Goto("intrRevoke")
  /\ UNCHANGED <<notIntr, tx1Vars>>

\* Mutant: the token is not toggled.
BugNoToggle1 ==
  /\ At("intrToggle")
  /\ usbTxBuf1' = [usbTxBuf1 EXCEPT !.whole = FALSE]
  /\ Goto("intrCopy")
  /\ UNCHANGED <<notIntr, usbTxLen1>>

IntrToggle ==
  /\ At("intrToggle")
  /\ usbTxBuf1' = [usbTxBuf1 EXCEPT !.tok = OtherToken(@), !.whole = FALSE]
  /\ Goto("intrCopy")
  /\ UNCHANGED <<notIntr, usbTxLen1>>

\* Mutant: the packet is overwritten while the host may fetch it.
BugNoRevoke ==
  /\ At("intrRevoke")
  /\ Goto("intrCopy")
  /\ UNCHANGED <<notIntr, tx1Vars>>

\* usbGenericSetInterrupt: avoid sending outdated (overwritten) data
IntrRevoke ==
  /\ At("intrRevoke")
  /\ usbTxLen1' = USBPID_NAK
  /\ Goto("intrCopy")
  /\ UNCHANGED <<notIntr, usbTxBuf1>>

IntrCopy ==
  /\ At("intrCopy")
  /\ usbTxBuf1' = [usbTxBuf1 EXCEPT !.data = report, !.whole = FALSE]
  /\ Goto("intrCrc")
  /\ UNCHANGED <<notIntr, usbTxLen1>>

IntrCrc ==
  /\ At("intrCrc")
  /\ usbTxBuf1' = usbCrc16Append(usbTxBuf1)
  /\ Goto("intrLen")
  /\ UNCHANGED <<notIntr, usbTxLen1>>

IntrLen ==
  /\ At("intrLen")
  /\ usbTxLen1' = ReportSize + TxOverhead
  /\ Goto("rxTest")
  /\ UNCHANGED <<notIntr, usbTxBuf1>>

usbProcessRx == RxProc \/ RxAbort \/ RxSetup \/ RxLimit
usbBuildTxBlock == TxToggle \/ TxCopy \/ TxCrc \/ TxLen
usbPoll ==
  \/ RxTest \/ usbProcessRx \/ RxFree \/ TxTest \/ usbBuildTxBlock
  \/ LineReset \/ ClearAddr \/ LineIdle \/ Calibrate
usbSetInterrupt ==
  IntrTest \/ IntrToggle \/ IntrRevoke \/ IntrCopy \/ IntrCrc \/ IntrLen
MainLoop ==
  \/ usbPoll
  \/ \E r \in Reports : SetInterrupt(r)
  \/ SkipInterrupt
  \/ usbSetInterrupt

Next == MainLoop \/ Interrupt

Spec == Init /\ [][Next]_vars
\* The loop always goes on: the watchdog is served and no step of it waits.
FairSpec == Spec /\ WF_vars(MainLoop)

-----------------------------------------------------------------------------
(* Properties *)

Labels ==
  {"rxTest", "rxProc", "rxAbort", "rxSetup", "rxLimit", "rxFree", "txTest",
   "txToggle", "txCopy", "txCrc", "txLen", "line", "clearAddr", "calibrate",
   "main", "intrTest", "intrToggle", "intrRevoke", "intrCopy", "intrCrc",
   "intrLen"}
SegmentType == [obj : Objects, off : Nat, len : 0 .. PacketSize]
PacketLengths == {USBPID_NAK} \cup TxOverhead .. TxOverhead + PacketSize

\* Every variable has the range its C or assembler type and use give it; the
\* replies of the driver stay below USB_NO_MSG, which usbMsgLen shares with them.
TypeOK ==
  /\ usbRxBuf \in [{0, 1} -> RequestType \cup {Junk}]
  /\ usbInputBufOffset \in {0, 1}
  /\ usbCurrentTok \in {0, USBPID_SETUP, USBPID_OUT}
  /\ usbRxLen \in {0} \cup 4 .. 11
  /\ usbRxToken \in {0, USBPID_SETUP, USBPID_OUT}
  /\ usbTxLen \in PacketLengths
  /\ usbTxBuf \in [tok : {0} \cup Tokens, seg : SegmentType, whole : BOOLEAN]
  /\ usbDeviceAddr \in 0 .. 127
  /\ usbNewDeviceAddr \in Bytes
  /\ usbTxLen1 \in PacketLengths
  /\ usbTxBuf1 \in [tok : Tokens, data : Reports \cup {NoReport}, whole : BOOLEAN]
  /\ usbMsgPtr \in [obj : Objects, off : Nat]
  /\ usbMsgLen \in 0 .. 56 \cup {USB_NO_MSG}
  /\ usbMsgFlags \in {0, USB_FLG_MSGPTR_IS_ROM}
  /\ usbConfiguration \in Bytes
  /\ wasReset \in BOOLEAN
  /\ pc \in Labels
  /\ data \in {0, 1}
  /\ len \in 0 .. 56
  /\ report \in Reports \cup {NoReport}
  /\ req \in RequestType \cup {Junk}
  /\ sent \in Nat
  /\ out0 \in [tok : {0} \cup Tokens, seg : SegmentType]
  /\ out1 \in [tok : Tokens, data : Reports \cup {NoReport}]
  /\ resync \in BOOLEAN

\* The control transfers the host must see: every data packet the device
\* returns is the next one of the reply to the last request it acknowledged.
Control == INSTANCE ControlPipe WITH out <- out0
ControlTransfersRight == Control!Spec

\* An armed endpoint 0 holds a finished packet of the current request: the
\* handler answers an IN at any point of usbPoll and must never send a packet
\* half built, with a stale CRC, of an aborted transfer or with a wrong token.
Armed0 == usbRxLen = 0 /\ ~IsHandshake(usbTxLen)
NoStaleOrTornReply ==
  Armed0 => /\ usbTxBuf.whole
            /\ usbTxLen = usbTxBuf.seg.len + TxOverhead
            /\ Control!HasBlock(req, sent)
            /\ [tok |-> usbTxBuf.tok, seg |-> usbTxBuf.seg] = Control!Block(req, sent)

\* The request usbProcessRx is reading is the one last acknowledged, in the half
\* the handler does not write: no packet that arrives meanwhile can change it.
RequestPending == usbRxLen = SetupSize + RxOverhead /\ usbRxToken = USBPID_SETUP
Processing == pc \in {"rxProc", "rxAbort", "rxSetup", "rxLimit", "rxFree"}
RequestStable ==
  /\ RequestPending => usbRxBuf[1 - usbInputBufOffset] = req
  /\ Processing => usbRxLen > 0 /\ data = 1 - usbInputBufOffset

\* An armed endpoint 1 holds a finished packet with the report handed over last.
NoTornReport ==
  ~IsHandshake(usbTxLen1) =>
    /\ usbTxBuf1.whole
    /\ usbTxBuf1.data = report \/ pc \in {"intrTest", "intrRevoke"}
    /\ usbTxLen1 = ReportSize + TxOverhead

\* Reports leave in the order they are handed over, each once, with alternating
\* data tokens, unless SET_INTERFACE reset the token in between.
Box == IF IsHandshake(usbTxLen1) THEN NoReport ELSE usbTxBuf1.data
ReportMailbox == INSTANCE ReportPipe WITH box <- Box, out <- out1
ReportsRight == ReportMailbox!Spec

\* The poll that saw a reset returns with the device at address 0, whatever
\* packet goes out between the two assignments of usbPoll, and the device stays
\* there until the next SET_ADDRESS.
AfterResetPoll ==
  wasReset /\ pc \in {"main", "intrTest", "intrToggle", "intrRevoke", "intrCopy",
                      "intrCrc", "intrLen"}
ResetForgetsAddress ==
  /\ AfterResetPoll => usbNewDeviceAddr = 0 /\ usbDeviceAddr = 0
  /\ (\A r \in Requests : r.bRequest = "SET_ADDRESS" => r.value # 0) =>
       (usbNewDeviceAddr = 0 => usbDeviceAddr = 0 \/ pc = "clearAddr")

\* What was checked by usbInterruptIsReady still holds when usbSetInterrupt
\* acts on it: a caller that asks first never takes back a packet.
NeverRevokes == ReadyChecked => pc # "intrRevoke"

\* Every received packet is processed, so no later SETUP is refused for ever.
RxBufferFreed == usbRxLen > 0 ~> usbRxLen = 0

\* Every request of 8 bytes is answered: once usbProcessRx has aborted what was
\* pending, the first packet of the reply to this very request is armed, also when
\* it interrupts another transfer and when the next SETUP is acknowledged meanwhile.
FirstPacketArmed(r) ==
  /\ ~IsHandshake(usbTxLen) /\ usbTxBuf.whole
  /\ [tok |-> usbTxBuf.tok, seg |-> usbTxBuf.seg] = Control!Block(r, 0)
RequestAnswered ==
  \A r \in Requests : (pc = "rxSetup" /\ req = r) ~> FirstPacketArmed(r)
=============================================================================
