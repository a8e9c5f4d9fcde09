----------------------------- MODULE UsbProofs -----------------------------
(***************************************************************************)
(* Proofs about the driver.  First against any host, module UsbDrv, for    *)
(* any requests, reports, addresses and packet lengths the assumptions of  *)
(* that module allow: its types, the receive buffer, the device address,   *)
(* endpoint 1, and endpoint 0, which implements ControlPipe.  Then on a    *)
(* bus with a conforming host, module UsbBus, for any script of control    *)
(* transfers, number of losses, aborts and resets, and any reset that two  *)
(* polls of the device fit into.  The last theorem counts the reports that *)
(* the driver falls behind the host: those the handler saw acknowledged    *)
(* and that can have been taken for repeated.                              *)
(***************************************************************************)
EXTENDS UsbBus, FiniteSetTheorems, TLAPS

-----------------------------------------------------------------------------
(* Types *)

\* TypeOK with what the local variable len is at the labels that use it.
LenOK ==
  /\ pc \in {"txCopy", "txCrc", "txLen"} => len \in 0 .. PacketSize
  /\ pc = "txToggle" => usbMsgLen # USB_NO_MSG
TypeInv == TypeOK /\ LenOK

LEMMA EmptyType == Empty \in SegmentType
BY DEF Empty, SegmentType, Objects, PacketSize

LEMMA TypeInit == Init => TypeInv
<1> SUFFICES ASSUME Init PROVE TypeInv
  OBVIOUS
<1> USE DEF Init, NoReport, USBPID_NAK, USBPID_DATA0, USBPID_DATA1, USBPID_SETUP,
            USBPID_OUT, USB_NO_MSG
<1>1. usbTxBuf \in [tok : {0} \cup Tokens, seg : SegmentType, whole : BOOLEAN]
  BY EmptyType
<1>2. out0 \in [tok : {0} \cup Tokens, seg : SegmentType]
  BY EmptyType DEF NoPacket
<1>3. usbTxBuf1 \in [tok : Tokens, data : Reports \cup {NoReport}, whole : BOOLEAN]
      /\ out1 \in [tok : Tokens, data : Reports \cup {NoReport}]
  BY DEF Tokens
<1>4. usbMsgPtr \in [obj : Objects, off : Nat]
  BY DEF Objects
<1>5. wasReset \in BOOLEAN /\ resync \in BOOLEAN
  OBVIOUS
<1> QED
  BY <1>1, <1>2, <1>3, <1>4, <1>5
  DEF TypeInv, TypeOK, LenOK, PacketLengths, Labels, Bytes, USB_FLG_MSGPTR_IS_ROM

\* Any packet to any address, more than Interrupt: also a request the device takes for
\* the data of an OUT, or data it takes for a request, as may happen on a bus.
Heard ==
  \/ \E tok \in {USBPID_SETUP, USBPID_OUT} : \E addr : SetupOrOutToken(tok, addr)
  \/ IgnoredPacket
  \/ \E n \in 1 .. 11, bytes \in Requests \cup {Junk} : DataPacket(bytes, n)
  \/ \E addr : InToken0(addr) \/ InToken1(addr)
Driver == MainLoop \/ Heard

LEMMA InterruptHeard == Interrupt => Heard
<1>1. PacketLens \subseteq 1 .. 11 /\ \A n : DataBytes(n) \subseteq Requests \cup {Junk}
  BY PacketLensAssumption DEF DataBytes
<1> QED
  BY <1>1 DEF Interrupt, Heard

LEMMA TypeInterrupt == TypeInv /\ Heard => TypeInv'
<1> SUFFICES ASSUME TypeInv, Heard PROVE TypeInv'
  OBVIOUS
<1> USE DEF TypeInv, TypeOK, LenOK
<1>1. ASSUME NEW tok \in {USBPID_SETUP, USBPID_OUT}, NEW addr,
             SetupOrOutToken(tok, addr)
      PROVE  TypeInv'
  BY <1>1 DEF SetupOrOutToken, Receive, tx0Vars, tx1Vars, msgVars, addrVars, localVars, hist0, hist1
<1>2. CASE IgnoredPacket
  BY <1>2 DEF IgnoredPacket, Receive, tx0Vars, tx1Vars, msgVars, addrVars, localVars, hist0, hist1
<1>3. ASSUME NEW n \in 1 .. 11, NEW bytes \in Requests \cup {Junk}, DataPacket(bytes, n)
      PROVE  TypeInv'
  <2>1. bytes \in RequestType \cup {Junk}
    BY RequestsAssumption DEF DataBytes
  <2>2. n \in 1 .. 11
    BY PacketLensAssumption
  <2> QED
    BY <1>3, <2>1, <2>2
    DEF DataPacket, DataStored, Receive, tx0Vars, tx1Vars, msgVars, addrVars, localVars, hist0, hist1,
        NoPacket, Empty, SegmentType, Objects, PacketSize
<1>4. ASSUME NEW addr, InToken0(addr)
      PROVE  TypeInv'
  BY <1>4 DEF InToken0, usbSendAndReti, Receive, tx0Vars, tx1Vars, msgVars, addrVars, localVars, hist0, hist1, PacketLengths, Bytes
<1>5. ASSUME NEW addr, InToken1(addr)
      PROVE  TypeInv'
  <2>1. resync' \in BOOLEAN
    BY <1>5 DEF InToken1, hist1
  <2> QED
    BY <1>5, <2>1 DEF InToken1, usbSendAndReti, Receive, tx0Vars, tx1Vars, msgVars, addrVars, localVars, hist0, hist1, PacketLengths, Bytes
<1> QED
  BY <1>1, <1>2, <1>3, <1>4, <1>5 DEF Heard


\* What the driver answers has at most 56 bytes, the product string.
LEMMA ReplyType ==
  ASSUME NEW r \in RequestType \cup {Junk}
  PROVE  /\ ReplyLength(r) \in 0 .. 56
         /\ ReplyObject(r) \in Objects
         /\ r.value \in Bytes
         /\ r.wLength \in Words
<1>1. r.desc \in Descriptors /\ r.value \in Bytes /\ r.wLength \in Words
  <2>1. CASE r \in RequestType
    BY <2>1 DEF RequestType
  <2>2. CASE r = Junk
    <3>1. "unknown" \in Descriptors
      BY DEF Descriptors, DescriptorLength
    <3> QED
      BY <2>2, <3>1 DEF Junk, Bytes, Words
  <2> QED
    BY <2>1, <2>2
<1>2. DescriptorLength[r.desc] \in 0 .. 56
  BY <1>1 DEF Descriptors, DescriptorLength
<1> QED
  BY <1>1, <1>2 DEF ReplyLength, ReplyObject, Objects

LEMMA LimitType ==
  ASSUME NEW n \in 0 .. 56, NEW w \in Words
  PROVE  Limit(n, w) \in 0 .. 56
<1>1. w \in Nat /\ (n > w => w \in 0 .. 56)
  BY DEF Words
<1> QED
  BY <1>1 DEF Limit

LEMMA TypeMainLoop == TypeInv /\ MainLoop => TypeInv'
<1> SUFFICES ASSUME TypeInv, MainLoop PROVE TypeInv'
  OBVIOUS
<1> USE DEF TypeInv, TypeOK, LenOK, Goto, isrOwned, notLine, notIntr, rxVars,
            tx0Vars, tx1Vars, msgVars, addrVars, hist0, hist1, Labels
<1>1. CASE RxTest
  BY <1>1 DEF RxTest, RxOverhead
<1>2. CASE RxProc
  BY <1>2 DEF RxProc, Tokens
<1>3. CASE RxAbort
  BY <1>3 DEF RxAbort, PacketLengths
<1>4. CASE RxSetup
  <2> DEFINE r == usbRxBuf[data]
  <2>1. r \in RequestType \cup {Junk}
    OBVIOUS
  <2>2. len' \in 0 .. 56 /\ usbNewDeviceAddr' \in Bytes /\ usbConfiguration' \in Bytes
    BY <1>4, <2>1, ReplyType DEF RxSetup
  <2>3. usbMsgPtr' \in [obj : Objects, off : Nat]
    BY <1>4, <2>1, ReplyType DEF RxSetup
  <2>4. usbMsgFlags' \in {0, USB_FLG_MSGPTR_IS_ROM}
    BY <1>4 DEF RxSetup
  <2>5. resync' \in BOOLEAN
    BY <1>4 DEF RxSetup
  <2>6. usbTxBuf' \in [tok : {0} \cup Tokens, seg : SegmentType, whole : BOOLEAN]
    BY <1>4 DEF RxSetup, ClearReplyByte
  <2>7. usbTxBuf1' \in [tok : Tokens, data : Reports \cup {NoReport}, whole : BOOLEAN]
    BY <1>4 DEF RxSetup, Tokens
  <2> QED
    BY <1>4, <2>2, <2>3, <2>4, <2>5, <2>6, <2>7 DEF RxSetup
<1>5. CASE RxLimit
  <2>1. usbMsgLen' \in 0 .. 56
    BY <1>5, ReplyType, LimitType DEF RxLimit
  <2> QED
    BY <1>5, <2>1 DEF RxLimit
<1>6. CASE RxFree
  BY <1>6 DEF RxFree
<1>7. CASE TxTest
  BY <1>7 DEF TxTest
<1>8. CASE TxToggle
  <2>1. len' \in 0 .. PacketSize /\ usbMsgLen' \in 0 .. 56
    BY <1>8 DEF TxToggle, At, Min2, PacketSize, USB_NO_MSG
  <2>2. usbTxBuf' \in [tok : {0} \cup Tokens, seg : SegmentType, whole : BOOLEAN]
    BY <1>8 DEF TxToggle, Tokens, OtherToken
  <2> QED
    BY <1>8, <2>1, <2>2 DEF TxToggle, PacketSize
<1>9. CASE TxCopy
  <2>1. ReadSegment(len) \in SegmentType
    BY <1>9, EmptyType DEF TxCopy, At, ReadSegment, SegmentType, Objects
  <2>2. usbTxBuf' \in [tok : {0} \cup Tokens, seg : SegmentType, whole : BOOLEAN]
    BY <1>9, <2>1 DEF TxCopy
  <2>3. usbMsgPtr' \in [obj : Objects, off : Nat]
    BY <1>9 DEF TxCopy
  <2> QED
    BY <1>9, <2>2, <2>3 DEF TxCopy, At
<1>10. CASE TxCrc
  <2>1. usbTxBuf' \in [tok : {0} \cup Tokens, seg : SegmentType, whole : BOOLEAN]
    BY <1>10 DEF TxCrc, usbCrc16Append
  <2>2. usbMsgLen' \in 0 .. 56 \cup {USB_NO_MSG}
    BY <1>10 DEF TxCrc
  <2> QED
    BY <1>10, <2>1, <2>2 DEF TxCrc, At
<1>11. CASE TxLen
  BY <1>11 DEF TxLen, At, PacketLengths, PacketSize, TxOverhead
<1>12. CASE LineReset
  BY <1>12 DEF LineReset, Bytes
<1>13. CASE ClearAddr
  <2>1. wasReset' \in BOOLEAN
    BY <1>13 DEF ClearAddr
  <2> QED
    BY <1>13, <2>1 DEF ClearAddr
<1>14. CASE LineIdle
  BY <1>14 DEF LineIdle
<1>15. CASE Calibrate
  <2>1. wasReset' \in BOOLEAN
    BY <1>15 DEF Calibrate
  <2> QED
    BY <1>15, <2>1 DEF Calibrate
<1>16. ASSUME NEW r \in Reports, SetInterrupt(r) PROVE TypeInv'
  BY <1>16 DEF SetInterrupt
<1>17. CASE SkipInterrupt
  BY <1>17 DEF SkipInterrupt
<1>18. CASE IntrTest
  BY <1>18 DEF IntrTest
<1>19. CASE IntrToggle
  <2>1. usbTxBuf1' \in [tok : Tokens, data : Reports \cup {NoReport}, whole : BOOLEAN]
    BY <1>19 DEF IntrToggle, Tokens, OtherToken
  <2> QED
    BY <1>19, <2>1 DEF IntrToggle
<1>20. CASE IntrRevoke
  BY <1>20 DEF IntrRevoke, PacketLengths
<1>21. CASE IntrCopy
  <2>1. usbTxBuf1' \in [tok : Tokens, data : Reports \cup {NoReport}, whole : BOOLEAN]
    BY <1>21 DEF IntrCopy
  <2> QED
    BY <1>21, <2>1 DEF IntrCopy
<1>22. CASE IntrCrc
  <2>1. usbTxBuf1' \in [tok : Tokens, data : Reports \cup {NoReport}, whole : BOOLEAN]
    BY <1>22 DEF IntrCrc, usbCrc16Append
  <2> QED
    BY <1>22, <2>1 DEF IntrCrc
<1>23. CASE IntrLen
  <2>1. usbTxLen1' \in PacketLengths
    BY <1>23 DEF IntrLen, PacketLengths, ReportSize, TxOverhead, PacketSize
  <2> QED
    BY <1>23, <2>1 DEF IntrLen
<1> QED
  BY <1>1, <1>2, <1>3, <1>4, <1>5, <1>6, <1>7, <1>8, <1>9, <1>10, <1>11, <1>12,
     <1>13, <1>14, <1>15, <1>16, <1>17, <1>18, <1>19, <1>20, <1>21, <1>22, <1>23
  DEF MainLoop, usbPoll, usbProcessRx, usbBuildTxBlock, usbSetInterrupt

LEMMA TypeStutter == TypeInv /\ UNCHANGED vars => TypeInv'
BY DEF TypeInv, TypeOK, LenOK, vars, rxVars, tx0Vars, tx1Vars, msgVars, addrVars,
       localVars, hist0, hist1

LEMMA TypeStep == TypeInv /\ [Driver]_vars => TypeInv'
BY TypeInterrupt, TypeMainLoop, TypeStutter DEF Driver

LEMMA NextIsDriver == [Next]_vars => [Driver]_vars
BY InterruptHeard DEF Next, Driver

\* Every variable has its type in every reachable state.
THEOREM TypeCorrect == Spec => []TypeOK
<1>1. Init => TypeInv
  BY TypeInit
<1>2. TypeInv /\ [Next]_vars => TypeInv'
  BY TypeStep, NextIsDriver
<1>3. TypeInv => TypeOK
  BY DEF TypeInv
<1> QED
  BY <1>1, <1>2, <1>3, PTL DEF Spec

-----------------------------------------------------------------------------
(* The handshakes *)

\* usbTxLen and usbTxLen1 hold a length or USBPID_NAK, and bit 4 tells which.
LEMMA HandshakeIsNak ==
  ASSUME NEW n \in PacketLengths
  PROVE  IsHandshake(n) <=> n = USBPID_NAK
BY DEF PacketLengths, IsHandshake, USBPID_NAK, TxOverhead, PacketSize

-----------------------------------------------------------------------------
(* The request being processed *)

LEMMA StableInterrupt == TypeInv /\ RequestStable /\ Heard => RequestStable'
<1> SUFFICES ASSUME TypeInv, RequestStable, Heard PROVE RequestStable'
  OBVIOUS
<1> USE DEF TypeInv, TypeOK, RequestStable, RequestPending, Processing, localVars
<1>1. ASSUME NEW tok \in {USBPID_SETUP, USBPID_OUT}, NEW addr,
             SetupOrOutToken(tok, addr)
      PROVE  RequestStable'
  BY <1>1 DEF SetupOrOutToken, Receive, hist0
<1>2. CASE IgnoredPacket
  BY <1>2 DEF IgnoredPacket, Receive, hist0
<1>3. ASSUME NEW n \in 1 .. 11, NEW bytes \in Requests \cup {Junk}, DataPacket(bytes, n)
      PROVE  RequestStable'
  <2>2. CASE DataStored(n)
    BY <1>3, <2>2 DEF DataPacket, DataStored, DataReply, Receive
  <2>3. CASE ~DataStored(n)
    BY <1>3, <2>3 DEF DataPacket, Receive, hist0
  <2> QED
    BY <2>2, <2>3
<1>4. ASSUME NEW addr, InToken0(addr) PROVE RequestStable'
  BY <1>4 DEF InToken0, Receive
<1>5. ASSUME NEW addr, InToken1(addr) PROVE RequestStable'
  BY <1>5 DEF InToken1, Receive, hist0
<1> QED
  BY <1>1, <1>2, <1>3, <1>4, <1>5 DEF Heard

LEMMA StableMainLoop == TypeInv /\ RequestStable /\ MainLoop => RequestStable'
<1> SUFFICES ASSUME TypeInv, RequestStable, MainLoop PROVE RequestStable'
  OBVIOUS
<1> USE DEF TypeInv, TypeOK, RequestStable, RequestPending, Processing, At, Goto,
            isrOwned, rxVars, hist0, notLine, notIntr
<1>1. CASE RxTest
  BY <1>1 DEF RxTest, RxOverhead
<1>2. CASE usbProcessRx
  BY <1>2 DEF usbProcessRx, RxProc, RxAbort, RxSetup, RxLimit
<1>3. CASE RxFree
  BY <1>3 DEF RxFree, SetupSize, RxOverhead
<1>4. CASE TxTest \/ usbBuildTxBlock
  BY <1>4 DEF TxTest, usbBuildTxBlock, TxToggle, TxCopy, TxCrc, TxLen
<1>5. CASE LineReset \/ ClearAddr \/ LineIdle \/ Calibrate
  BY <1>5 DEF LineReset, ClearAddr, LineIdle, Calibrate
<1>6. CASE SkipInterrupt \/ \E r \in Reports : SetInterrupt(r)
  BY <1>6 DEF SkipInterrupt, SetInterrupt
<1>7. CASE usbSetInterrupt
  BY <1>7 DEF usbSetInterrupt, IntrTest, IntrToggle, IntrRevoke, IntrCopy, IntrCrc, IntrLen
<1> QED
  BY <1>1, <1>2, <1>3, <1>4, <1>5, <1>6, <1>7 DEF MainLoop, usbPoll

LEMMA StableStep == TypeInv /\ RequestStable /\ [Driver]_vars => RequestStable'
<1>1. TypeInv /\ RequestStable /\ UNCHANGED vars => RequestStable'
  BY DEF RequestStable, RequestPending, Processing, vars, rxVars, localVars, hist0
<1> QED
  BY <1>1, StableInterrupt, StableMainLoop DEF Driver

\* While usbPoll works on a request, no packet the handler takes meanwhile
\* changes the bytes it reads.
THEOREM RequestNeverOverwritten == Spec => []RequestStable
<1>1. Init => TypeInv /\ RequestStable
  BY TypeInit DEF Init, RequestStable, RequestPending, Processing, SetupSize, RxOverhead
<1>2. TypeInv /\ RequestStable /\ [Next]_vars => TypeInv' /\ RequestStable'
  BY TypeStep, StableStep, NextIsDriver
<1> QED
  BY <1>1, <1>2, PTL DEF Spec
-----------------------------------------------------------------------------
(* What the handler leaves alone *)

\* It touches neither the main loop's variables nor a packet buffer, sets the
\* address only from usbNewDeviceAddr, and endpoint 1 only by sending its packet.
LEMMA HandlerEffect ==
  ASSUME Heard
  PROVE  /\ UNCHANGED <<msgVars, usbNewDeviceAddr, usbConfiguration, wasReset,
                        localVars, usbTxBuf, usbTxBuf1>>
         /\ usbDeviceAddr' \in {usbDeviceAddr, usbNewDeviceAddr % 128}
         /\ \/ UNCHANGED <<usbTxLen1, out1, resync>>
            \/ /\ ~IsHandshake(usbTxLen1)
               /\ usbTxLen1' = USBPID_NAK
               /\ out1' = [tok |-> usbTxBuf1.tok, data |-> usbTxBuf1.data]
               /\ resync' = FALSE
<1> USE DEF tx0Vars, tx1Vars, addrVars, hist1
<1>1. ASSUME NEW tok \in {USBPID_SETUP, USBPID_OUT}, NEW addr,
             SetupOrOutToken(tok, addr)
      PROVE  UNCHANGED <<tx0Vars, tx1Vars, msgVars, addrVars, usbConfiguration,
                         wasReset, localVars, hist1>>
  BY <1>1 DEF SetupOrOutToken
<1>2. ASSUME IgnoredPacket
      PROVE  UNCHANGED <<tx0Vars, tx1Vars, msgVars, addrVars, usbConfiguration,
                         wasReset, localVars, hist1>>
  BY <1>2 DEF IgnoredPacket
<1>3. ASSUME NEW n \in 1 .. 11, NEW bytes \in Requests \cup {Junk}, DataPacket(bytes, n)
      PROVE  UNCHANGED <<tx0Vars, tx1Vars, msgVars, addrVars, usbConfiguration,
                         wasReset, localVars, hist1>>
  BY <1>3 DEF DataPacket
<1>4. ASSUME NEW addr, InToken0(addr)
      PROVE  /\ UNCHANGED <<msgVars, usbNewDeviceAddr, usbConfiguration, wasReset,
                            localVars, usbTxBuf, tx1Vars, hist1>>
             /\ usbDeviceAddr' \in {usbDeviceAddr, usbNewDeviceAddr % 128}
  BY <1>4 DEF InToken0, usbSendAndReti
<1>5. ASSUME NEW addr, InToken1(addr)
      PROVE  /\ UNCHANGED <<msgVars, usbNewDeviceAddr, usbConfiguration, wasReset,
                            localVars, usbTxBuf, usbTxBuf1>>
             /\ usbDeviceAddr' \in {usbDeviceAddr, usbNewDeviceAddr % 128}
             /\ \/ UNCHANGED <<usbTxLen1, out1, resync>>
                \/ /\ ~IsHandshake(usbTxLen1)
                   /\ usbTxLen1' = USBPID_NAK
                   /\ out1' = [tok |-> usbTxBuf1.tok, data |-> usbTxBuf1.data]
                   /\ resync' = FALSE
  BY <1>5 DEF InToken1, InReply1, usbSendAndReti
<1> QED
  BY <1>1, <1>2, <1>3, <1>4, <1>5 DEF Heard

-----------------------------------------------------------------------------
(* The device address *)

\* Requests in the receive buffer are the host's: SET_ADDRESS never says 0 when
\* the host never does.  And usbPoll clears the waiting address first.
AddressInv ==
  /\ usbRxBuf \in [{0, 1} -> Requests \cup {Junk}]
  /\ pc = "clearAddr" => usbNewDeviceAddr = 0
  /\ ResetForgetsAddress

LEMMA BufferInterrupt ==
  ASSUME TypeInv, usbRxBuf \in [{0, 1} -> Requests \cup {Junk}], Heard
  PROVE  usbRxBuf' \in [{0, 1} -> Requests \cup {Junk}]
<1>1. ASSUME NEW bytes \in Requests \cup {Junk}, Receive(bytes)
      PROVE  usbRxBuf' \in [{0, 1} -> Requests \cup {Junk}]
  BY <1>1 DEF Receive
<1>2. \E bytes \in Requests \cup {Junk} : Receive(bytes)
  BY DEF Heard, SetupOrOutToken, IgnoredPacket, DataPacket, InToken0, InToken1
<1> QED
  BY <1>1, <1>2

LEMMA AddressInterrupt == TypeInv /\ AddressInv /\ Heard => AddressInv'
<1> SUFFICES ASSUME TypeInv, AddressInv, Heard PROVE AddressInv'
  OBVIOUS
<1>1. usbRxBuf' \in [{0, 1} -> Requests \cup {Junk}]
  BY BufferInterrupt DEF AddressInv
<1>2. 0 % 128 = 0
  OBVIOUS
<1> QED
  BY <1>1, <1>2, HandlerEffect DEF AddressInv, ResetForgetsAddress, AfterResetPoll, localVars

LEMMA AddressMainLoop == TypeInv /\ AddressInv /\ MainLoop => AddressInv'
<1> SUFFICES ASSUME TypeInv, AddressInv, MainLoop PROVE AddressInv'
  OBVIOUS
<1> USE DEF AddressInv, ResetForgetsAddress, AfterResetPoll, At, Goto,
            isrOwned, rxVars, addrVars, notLine, notIntr
<1>1. CASE RxTest \/ RxProc \/ RxAbort \/ RxLimit \/ RxFree
  BY <1>1 DEF RxTest, RxProc, RxAbort, RxLimit, RxFree
<1>2. CASE RxSetup
  <2>1. usbRxBuf[data] \in Requests \cup {Junk}
    BY DEF TypeInv, TypeOK
  <2> QED
    BY <1>2, <2>1 DEF RxSetup, Junk
<1>3. CASE TxTest \/ usbBuildTxBlock
  BY <1>3 DEF TxTest, usbBuildTxBlock, TxToggle, TxCopy, TxCrc, TxLen
<1>4. CASE LineReset \/ ClearAddr \/ LineIdle \/ Calibrate
  BY <1>4 DEF LineReset, ClearAddr, LineIdle, Calibrate
<1>5. CASE SkipInterrupt \/ \E r \in Reports : SetInterrupt(r)
  BY <1>5 DEF SkipInterrupt, SetInterrupt
<1>6. CASE usbSetInterrupt
  BY <1>6 DEF usbSetInterrupt, IntrTest, IntrToggle, IntrRevoke, IntrCopy, IntrCrc, IntrLen
<1> QED
  BY <1>1, <1>2, <1>3, <1>4, <1>5, <1>6 DEF MainLoop, usbPoll, usbProcessRx

\* After the poll that saw a reset the device is at address 0, and stays there
\* until a SET_ADDRESS, wherever in usbPoll the handler sends a packet.
THEOREM AddressForgotten == Spec => []ResetForgetsAddress
<1>1. Init => TypeInv /\ AddressInv
  BY TypeInit DEF Init, AddressInv, ResetForgetsAddress, AfterResetPoll
<1>2. AddressInv /\ UNCHANGED vars => AddressInv'
  BY DEF AddressInv, ResetForgetsAddress, AfterResetPoll, vars, rxVars, addrVars, localVars
<1>3. TypeInv /\ AddressInv /\ [Next]_vars => TypeInv' /\ AddressInv'
  BY <1>2, NextIsDriver, TypeStep, AddressInterrupt, AddressMainLoop DEF Driver
<1>4. AddressInv => ResetForgetsAddress
  BY DEF AddressInv
<1> QED
  BY <1>1, <1>3, <1>4, PTL DEF Spec
-----------------------------------------------------------------------------
(* Endpoint 1 *)

\* The endpoint is not armed while its packet is built, the packet at each
\* label is as far as the statements before it made it, and only a caller that
\* does not ask reaches intrRevoke.
Building == pc \in {"intrToggle", "intrCopy", "intrCrc", "intrLen"}
ReportInv ==
  /\ NoTornReport
  /\ Building => usbTxLen1 = USBPID_NAK
  /\ pc \in {"intrCrc", "intrLen"} => usbTxBuf1.data = report
  /\ pc = "intrLen" => usbTxBuf1.whole
  /\ ReadyChecked => (pc = "intrTest" => IsHandshake(usbTxLen1)) /\ NeverRevokes

LEMMA ReportInterrupt == TypeInv /\ ReportInv /\ Heard => ReportInv'
<1> SUFFICES ASSUME TypeInv, ReportInv, Heard PROVE ReportInv'
  OBVIOUS
<1>1. IsHandshake(USBPID_NAK)
  BY DEF IsHandshake, USBPID_NAK
<1>2. usbTxLen1' = usbTxLen1 \/ usbTxLen1' = USBPID_NAK
  BY HandlerEffect
<1>3. IsHandshake(usbTxLen1') <=> IsHandshake(usbTxLen1) \/ usbTxLen1' = USBPID_NAK
  BY <1>1, <1>2, HandshakeIsNak DEF TypeInv, TypeOK
<1> QED
  BY <1>2, <1>3, HandlerEffect
  DEF ReportInv, NoTornReport, Building, NeverRevokes, localVars, TypeInv, TypeOK

LEMMA ReportMainLoop == TypeInv /\ ReportInv /\ MainLoop => ReportInv'
<1> SUFFICES ASSUME TypeInv, ReportInv, MainLoop PROVE ReportInv'
  OBVIOUS
<1>0. /\ IsHandshake(usbTxLen1) <=> usbTxLen1 = USBPID_NAK
      /\ IsHandshake(USBPID_NAK)
      /\ ~IsHandshake(ReportSize + TxOverhead)
  BY HandshakeIsNak DEF TypeInv, TypeOK, IsHandshake, USBPID_NAK, ReportSize, TxOverhead
<1> USE DEF ReportInv, NoTornReport, Building, NeverRevokes, At, Goto, isrOwned,
            tx1Vars, notLine, notIntr
<1>1. CASE RxTest \/ RxProc \/ RxAbort \/ RxLimit \/ RxFree
  BY <1>1 DEF RxTest, RxProc, RxAbort, RxLimit, RxFree
<1>2. CASE RxSetup
  BY <1>2 DEF RxSetup, TypeInv, TypeOK
<1>3. CASE TxTest \/ usbBuildTxBlock
  BY <1>3 DEF TxTest, usbBuildTxBlock, TxToggle, TxCopy, TxCrc, TxLen
<1>4. CASE LineReset \/ ClearAddr \/ LineIdle \/ Calibrate
  BY <1>4 DEF LineReset, ClearAddr, LineIdle, Calibrate
<1>5. CASE SkipInterrupt \/ \E r \in Reports : SetInterrupt(r)
  BY <1>5 DEF SkipInterrupt, SetInterrupt
<1>6. CASE IntrTest \/ IntrRevoke
  BY <1>0, <1>6 DEF IntrTest, IntrRevoke
<1>7. CASE IntrToggle \/ IntrCopy \/ IntrCrc
  BY <1>0, <1>7 DEF IntrToggle, IntrCopy, IntrCrc, usbCrc16Append, TypeInv, TypeOK
<1>8. CASE IntrLen
  BY <1>0, <1>8 DEF IntrLen
<1> QED
  BY <1>1, <1>2, <1>3, <1>4, <1>5, <1>6, <1>7, <1>8
  DEF MainLoop, usbPoll, usbProcessRx, usbSetInterrupt

LEMMA ReportInvariant == Spec => [](TypeInv /\ ReportInv)
<1>1. Init => TypeInv /\ ReportInv
  BY TypeInit
  DEF Init, ReportInv, NoTornReport, Building, NeverRevokes, IsHandshake, USBPID_NAK
<1>2. ReportInv /\ UNCHANGED vars => ReportInv'
  BY DEF ReportInv, NoTornReport, Building, NeverRevokes, vars, tx1Vars, localVars
<1>3. TypeInv /\ ReportInv /\ [Next]_vars => TypeInv' /\ ReportInv'
  BY <1>2, NextIsDriver, TypeStep, ReportInterrupt, ReportMainLoop DEF Driver
<1> QED
  BY <1>1, <1>3, PTL DEF Spec

\* An IN token on endpoint 1 gets the last report, whole and with its CRC, or
\* NAK, whichever statement of usbSetInterrupt it interrupts.
THEOREM NeverTorn == Spec => []NoTornReport
<1>1. ReportInv => NoTornReport
  BY DEF ReportInv
<1> QED
  BY <1>1, ReportInvariant, PTL

\* A main loop that asks usbInterruptIsReady first never takes back a packet.
THEOREM NothingRevoked == Spec => []NeverRevokes
<1>1. ReportInv => NeverRevokes
  BY DEF ReportInv, NeverRevokes
<1> QED
  BY <1>1, ReportInvariant, PTL

-----------------------------------------------------------------------------
(* Endpoint 1 is the mailbox of ReportPipe *)

\* The token in the buffer is the one sent last until IntrToggle changes it,
\* and the other one from then on until the packet is sent.
Toggled == ~IsHandshake(usbTxLen1) \/ pc \in {"intrCopy", "intrCrc", "intrLen"}
MailboxInv ==
  /\ ~resync => usbTxBuf1.tok = IF Toggled THEN OtherToken(out1.tok) ELSE out1.tok
  /\ pc \in {"intrTest", "intrToggle", "intrCopy", "intrCrc", "intrLen"}
       => report \in Reports
  /\ ~IsHandshake(usbTxLen1) => usbTxBuf1.data \in Reports


\* The constants of UsbDefs mean the same in the instance.
LEMMA SameConstants ==
  /\ ReportMailbox!NoReport = NoReport
  /\ ReportMailbox!USBPID_DATA1 = USBPID_DATA1
  /\ ReportMailbox!Tokens = Tokens
  /\ \A t : ReportMailbox!OtherToken(t) = OtherToken(t)
BY DEF ReportMailbox!NoReport, NoReport, ReportMailbox!USBPID_DATA1, USBPID_DATA1,
       ReportMailbox!USBPID_DATA0, USBPID_DATA0, ReportMailbox!Tokens, Tokens,
       ReportMailbox!OtherToken, OtherToken

LEMMA MailboxInit == Init => MailboxInv /\ ReportMailbox!Init
<1>1. IsHandshake(USBPID_NAK)
  BY DEF IsHandshake, USBPID_NAK
<1> QED
  BY <1>1, SameConstants DEF Init, MailboxInv, Toggled, ReportMailbox!Init, Box

LEMMA MailboxInterrupt ==
  ASSUME TypeInv, ReportInv, MailboxInv, Heard
  PROVE  MailboxInv' /\ [ReportMailbox!Next]_(ReportMailbox!pipe)
<1>1. IsHandshake(USBPID_NAK)
  BY DEF IsHandshake, USBPID_NAK
<1>2. CASE UNCHANGED <<usbTxLen1, out1, resync>>
  BY <1>2, HandlerEffect DEF MailboxInv, Toggled, localVars, ReportMailbox!pipe, Box, IsHandshake
<1>3. CASE /\ ~IsHandshake(usbTxLen1)
           /\ usbTxLen1' = USBPID_NAK
           /\ out1' = [tok |-> usbTxBuf1.tok, data |-> usbTxBuf1.data]
           /\ resync' = FALSE
  <2>1. /\ Box = usbTxBuf1.data /\ usbTxBuf1.data \in Reports
        /\ Box' = NoReport
        /\ IsHandshake(usbTxLen1')
    BY <1>1, <1>3, HandlerEffect DEF Box, MailboxInv
  <2>2. ~Building
    BY <1>1, <1>3 DEF ReportInv
  <2>3. MailboxInv'
    BY <1>3, <2>1, <2>2, HandlerEffect DEF MailboxInv, Toggled, Building, localVars
  <2>4. usbTxBuf1.tok \in IF resync THEN Tokens ELSE {OtherToken(out1.tok)}
    BY <1>3 DEF MailboxInv, Toggled, TypeInv, TypeOK
  <2>5. ReportMailbox!Take
    BY <1>3, <2>1, <2>4, ReportsAssumption, SameConstants DEF ReportMailbox!Take
  <2> QED
    BY <2>3, <2>5 DEF ReportMailbox!Next
<1> QED
  BY <1>2, <1>3, HandlerEffect

LEMMA MailboxMainLoop ==
  ASSUME ReadyChecked, TypeInv, ReportInv, MailboxInv, MainLoop
  PROVE  MailboxInv' /\ [ReportMailbox!Next]_(ReportMailbox!pipe)
<1>0. /\ IsHandshake(usbTxLen1) <=> usbTxLen1 = USBPID_NAK
      /\ IsHandshake(USBPID_NAK)
      /\ ~IsHandshake(ReportSize + TxOverhead)
  BY HandshakeIsNak DEF TypeInv, TypeOK, IsHandshake, USBPID_NAK, ReportSize, TxOverhead
<1> USE DEF MailboxInv, Toggled, At, Goto, isrOwned, hist1, tx1Vars, notLine, notIntr
<1>1. ASSUME UNCHANGED <<tx1Vars, hist1>>
      PROVE  UNCHANGED ReportMailbox!pipe
  BY <1>1 DEF ReportMailbox!pipe, Box
<1>2. CASE RxTest \/ RxProc \/ RxAbort \/ RxLimit \/ RxFree
  BY <1>1, <1>2 DEF RxTest, RxProc, RxAbort, RxLimit, RxFree
<1>3. CASE RxSetup
  <2>1. Box' = Box /\ out1' = out1
    BY <1>3 DEF RxSetup, Box, TypeInv, TypeOK
  <2>2. MailboxInv'
    BY <1>3 DEF RxSetup, TypeInv, TypeOK
  <2>3. resync' = TRUE \/ resync' = resync
    BY <1>3 DEF RxSetup
  <2> QED
    BY <2>1, <2>2, <2>3 DEF ReportMailbox!Next, ReportMailbox!Reset, ReportMailbox!pipe
<1>4. CASE TxTest \/ usbBuildTxBlock
  BY <1>1, <1>4 DEF TxTest, usbBuildTxBlock, TxToggle, TxCopy, TxCrc, TxLen
<1>5. CASE LineReset \/ ClearAddr \/ LineIdle \/ Calibrate
  BY <1>1, <1>5 DEF LineReset, ClearAddr, LineIdle, Calibrate
<1>6. CASE SkipInterrupt \/ \E r \in Reports : SetInterrupt(r)
  BY <1>1, <1>6 DEF SkipInterrupt, SetInterrupt
<1>7. CASE IntrTest
  BY <1>1, <1>7 DEF IntrTest, ReportInv
<1>8. CASE IntrToggle
  BY <1>0, <1>8 DEF IntrToggle, ReportInv, Building, TypeInv, TypeOK,
    ReportMailbox!pipe, Box
<1>9. CASE IntrRevoke
  BY <1>9 DEF IntrRevoke, ReportInv, NeverRevokes
<1>10. CASE IntrCopy \/ IntrCrc
  BY <1>0, <1>10 DEF IntrCopy, IntrCrc, usbCrc16Append, ReportInv, Building, TypeInv,
    TypeOK, ReportMailbox!pipe, Box
<1>11. CASE IntrLen
  <2>1. MailboxInv'
    BY <1>0, <1>11 DEF IntrLen, ReportInv, Building
  <2>2. Box = NoReport /\ Box' = report
    BY <1>0, <1>11 DEF IntrLen, ReportInv, Building, Box
  <2>3. ReportMailbox!Put
    BY <1>11, <2>2, SameConstants DEF IntrLen, ReportMailbox!Put
  <2> QED
    BY <2>1, <2>3 DEF ReportMailbox!Next
<1> QED
  BY <1>2, <1>3, <1>4, <1>5, <1>6, <1>7, <1>8, <1>9, <1>10, <1>11
  DEF MainLoop, usbPoll, usbProcessRx, usbSetInterrupt

\* When the main loop asks first, as the adapter's does, the driver implements
\* the mailbox: the host gets the reports in order, each once, with tokens it
\* does not take for a repetition.
THEOREM ReportsDelivered == ReadyChecked => (Spec => ReportsRight)
<1> SUFFICES ASSUME ReadyChecked PROVE Spec => ReportsRight
  OBVIOUS
<1>1. Init => MailboxInv /\ ReportMailbox!Init
  BY MailboxInit
<1>2. TypeInv /\ ReportInv /\ MailboxInv /\ [Next]_vars
        => MailboxInv' /\ [ReportMailbox!Next]_(ReportMailbox!pipe)
  <2>1. MailboxInv /\ UNCHANGED vars => MailboxInv' /\ UNCHANGED ReportMailbox!pipe
    BY DEF MailboxInv, Toggled, vars, tx1Vars, localVars, hist1, ReportMailbox!pipe, Box
  <2> QED
    BY <2>1, NextIsDriver, MailboxInterrupt, MailboxMainLoop DEF Driver
<1> QED
  BY <1>1, <1>2, ReportInvariant, PTL DEF Spec, ReportsRight, ReportMailbox!Spec

-----------------------------------------------------------------------------
(* The reply as the packets of ControlPipe *)

\* ControlPipe's operators, in terms of the constants of this module.
LEMMA SamePackets ==
  ASSUME NEW r, NEW n
  PROVE  /\ Control!Left(r, n) = Limit(ReplyLength(r), r.wLength) - PacketSize * n
         /\ Control!HasBlock(r, n) <=> r \in Requests /\ Control!Left(r, n) >= 0
         /\ Control!BlockToken(n) = IF n % 2 = 0 THEN USBPID_DATA1 ELSE USBPID_DATA0
         /\ Control!BlockSegment(r, n) =
              IF Control!Left(r, n) = 0 THEN Empty
              ELSE [obj |-> ReplyObject(r), off |-> PacketSize * n,
                    len |-> Min2(Control!Left(r, n), PacketSize)]
         /\ Control!NoPacket = NoPacket
         /\ Control!Junk = Junk
BY DEF Control!Left, Control!HasBlock, Control!BlockToken, Control!BlockSegment,
       Control!Limit, Limit, Control!ReplyLength, ReplyLength, Control!ReplyObject,
       ReplyObject, Control!DescriptorLength, DescriptorLength, Control!PacketSize,
       PacketSize, Control!Empty, Empty, Control!Min2, Min2, Control!NoPacket, NoPacket,
       Control!Junk, Junk, Control!USBPID_DATA0, USBPID_DATA0, Control!USBPID_DATA1,
       USBPID_DATA1

\* What is left of a reply gets less by a packet, and is never as long as the
\* value that says there is no message.
LEMMA LeftFalls ==
  ASSUME NEW r \in Requests, NEW n \in Nat
  PROVE  /\ Control!Left(r, n) \in Int
         /\ Control!Left(r, n) <= 56
         /\ Control!Left(r, n + 1) = Control!Left(r, n) - PacketSize
         /\ Control!Left(r, 0) = Limit(ReplyLength(r), r.wLength)
<1>1. r \in RequestType \cup {Junk}
  BY RequestsAssumption
<1>2. Limit(ReplyLength(r), r.wLength) \in 0 .. 56
  BY <1>1, ReplyType, LimitType
<1> QED
  BY <1>2, SamePackets DEF PacketSize

LEMMA TokensAlternate ==
  ASSUME NEW n \in Nat
  PROVE  /\ Control!BlockToken(n) \in Tokens
         /\ Control!BlockToken(n + 1) = OtherToken(Control!BlockToken(n))
         /\ Control!BlockToken(n) = OtherToken(Control!BlockToken(n + 1))
         /\ OtherToken(Control!BlockToken(0)) = USBPID_DATA0
<1>1. \A m : Control!BlockToken(m) = IF m % 2 = 0 THEN USBPID_DATA1 ELSE USBPID_DATA0
  BY SamePackets
<1>2. n % 2 = 0 <=> (n + 1) % 2 # 0
  OBVIOUS
<1>3. USBPID_DATA0 # USBPID_DATA1 /\ 0 % 2 = 0
  BY DEF USBPID_DATA0, USBPID_DATA1
<1> QED
  BY <1>1, <1>2, <1>3 DEF Tokens, OtherToken

-----------------------------------------------------------------------------
(* The invariant *)

\* usbMsgPtr is where packet n of the reply begins, and is read as what it is.
Pointing(n) ==
  /\ usbMsgPtr = [obj |-> ReplyObject(req), off |-> PacketSize * n]
  /\ usbMsgPtr.obj \in Descriptors <=> usbMsgFlags = USB_FLG_MSGPTR_IS_ROM

\* The message is what remains of the reply from packet n on.
Remains(n) ==
  IF Control!HasBlock(req, n)
  THEN usbMsgLen = Control!Left(req, n) /\ (usbMsgLen > 0 => Pointing(n))
  ELSE usbMsgLen = USB_NO_MSG

\* A request waits in the receive buffer: no packet leaves until it is processed,
\* whatever is still armed or being built, and usbProcessRx makes the message its reply.
Preparing ==
  /\ pc \in {"rxAbort", "rxSetup", "rxLimit", "rxFree"} => usbTxBuf.tok = USBPID_DATA0
  /\ pc \in {"rxSetup", "rxLimit", "rxFree"} => usbTxLen = USBPID_NAK
  /\ pc = "rxSetup" => usbMsgFlags = 0
  /\ pc = "rxLimit" => len = ReplyLength(req) /\ (len > 0 => Pointing(0))
  /\ pc = "rxFree" => Remains(0)

\* Otherwise the packet armed is the next of the reply and the message what
\* follows it; or none is armed and the message is all that remains of the reply;
\* or usbBuildTxBlock is turning the one into the other.
Copying == {"txCopy", "txCrc", "txLen"}
Armed ==
  /\ Control!HasBlock(req, sent)
  /\ usbTxBuf.whole
  /\ usbTxBuf.tok = Control!BlockToken(sent)
  /\ usbTxBuf.seg = Control!BlockSegment(req, sent)
  /\ usbTxLen = usbTxBuf.seg.len + TxOverhead
  /\ Remains(sent + 1)
Idle ==
  /\ Remains(sent)
  /\ Control!HasBlock(req, sent) => usbTxBuf.tok = OtherToken(Control!BlockToken(sent))
Build ==
  LET left == Control!Left(req, sent) IN
  /\ Control!HasBlock(req, sent)
  /\ usbTxBuf.tok = Control!BlockToken(sent)
  /\ len = Min2(left, PacketSize)
  /\ pc = "txCopy" => usbMsgLen = left - len /\ (left > 0 => Pointing(sent))
  /\ pc = "txCrc" => usbMsgLen = left - len /\ (usbMsgLen > 0 => Pointing(sent + 1))
  /\ pc \in {"txCrc", "txLen"} => usbTxBuf.seg = Control!BlockSegment(req, sent)
  /\ pc = "txLen" => usbTxBuf.whole /\ Remains(sent + 1)
Serving ==
  /\ usbTxLen # USBPID_NAK => Armed
  /\ usbTxLen = USBPID_NAK /\ pc \notin Copying => Idle
  /\ pc \in Copying => Build

ControlInv ==
  /\ RequestPending => req \in Requests /\ sent = 0
  /\ pc = "rxProc" => len = usbRxLen - RxOverhead
  /\ pc \in {"rxAbort", "rxSetup", "rxLimit"} => RequestPending
  /\ pc \in Copying \cup {"txToggle"} => usbTxLen = USBPID_NAK
  /\ IF RequestPending THEN Preparing ELSE Serving

-----------------------------------------------------------------------------
(* The handler preserves it *)

\* The handler takes a request only into the free half, and sends from endpoint 0
\* only while no request waits.
LEMMA ControlEffect ==
  ASSUME TypeInv, RequestStable, Heard, RequestPending' => req' \in Requests
  PROVE  \/ /\ UNCHANGED <<usbTxLen, hist0>>
            /\ RequestPending' <=> RequestPending
            /\ usbRxLen # 0 => usbRxLen' = usbRxLen
         \/ /\ ~RequestPending /\ RequestPending' /\ usbRxLen = 0
            /\ req' \in Requests /\ sent' = 0 /\ out0' = NoPacket
            /\ UNCHANGED usbTxLen
         \/ /\ ~RequestPending /\ ~RequestPending'
            /\ usbTxLen # USBPID_NAK /\ usbTxLen' = USBPID_NAK
            /\ out0' = [tok |-> usbTxBuf.tok, seg |-> usbTxBuf.seg]
            /\ sent' = sent + 1 /\ req' = req
            /\ UNCHANGED usbRxLen
<1> USE DEF TypeInv, TypeOK, RequestPending, hist0
<1>0. IsHandshake(usbTxLen) <=> usbTxLen = USBPID_NAK
  BY HandshakeIsNak
<1>1. ASSUME NEW tok \in {USBPID_SETUP, USBPID_OUT}, NEW addr,
             SetupOrOutToken(tok, addr)
      PROVE  UNCHANGED <<usbTxLen, req, sent, out0, usbRxLen, usbRxToken>>
  BY <1>1 DEF SetupOrOutToken, tx0Vars
<1>2. ASSUME IgnoredPacket
      PROVE  UNCHANGED <<usbTxLen, req, sent, out0, usbRxLen, usbRxToken>>
  BY <1>2 DEF IgnoredPacket, tx0Vars
<1>3. ASSUME NEW n \in 1 .. 11, NEW bytes \in Requests \cup {Junk}, DataPacket(bytes, n)
      PROVE  \/ UNCHANGED <<usbTxLen, req, sent, out0, usbRxLen, usbRxToken>>
             \/ /\ usbRxLen = 0 /\ ~RequestPending' /\ UNCHANGED <<usbTxLen, req, sent, out0>>
             \/ /\ usbRxLen = 0 /\ RequestPending' /\ UNCHANGED usbTxLen
                /\ req' \in Requests /\ sent' = 0 /\ out0' = NoPacket
  <2>2. CASE DataStored(n)
    BY <1>3, <2>2
    DEF DataPacket, DataStored, DataReply, SetupSize, RxOverhead, tx0Vars
  <2>3. CASE ~DataStored(n)
    BY <1>3, <2>3 DEF DataPacket, tx0Vars
  <2> QED
    BY <2>2, <2>3
<1>4. ASSUME NEW addr, InToken0(addr)
      PROVE  \/ UNCHANGED <<usbTxLen, req, sent, out0, usbRxLen, usbRxToken>>
             \/ /\ usbRxLen = 0 /\ usbTxLen # USBPID_NAK /\ usbTxLen' = USBPID_NAK
                /\ out0' = [tok |-> usbTxBuf.tok, seg |-> usbTxBuf.seg]
                /\ sent' = sent + 1 /\ req' = req
                /\ UNCHANGED <<usbRxLen, usbRxToken>>
  BY <1>0, <1>4 DEF InToken0, InReply0
<1>5. ASSUME NEW addr, InToken1(addr)
      PROVE  UNCHANGED <<usbTxLen, req, sent, out0, usbRxLen, usbRxToken>>
  BY <1>5 DEF InToken1, tx0Vars
<1>6. usbRxLen = 0 => ~RequestPending
  BY DEF SetupSize, RxOverhead
<1> QED
  BY <1>1, <1>2, <1>3, <1>4, <1>5, <1>6 DEF Heard

LEMMA ControlInterrupt ==
  ASSUME TypeInv, RequestStable, ControlInv, Heard, RequestPending' => req' \in Requests
  PROVE  ControlInv' /\ [Control!Next]_(Control!pipe)
<1>1. UNCHANGED <<usbTxBuf, usbMsgPtr, usbMsgLen, usbMsgFlags, pc, data, len, report>>
  BY HandlerEffect DEF msgVars, localVars
<1>2. pc = "rxProc" => usbRxLen # 0
  BY DEF RequestStable, Processing, TypeInv, TypeOK
<1>3. CASE /\ UNCHANGED <<usbTxLen, hist0>>
           /\ RequestPending' <=> RequestPending
           /\ usbRxLen # 0 => usbRxLen' = usbRxLen
  <2>1. \A n : Remains(n)' <=> Remains(n)
    BY <1>1, <1>3 DEF Remains, Pointing, hist0, Control!HasBlock, Control!Left
  <2>2. (Serving' <=> Serving) /\ (Preparing' <=> Preparing)
    BY <1>1, <1>3, <2>1
    DEF Serving, Preparing, Armed, Idle, Build, Pointing, hist0
  <2>3. UNCHANGED Control!pipe
    BY <1>3 DEF hist0, Control!pipe
  <2> QED
    BY <1>1, <1>2, <1>3, <2>2, <2>3 DEF ControlInv, hist0
<1>4. CASE /\ ~RequestPending /\ RequestPending' /\ usbRxLen = 0
           /\ req' \in Requests /\ sent' = 0 /\ out0' = NoPacket
           /\ UNCHANGED usbTxLen
  <2>1. pc \notin {"rxProc", "rxAbort", "rxSetup", "rxLimit", "rxFree"}
    BY <1>4 DEF RequestStable, Processing, TypeInv, TypeOK
  <2>2. Preparing'
    BY <1>1, <2>1 DEF Preparing
  <2>3. Control!Accept
    BY <1>4, SamePackets DEF Control!Accept
  <2> QED
    BY <1>1, <1>4, <2>1, <2>2, <2>3 DEF ControlInv, Control!Next
<1>5. CASE /\ ~RequestPending /\ ~RequestPending'
           /\ usbTxLen # USBPID_NAK /\ usbTxLen' = USBPID_NAK
           /\ out0' = [tok |-> usbTxBuf.tok, seg |-> usbTxBuf.seg]
           /\ sent' = sent + 1 /\ req' = req
           /\ UNCHANGED usbRxLen
  <2>1. Armed /\ pc \notin Copying \cup {"txToggle"} /\ sent \in Nat
    BY <1>5 DEF ControlInv, Serving, TypeInv, TypeOK
  <2>2. Remains(sent)' <=> Remains(sent + 1)
    BY <1>1, <1>5 DEF Remains, Pointing, Control!HasBlock, Control!Left
  <2>3. usbTxBuf'.tok = OtherToken(Control!BlockToken(sent + 1))
    BY <1>1, <2>1, TokensAlternate DEF Armed
  <2>4. Serving'
    BY <1>1, <1>5, <2>1, <2>2, <2>3 DEF Serving, Idle, Armed
  <2>5. Control!Send
    BY <1>5, <2>1 DEF Armed, Control!Send, Control!Block
  <2> QED
    BY <1>1, <1>5, <2>1, <2>4, <2>5 DEF ControlInv, Control!Next
<1> QED
  BY <1>3, <1>4, <1>5, ControlEffect

-----------------------------------------------------------------------------
(* The main loop preserves it *)

\* What only remains is described by the variables of the message.
LEMMA RemainsKept ==
  ASSUME UNCHANGED <<msgVars, req, sent>>
  PROVE  \A n : (Remains(n)' <=> Remains(n)) /\ (Pointing(n)' <=> Pointing(n))
BY DEF Remains, Pointing, msgVars, Control!HasBlock, Control!Left

\* A statement that is neither of usbProcessRx nor of usbBuildTxBlock.
LEMMA ControlElsewhere ==
  ASSUME ControlInv, UNCHANGED <<rxVars, tx0Vars, msgVars, hist0>>,
         pc \notin Copying, pc' \notin Copying,
         ~Processing, Processing' => pc' = "rxProc" /\ len' = usbRxLen - RxOverhead,
         pc' = "txToggle" => usbTxLen = USBPID_NAK
  PROVE  ControlInv'
<1> USE DEF rxVars, tx0Vars, hist0, Processing
<1>1. \A n : Remains(n)' <=> Remains(n)
  BY RemainsKept
<1>2. RequestPending' <=> RequestPending
  BY DEF RequestPending
<1>3. CASE RequestPending
  BY <1>2, <1>3 DEF ControlInv, Preparing
<1>4. CASE ~RequestPending
  <2>1. Serving'
    BY <1>1, <1>4 DEF ControlInv, Serving, Armed, Idle
  <2> QED
    BY <1>2, <1>4, <2>1 DEF ControlInv
<1> QED
  BY <1>3, <1>4

LEMMA ControlProcessRx ==
  ASSUME TypeInv, RequestStable, ControlInv, RxProc \/ RxAbort \/ RxSetup \/ RxLimit \/ RxFree
  PROVE  ControlInv' /\ UNCHANGED hist0
<1> USE DEF At, Goto, isrOwned, rxVars, hist0
<1>0. Processing
  BY DEF Processing, RxProc, RxAbort, RxSetup, RxLimit, RxFree
<1>1. RequestPending => usbRxBuf[data] = req /\ req \in Requests /\ sent = 0
  BY <1>0 DEF RequestStable, ControlInv
<1>2. CASE RxProc
  <2>1. usbRxToken = USBPID_SETUP /\ len = SetupSize <=> RequestPending
    BY <1>2 DEF RxProc, ControlInv, RequestPending, SetupSize, RxOverhead, TypeInv, TypeOK
  <2>2. RequestPending' <=> RequestPending
    BY <1>2 DEF RxProc, RequestPending
  <2>3. CASE RequestPending
    BY <1>2, <2>1, <2>2, <2>3 DEF RxProc, ControlInv, Preparing, Copying, TypeInv, TypeOK
  <2>4. CASE ~RequestPending
    <3>1. \A n : Remains(n)' <=> Remains(n)
      BY <1>2, RemainsKept DEF RxProc
    <3>2. Serving'
      BY <1>2, <2>1, <2>4, <3>1 DEF RxProc, ControlInv, Serving, Armed, Idle, Copying
    <3> QED
      BY <1>2, <2>1, <2>2, <2>4, <3>2 DEF RxProc, ControlInv, Copying
  <2> QED
    BY <2>3, <2>4
<1>3. CASE RxAbort
  <2>1. RequestPending /\ RequestPending'
    BY <1>3 DEF RxAbort, ControlInv, RequestPending
  <2> QED
    BY <1>3, <2>1 DEF RxAbort, ControlInv, Preparing, Copying
<1>4. CASE RxSetup
  <2>1. RequestPending /\ RequestPending' /\ usbRxBuf[data] = req
    BY <1>1, <1>4 DEF RxSetup, ControlInv, RequestPending
  <2>2. usbTxBuf'.tok = USBPID_DATA0
    BY <1>4, <2>1 DEF RxSetup, ClearReplyByte, ControlInv, Preparing, TypeInv, TypeOK
  <2>3. req \in RequestType /\ usbMsgFlags = 0
    BY <1>1, <1>4, <2>1, RequestsAssumption DEF RxSetup, ControlInv, Preparing
  <2>4. len' > 0 => Pointing(0)'
    <3> SUFFICES ASSUME ReplyLength(req) > 0 PROVE Pointing(0)'
      BY <1>4, <2>1 DEF RxSetup
    <3>1. PointerSet(req)
      BY <2>3 DEF PointerSet, ReplyLength, RequestType, RequestCodes
    <3>2. ReplyObject(req) \in Descriptors <=> req.bRequest = "GET_DESCRIPTOR"
      BY <2>3 DEF ReplyObject, RequestType, Descriptors, DescriptorLength
    <3> QED
      BY <1>4, <2>1, <2>3, <3>1, <3>2
      DEF RxSetup, Pointing, PacketSize, USB_FLG_MSGPTR_IS_ROM
  <2> QED
    BY <1>4, <2>1, <2>2, <2>4 DEF RxSetup, ControlInv, Preparing, Copying
<1>5. CASE RxLimit
  <2>1. RequestPending /\ RequestPending' /\ usbRxBuf[data] = req
    BY <1>1, <1>5 DEF RxLimit, ControlInv, RequestPending
  <2>2. req \in RequestType /\ len = ReplyLength(req) /\ (len > 0 => Pointing(0))
    BY <1>1, <1>5, <2>1, RequestsAssumption DEF RxLimit, ControlInv, Preparing
  <2>3. /\ usbMsgLen' = Control!Left(req, 0)
        /\ Control!HasBlock(req, 0)
        /\ usbMsgLen' > 0 => len > 0
    <3>0. len \in 0 .. 56 /\ req.wLength \in Words
      BY <2>2, ReplyType
    <3>1. Limit(len, req.wLength) \in 0 .. 56
      BY <3>0, LimitType
    <3>2. Limit(len, req.wLength) > 0 => len > 0
      <4>1. \A n \in 0 .. 56, w \in Words : Limit(n, w) > 0 => n > 0
        BY DEF Limit, Words
      <4> QED
        BY <3>0, <4>1
    <3> QED
      BY <1>1, <1>5, <2>1, <2>2, <3>1, <3>2, LeftFalls, SamePackets DEF RxLimit
  <2>4. Remains(0)'
    BY <1>5, <2>2, <2>3 DEF RxLimit, Remains, Pointing, Control!HasBlock, Control!Left
  <2> QED
    BY <1>5, <2>1, <2>4 DEF RxLimit, ControlInv, Preparing, Copying, tx0Vars
<1>6. CASE RxFree
  <2>1. ~RequestPending'
    BY <1>6 DEF RxFree, RequestPending, SetupSize, RxOverhead
  <2>2. \A n : Remains(n)' <=> Remains(n)
    BY <1>6, RemainsKept DEF RxFree
  <2>3. CASE RequestPending
    <3>1. Idle'
      BY <1>1, <1>6, <2>2, <2>3, TokensAlternate
      DEF RxFree, ControlInv, Preparing, Idle, tx0Vars
    <3> QED
      BY <1>6, <2>1, <2>3, <3>1 DEF RxFree, ControlInv, Preparing, Serving, Copying, tx0Vars
  <2>4. CASE ~RequestPending
    <3>1. Serving'
      BY <1>6, <2>2, <2>4 DEF RxFree, ControlInv, Serving, Armed, Idle, Copying, tx0Vars
    <3> QED
      BY <1>6, <2>1, <2>4, <3>1 DEF RxFree, ControlInv, Copying
  <2> QED
    BY <2>3, <2>4
<1> QED
  BY <1>2, <1>3, <1>4, <1>5, <1>6 DEF RxProc, RxAbort, RxSetup, RxLimit, RxFree

LEMMA ControlBuild ==
  ASSUME TypeInv, RequestStable, ControlInv, usbBuildTxBlock
  PROVE  ControlInv' /\ UNCHANGED hist0
<1> DEFINE left == Control!Left(req, sent)
<1> USE DEF At, Goto, isrOwned, rxVars, hist0
<1>1. /\ pc \in {"txToggle", "txCopy", "txCrc", "txLen"} /\ UNCHANGED <<rxVars, hist0>>
      /\ pc' \in {"txCopy", "txCrc", "txLen", "line"}
      /\ pc' \in Copying => usbTxLen' = USBPID_NAK
      /\ usbTxLen = USBPID_NAK
  BY DEF usbBuildTxBlock, TxToggle, TxCopy, TxCrc, TxLen, ControlInv, Copying
<1>2. RequestPending' <=> RequestPending
  BY <1>1 DEF RequestPending
<1>3. CASE RequestPending
  BY <1>1, <1>2, <1>3 DEF ControlInv, Preparing
<1>4. ASSUME ~RequestPending
      PROVE  Serving'
  <2>1. /\ pc \notin Copying => Idle
        /\ pc \in Copying => Build
        /\ sent \in Nat
    BY <1>1, <1>4 DEF ControlInv, Serving, TypeInv, TypeOK
  <2>2. ASSUME Control!HasBlock(req, sent)
        PROVE  /\ left \in 0 .. 56 /\ req \in Requests
               /\ Min2(left, PacketSize) \in 0 .. PacketSize
               /\ Control!Left(req, sent + 1) = left - PacketSize
               /\ Control!HasBlock(req, sent + 1) <=> left >= PacketSize
    <3>1. req \in Requests /\ left >= 0
      BY <2>2, SamePackets
    <3>2. /\ left \in Int /\ left <= 56
          /\ Control!Left(req, sent + 1) = left - PacketSize
      BY <2>1, <3>1, LeftFalls
    <3>3. Control!HasBlock(req, sent + 1) <=> Control!Left(req, sent + 1) >= 0
      BY <3>1, SamePackets
    <3> QED
      BY <3>1, <3>2, <3>3 DEF Min2, PacketSize
  <2>3. CASE TxToggle
    <3>1. Idle /\ usbMsgLen # USB_NO_MSG
      BY <2>1, <2>3 DEF TxToggle, Copying, TypeInv, LenOK
    <3>2. /\ Control!HasBlock(req, sent) /\ usbMsgLen = left
          /\ left > 0 => Pointing(sent)
      BY <3>1 DEF Idle, Remains
    <3>3. usbTxBuf'.tok = Control!BlockToken(sent)
      BY <2>1, <2>3, <3>1, <3>2, TokensAlternate
      DEF TxToggle, Idle, TypeInv, TypeOK, OtherToken, Tokens
    <3> QED
      BY <1>1, <2>3, <3>2, <3>3
      DEF TxToggle, Serving, Build, Copying, Pointing, Control!HasBlock, Control!Left
  <2>4. CASE TxCopy
    <3>1. Build /\ pc = "txCopy"
      BY <2>1, <2>4 DEF TxCopy, Copying
    <3>2. ReadSegment(len) = Control!BlockSegment(req, sent)
      BY <2>2, <3>1, SamePackets DEF Build, ReadSegment, Pointing, Min2, PacketSize
    <3>3. usbMsgLen > 0 => Pointing(sent + 1)'
      BY <1>1, <2>1, <2>2, <2>4, <3>1 DEF TxCopy, Build, Pointing, Min2, PacketSize
    <3> QED
      BY <1>1, <2>4, <3>1, <3>2, <3>3
      DEF TxCopy, Serving, Build, Copying, TypeInv, TypeOK, Control!HasBlock,
          Control!Left, Control!BlockSegment, Control!BlockToken
  <2>5. CASE TxCrc
    <3>1. Build /\ pc = "txCrc"
      BY <2>1, <2>5 DEF TxCrc, Copying
    <3>2. Remains(sent + 1)'
      BY <1>1, <2>2, <2>5, <3>1
      DEF TxCrc, Build, Remains, Pointing, Min2, PacketSize, Control!HasBlock, Control!Left
    <3> QED
      BY <1>1, <2>5, <3>1, <3>2
      DEF TxCrc, usbCrc16Append, Serving, Build, Copying, TypeInv, TypeOK,
          Control!HasBlock, Control!Left, Control!BlockSegment, Control!BlockToken
  <2>6. CASE TxLen
    <3>1. Build /\ pc = "txLen"
      BY <2>1, <2>6 DEF TxLen, Copying
    <3>2. Armed'
      <4>1. usbTxBuf.seg.len = len
        BY <2>2, <3>1, SamePackets DEF Build, Empty, Min2, PacketSize
      <4>2. Remains(sent + 1)'
        BY <2>6, <3>1, RemainsKept DEF TxLen, Build
      <4> QED
        BY <2>6, <3>1, <4>1, <4>2
        DEF TxLen, Build, Armed, Control!HasBlock, Control!Left,
            Control!BlockSegment, Control!BlockToken
    <3>3. usbTxLen' # USBPID_NAK
      BY <2>6 DEF TxLen, TypeInv, LenOK, TxOverhead, USBPID_NAK, PacketSize
    <3> QED
      BY <2>6, <3>2, <3>3 DEF TxLen, Serving, Copying
  <2> QED
    BY <2>3, <2>4, <2>5, <2>6 DEF usbBuildTxBlock
<1> QED
  BY <1>1, <1>2, <1>3, <1>4 DEF ControlInv, Copying

LEMMA ControlMainLoop ==
  ASSUME TypeInv, RequestStable, ControlInv, MainLoop
  PROVE  ControlInv' /\ UNCHANGED Control!pipe
<1>1. ASSUME UNCHANGED hist0 PROVE UNCHANGED Control!pipe
  BY <1>1 DEF hist0, Control!pipe
<1> USE DEF At, Goto, isrOwned, notLine, notIntr, Processing, Copying
<1>2. CASE RxTest
  <2>1. Processing' => pc' = "rxProc" /\ len' = usbRxLen - RxOverhead
    BY <1>2 DEF RxTest
  <2> QED
    BY <1>1, <1>2, <2>1, ControlElsewhere DEF RxTest
<1>3. CASE RxProc \/ RxAbort \/ RxSetup \/ RxLimit \/ RxFree
  BY <1>1, <1>3, ControlProcessRx
<1>4. CASE TxTest
  <2>1. pc' = "txToggle" => usbTxLen = USBPID_NAK
    BY <1>4, HandshakeIsNak DEF TxTest, TypeInv, TypeOK
  <2> QED
    BY <1>1, <1>4, <2>1, ControlElsewhere DEF TxTest
<1>5. CASE usbBuildTxBlock
  BY <1>1, <1>5, ControlBuild
<1>6. CASE LineReset \/ ClearAddr \/ LineIdle \/ Calibrate
  BY <1>1, <1>6, ControlElsewhere DEF LineReset, ClearAddr, LineIdle, Calibrate
<1>7. CASE SkipInterrupt \/ \E r \in Reports : SetInterrupt(r)
  BY <1>1, <1>7, ControlElsewhere DEF SkipInterrupt, SetInterrupt
<1>8. CASE usbSetInterrupt
  BY <1>1, <1>8, ControlElsewhere
  DEF usbSetInterrupt, IntrTest, IntrToggle, IntrRevoke, IntrCopy, IntrCrc, IntrLen
<1> QED
  BY <1>2, <1>3, <1>4, <1>5, <1>6, <1>7, <1>8 DEF MainLoop, usbPoll, usbProcessRx

-----------------------------------------------------------------------------
(* What it shows *)

LEMMA ControlInit == Init => ControlInv /\ Control!Init
<1> SUFFICES ASSUME Init PROVE ControlInv /\ Control!Init
  OBVIOUS
<1>1. Junk \notin Requests
  <2>1. Junk.bRequest \notin RequestCodes
    BY DEF Junk, RequestCodes
  <2> QED
    BY <2>1, RequestsAssumption DEF RequestType
<1>2. \A n : ~Control!HasBlock(req, n)
  BY <1>1 DEF Init, Control!HasBlock
<1>3. ~RequestPending
  BY DEF Init, RequestPending, SetupSize, RxOverhead
<1>4. Idle
  BY <1>2 DEF Init, Idle, Remains
<1>5. Control!Init
  BY SamePackets DEF Init, Control!Init
<1> QED
  BY <1>3, <1>4, <1>5 DEF Init, ControlInv, Serving, Copying

LEMMA ControlStep ==
  ASSUME TypeInv, RequestStable, ControlInv, [Driver]_vars,
         RequestPending' => req' \in Requests
  PROVE  /\ TypeInv' /\ RequestStable' /\ ControlInv'
         /\ [Control!Next]_(Control!pipe)
<1>1. CASE UNCHANGED vars
  <2>1. RequestStable' /\ UNCHANGED Control!pipe
    BY <1>1 DEF RequestStable, RequestPending, Processing, vars, rxVars, localVars,
                hist0, Control!pipe
  <2>2. \A n : (Remains(n)' <=> Remains(n)) /\ (Pointing(n)' <=> Pointing(n))
    BY <1>1, RemainsKept DEF vars, hist0
  <2>3. ControlInv'
    BY <1>1, <2>2
    DEF ControlInv, RequestPending, Preparing, Serving, Armed, Idle, Build, vars,
        rxVars, tx0Vars, msgVars, localVars, hist0
  <2> QED
    BY <1>1, <2>1, <2>3, TypeStutter
<1>2. CASE Heard
  BY <1>2, TypeStep, StableStep, ControlInterrupt
<1>3. CASE MainLoop
  BY <1>3, TypeStep, StableStep, ControlMainLoop
<1> QED
  BY <1>1, <1>2, <1>3 DEF Driver

\* In a step of Next the device takes nothing but a request of the host for one.
LEMMA NextRequests ==
  ASSUME TypeInv, RequestStable, ControlInv, [Next]_vars, RequestPending'
  PROVE  req' \in Requests
<1> USE DEF ControlInv, RequestPending
<1>1. CASE UNCHANGED vars
  BY <1>1 DEF vars, rxVars, hist0
<1>2. CASE MainLoop
  BY <1>2, ControlMainLoop
<1>3. CASE Interrupt
  BY <1>3 DEF Interrupt, SetupOrOutToken, IgnoredPacket, DataPacket, DataBytes, InToken0,
              InToken1, hist0, rxVars
<1> QED
  BY <1>1, <1>2, <1>3 DEF Next

LEMMA ControlNext ==
  TypeInv /\ RequestStable /\ ControlInv /\ [Next]_vars
    => /\ TypeInv' /\ RequestStable' /\ ControlInv'
       /\ [Control!Next]_(Control!pipe)
BY ControlStep, NextRequests, NextIsDriver

LEMMA ControlInvariant == Spec => [](TypeInv /\ RequestStable /\ ControlInv)
<1>1. Init => TypeInv /\ RequestStable /\ ControlInv
  BY TypeInit, ControlInit
  DEF Init, RequestStable, RequestPending, Processing, SetupSize, RxOverhead
<1> QED
  BY <1>1, ControlNext, PTL DEF Spec

\* An IN token on endpoint 0 gets the next packet of the reply to the request
\* acknowledged last, whole and with its CRC, or NAK: whichever statement of
\* usbPoll it interrupts, and whatever transfer a new SETUP cut short.
THEOREM NeverStaleOrTorn == Spec => []NoStaleOrTornReply
<1>1. TypeInv /\ ControlInv => NoStaleOrTornReply
  <2> SUFFICES ASSUME TypeInv, ControlInv, Armed0 PROVE NoStaleOrTornReply
    BY DEF NoStaleOrTornReply
  <2>1. ~RequestPending
    BY DEF Armed0, RequestPending, SetupSize, RxOverhead
  <2>2. Armed
    BY <2>1, HandshakeIsNak DEF Armed0, ControlInv, Serving, TypeInv, TypeOK
  <2> QED
    BY <2>2 DEF NoStaleOrTornReply, Armed, Control!Block
<1> QED
  BY <1>1, ControlInvariant, PTL

\* The driver implements the control pipe: against any host, for any requests,
\* every data packet of endpoint 0 is the next one of the reply to the request
\* acknowledged last, with the next token, up to the packet that ends it.
THEOREM ControlImplemented == Spec => ControlTransfersRight
<1>1. Init => Control!Init
  BY ControlInit
<1>2. TypeInv /\ RequestStable /\ ControlInv /\ [Next]_vars
        => [Control!Next]_(Control!pipe)
  BY ControlNext
<1> QED
  BY <1>1, <1>2, ControlInvariant, PTL DEF Spec, ControlTransfersRight, Control!Spec

-----------------------------------------------------------------------------
(* What a packet and a step of the main loop do to the receive buffer *)

LEMMA QuietPackets ==
  ASSUME IgnoredPacket \/ (\E t, a : SetupOrOutToken(t, a)) \/ (\E a : InToken0(a) \/ InToken1(a))
  PROVE  usbRxLen' = usbRxLen /\ pc' = pc
BY DEF IgnoredPacket, SetupOrOutToken, InToken0, InToken1, localVars

LEMMA DataPacketStores ==
  ASSUME NEW b, NEW n, DataPacket(b, n)
  PROVE  /\ usbRxLen' = IF DataStored(n) THEN n ELSE usbRxLen
         /\ pc' = pc
BY DEF DataPacket, localVars

BeforeFree ==
  {"main", "intrTest", "intrToggle", "intrRevoke", "intrCopy", "intrCrc", "intrLen",
   "rxTest", "rxProc", "rxAbort", "rxSetup", "rxLimit", "rxFree"}

LEMMA LoopFrees ==
  ASSUME MainLoop, usbRxLen \in {0} \cup 4 .. 11
  PROVE  /\ usbRxLen' = usbRxLen \/ usbRxLen' = 0
         /\ pc = "clearAddr" => pc' = "main"
         /\ pc \in BeforeFree => usbRxLen' = 0 \/ pc' \in BeforeFree
<1>1. CASE RxTest
  BY <1>1 DEF RxTest, At, Goto, isrOwned, rxVars, BeforeFree, RxOverhead
<1>2. CASE usbProcessRx
  BY <1>2 DEF usbProcessRx, RxProc, RxAbort, RxSetup, RxLimit, At, Goto, isrOwned, rxVars, BeforeFree
<1>3. CASE RxFree
  BY <1>3 DEF RxFree, At, Goto
<1>4. CASE TxTest \/ usbBuildTxBlock
  BY <1>4 DEF TxTest, usbBuildTxBlock, TxToggle, TxCopy, TxCrc, TxLen, At, Goto,
              isrOwned, rxVars, BeforeFree
<1>5. CASE LineReset \/ ClearAddr \/ LineIdle \/ Calibrate
  BY <1>5 DEF LineReset, ClearAddr, LineIdle, Calibrate, At, Goto, notLine,
              isrOwned, rxVars, BeforeFree
<1>6. CASE SkipInterrupt \/ \E r \in Reports : SetInterrupt(r)
  BY <1>6 DEF SkipInterrupt, SetInterrupt, At, Goto, notLine, isrOwned, rxVars, BeforeFree
<1>7. CASE usbSetInterrupt
  BY <1>7 DEF usbSetInterrupt, IntrTest, IntrToggle, IntrRevoke, IntrCopy, IntrCrc, IntrLen,
              At, Goto, notIntr, isrOwned, rxVars, BeforeFree
<1> QED
  BY <1>1, <1>2, <1>3, <1>4, <1>5, <1>6, <1>7 DEF MainLoop, usbPoll

-----------------------------------------------------------------------------
(* The receive buffer is free when a transfer starts *)

\* Where a transaction that sends data stands in its transfer.
StageInv ==
  /\ bus \in {"reset", "run"}
  /\ bus = "reset" => xact = "none" /\ stage = "setup"
  /\ xact = "setup" => stage = "setup"
  /\ xact = "out" => stage = "out"
  /\ xact = "status" => stage = "status" /\ Reads(Current)
  /\ stage = "out" => ~Reads(Current)

\* A reset is long enough to free the buffer.
ResetInv ==
  /\ polled \in Nat
  /\ bus = "reset" /\ polled >= 1 => usbRxLen = 0 \/ pc \in BeforeFree
  /\ bus = "reset" /\ polled >= 2 => usbRxLen = 0

\* The stages that the host enters with the buffer free, unless something went wrong.
BufferInv ==
  /\ usbRxLen \in {0} \cup 4 .. 11
  /\ losses \in Nat /\ aborts \in Nat
  /\ losses = 0 /\ aborts = 0 /\ bus = "run" => 
       /\ stage = "setup" => usbRxLen = 0
       /\ stage = "status" /\ Reads(Current) => usbRxLen = 0

SetupInv == StageInv /\ ResetInv /\ BufferInv

LEMMA SetupInit == BusInit => SetupInv
BY DEF BusInit, Init, SetupInv, StageInv, ResetInv, BufferInv

LEMMA SetupStep == SetupInv /\ [BusNext]_busVars => SetupInv'
<1> SUFFICES ASSUME SetupInv, [BusNext]_busVars PROVE SetupInv'
  OBVIOUS
<1> USE DEF SetupInv, StageInv, ResetInv, BufferInv
<1>1. CASE Device
  <2>1. /\ usbRxLen' = usbRxLen \/ usbRxLen' = 0
        /\ pc = "clearAddr" => pc' = "main"
        /\ pc \in BeforeFree => usbRxLen' = 0 \/ pc' \in BeforeFree
    BY <1>1, LoopFrees DEF Device
  <2>2. UNCHANGED <<bus, step, stage, xact, losses, aborts>>
    BY <1>1 DEF Device, budget
  <2>3. polled' = IF pc = "clearAddr" THEN Min2(polled + 1, ResetPolls) ELSE polled
    BY <1>1 DEF Device
  <2>4. StageInv'
    BY <2>2 DEF Reads, Current
  <2>5. BufferInv'
    BY <2>1, <2>2 DEF Reads, Current
  <2>6. ResetInv'
    <3>1. CASE pc = "clearAddr"
      BY <3>1, <2>1, <2>2, <2>3, PollsAssumption DEF Min2, BeforeFree
    <3>2. CASE pc # "clearAddr"
      BY <3>2, <2>1, <2>2, <2>3
    <3> QED BY <3>1, <3>2
  <2> QED BY <2>4, <2>5, <2>6
<1>2. CASE HostReset \/ HostGiveUp
  BY <1>2, PollsAssumption DEF HostReset, HostGiveUp, StartReset, vars, rxVars, localVars, Transferring, budget
<1>3. CASE HostEndReset
  BY <1>3, PollsAssumption DEF HostEndReset, vars, rxVars, localVars, budget, Reads, Current
<1>4. CASE HostAbort
  BY <1>4 DEF HostAbort, StartTransfer, vars, rxVars, localVars, Transferring
<1>5. CASE HostTimeout
  BY <1>5 DEF HostTimeout, Mute, StartTransfer, vars, rxVars, localVars, Transferring, budget
<1>6. CASE HostSetupToken
  BY <1>6, QuietPackets DEF HostSetupToken, HostToken, Packet, Exchange, Lose, notTransfer, vars, rxVars,
     localVars, Transferring, budget, Reads, Current
<1>7. CASE HostSetupData
  <2> DEFINE n == SetupSize + RxOverhead
  <2>1. n = 11
    BY DEF SetupSize, RxOverhead
  <2>2. bus = "run" /\ xact = "setup" /\ stage = "setup"
    BY <1>7 DEF HostSetupData
  <2>3. xact' = "none" /\ UNCHANGED <<bus, polled, step>> /\ stage' \in {stage, AfterSetup(Current)}
    BY <1>7 DEF HostSetupData, Exchange
  <2>4. StageInv'
    BY <2>2, <2>3 DEF AfterSetup, Writes, Reads, Current
  <2>5. usbRxLen' \in {0} \cup 4 .. 11 /\ UNCHANGED pc
    BY <1>7, <2>1, QuietPackets, DataPacketStores DEF HostSetupData, Exchange, vars, rxVars, localVars
  <2>6. losses' \in {losses, losses + 1} /\ aborts' = aborts
    BY <1>7 DEF HostSetupData, Exchange, Lose, budget
  <2>7. ASSUME losses' = 0, aborts' = 0
        PROVE  stage' = "setup" => usbRxLen' = 0
    <3>1. losses = 0 /\ losses' # losses + 1 /\ usbRxLen = 0
      BY <2>2, <2>6, <2>7
    <3>2. CASE DataPacket(Current, n) /\ stage' = IF DataReply = "ACK" THEN AfterSetup(Current) ELSE stage
      BY <3>1, <3>2, <2>2, DataPacketStores DEF DataStored, AfterSetup
    <3>3. CASE UNCHANGED vars
      BY <3>1, <3>3 DEF vars, rxVars
    <3> QED
      BY <1>7, <3>1, <3>2, <3>3 DEF HostSetupData, Exchange, Lose
  <2>8. stage' = "status" => ~Reads(Current)'
    BY <2>2, <2>3 DEF AfterSetup, Writes, Reads, Current
  <2> QED
    BY <2>2, <2>3, <2>4, <2>5, <2>6, <2>7, <2>8
<1>8. CASE HostOutToken \/ HostStatusToken
  BY <1>8, QuietPackets DEF HostOutToken, HostStatusToken, HostToken, Packet, Exchange, Lose,
     notTransfer, vars, rxVars, localVars, Transferring, budget, Reads, Current
<1>9. CASE HostOutData
  <2> DEFINE n == PacketSize + RxOverhead
  <2>1. n = 11
    BY DEF PacketSize, RxOverhead
  <2>2. bus = "run" /\ xact = "out" /\ stage = "out" /\ ~Reads(Current)
    BY <1>9 DEF HostOutData
  <2>3. xact' = "none" /\ UNCHANGED <<bus, polled, step>> /\ stage' \in {stage, "status"}
    BY <1>9 DEF HostOutData, Exchange
  <2>4. usbRxLen' \in {0} \cup 4 .. 11 /\ UNCHANGED pc
    BY <1>9, <2>1, QuietPackets, DataPacketStores DEF HostOutData, Exchange, vars, rxVars, localVars
  <2>5. losses' \in {losses, losses + 1} /\ aborts' = aborts
    BY <1>9 DEF HostOutData, Exchange, Lose, budget
  <2> QED
    BY <2>2, <2>3, <2>4, <2>5 DEF Reads, Current
<1>10. CASE HostStatusData
  <2> DEFINE n == RxOverhead
  <2>1. n = 3
    BY DEF RxOverhead
  <2>2. bus = "run" /\ xact = "status" /\ stage = "status" /\ Reads(Current)
    BY <1>10 DEF HostStatusData
  <2>3. xact' = "none" /\ UNCHANGED <<bus, polled>>
        /\ (stage' = "setup" \/ UNCHANGED <<stage, step>>)
    BY <1>10 DEF HostStatusData, Exchange, Complete, StartTransfer
  <2>4. usbRxLen' = usbRxLen /\ UNCHANGED pc
    BY <1>10, <2>1, QuietPackets, DataPacketStores
    DEF HostStatusData, Exchange, vars, rxVars, localVars, DataStored
  <2>5. losses' \in {losses, losses + 1} /\ aborts' = aborts
    BY <1>10 DEF HostStatusData, Exchange, Lose, budget
  <2> QED
    BY <2>2, <2>3, <2>4, <2>5 DEF Reads, Current
<1>11. CASE HostIn
  <2>1. bus = "run" /\ xact = "none" /\ (stage = "in" \/ (stage = "status" /\ ~Reads(Current)))
    BY <1>11 DEF HostIn, Transferring
  <2>2. xact' \in {"none", "ack"} /\ UNCHANGED <<bus, polled>>
    BY <1>11 DEF HostIn, Exchange
  <2>3. usbRxLen' = usbRxLen /\ UNCHANGED pc
    BY <1>11, QuietPackets DEF HostIn, Exchange, vars, rxVars, localVars
  <2>4. losses' \in {losses, losses + 1} /\ aborts' = aborts
    BY <1>11 DEF HostIn, Exchange, Lose, budget
  <2>5. \/ UNCHANGED <<step, stage>>
        \/ usbRxLen = 0 /\ stage' \in {"in", "status", "setup"}
    BY <1>11 DEF HostIn, Exchange, InReply0, Take, Complete, StartTransfer
  <2> QED
    BY <2>1, <2>2, <2>3, <2>4, <2>5 DEF Reads, Current
<1>12. CASE HostAck
  BY <1>12, QuietPackets DEF HostAck, Packet, Exchange, Lose, notTransfer, vars, rxVars,
     localVars, budget, Reads, Current
<1>13. CASE HostPoll
  <2>1. bus = "run" /\ xact = "none"
    BY <1>13 DEF HostPoll, Configured
  <2>2. xact' \in {"none", "ack"} /\ UNCHANGED <<bus, polled, step, stage>>
    BY <1>13 DEF HostPoll, Exchange
  <2>3. usbRxLen' = usbRxLen /\ UNCHANGED pc
    BY <1>13, QuietPackets DEF HostPoll, Exchange, vars, rxVars, localVars
  <2>4. losses' \in {losses, losses + 1} /\ aborts' = aborts
    BY <1>13 DEF HostPoll, Exchange, Lose, budget
  <2> QED
    BY <2>1, <2>2, <2>3, <2>4 DEF Reads, Current
<1>14. CASE UNCHANGED busVars
  BY <1>14 DEF busVars, vars, rxVars, localVars, hostVars, budget, Reads, Current
<1> QED
  BY <1>1, <1>2, <1>3, <1>4, <1>5, <1>6, <1>7, <1>8, <1>9, <1>10, <1>11, <1>12, <1>13, <1>14
  DEF BusNext, Host

LEMMA SetupHolds == BusSpec => []SetupInv
BY SetupInit, SetupStep, PTL DEF BusSpec

\* "We must not NAK next SETUP" (asmcommon.inc): however long the scripts and however
\* often the bus is reset, a host that gave nothing up finds the buffer free.
THEOREM RequestAlwaysTaken == BusSpec => []SetupNeverNaked
<1>1. SetupInv => SetupNeverNaked
  BY DEF SetupInv, StageInv, BufferInv, SetupNeverNaked, DataReply, USBPID_SETUP
<1> QED
  BY <1>1, SetupHolds, PTL

-----------------------------------------------------------------------------
(* The device on the bus *)

\* The transfer in progress gives the device its address.
Setting == step <= Len(Script) /\ Current.bRequest = "SET_ADDRESS"

\* Which transfer the host is at, and what it took of the reply.
ScriptInv ==
  /\ step \in Nat \ {0} /\ hostAddr \in 0 .. 127 /\ resets \in Nat
  /\ misheard \in BOOLEAN /\ seen \in Seq(SegmentType)
  /\ stage \in {"setup", "in", "out", "status"}
  /\ xact \in {"none", "setup", "out", "status", "ack"}
  /\ stage # "setup" \/ xact = "setup" => step <= Len(Script)
  /\ bus = "reset" => step = 1 /\ hostAddr = 0
  /\ stage = "setup" => seen = <<>> /\ expect = USBPID_DATA1

\* A reset of the bus makes the device forget its address, and it calibrates before
\* it hears the first SETUP.
FreshInv ==
  /\ pc = "clearAddr" => usbNewDeviceAddr = 0
  /\ pc = "calibrate" => wasReset
  /\ bus = "run" /\ pc = "clearAddr" => wasReset
  /\ bus = "reset" /\ polled >= 1 => wasReset /\ pc # "calibrate" /\ usbDeviceAddr = 0
  /\ bus = "reset" /\ polled >= 2 => usbNewDeviceAddr = 0
  /\ bus = "run" /\ wasReset =>
       /\ usbDeviceAddr = 0 /\ usbNewDeviceAddr = 0 /\ usbRxLen = 0
       /\ stage = "setup" /\ step = 1 /\ hostAddr = 0
       /\ xact = "none" \/ (xact = "setup" /\ pc = "calibrate")

\* The token before the data of a transaction was heard, but for that of the first
\* SETUP after a reset.
TokenInv ==
  /\ xact = "setup" /\ usbCurrentTok # USBPID_SETUP =>
       \/ usbCurrentTok = 0
       \/ usbRxLen = 0 /\ usbDeviceAddr = 0 /\ usbNewDeviceAddr = 0 /\ hostAddr = 0
  /\ xact = "out" => usbCurrentTok # USBPID_SETUP
  /\ resets = 0 =>
       /\ ~misheard
       /\ bus = "reset" \/ wasReset => usbCurrentTok = 0
       /\ xact = "setup" => usbCurrentTok # USBPID_OUT

\* A request that waits is the one of the transfer in progress, and the transfer the
\* host thinks in progress is that of the last request, unless it was misheard.
RequestInv ==
  bus = "run" =>
    /\ RequestPending => step <= Len(Script) /\ req = Current /\ ~misheard
    /\ stage # "setup" /\ ~misheard =>
         /\ req = Current
         /\ sent = Len(seen)
         /\ expect = Control!BlockToken(sent)
         /\ \A i \in 1 .. Len(seen) : seen[i] = Control!BlockSegment(Current, i - 1)
         /\ stage = "in" => Reads(Current) /\ Control!HasBlock(Current, sent)
         /\ ~Reads(Current) => seen = <<>>
         /\ stage = "status" /\ Reads(Current) =>
              Total(seen) = Limit(ReplyLength(Current), Current.wLength)

\* The address waiting for the next data packet is the host's, or the one the host is
\* about to use.
AddrInv ==
  bus = "run" =>
    /\ usbDeviceAddr # hostAddr =>
         /\ misheard /\ stage = "setup"
         /\ xact = "setup" => usbCurrentTok = 0
    /\ usbDeviceAddr = hostAddr =>
         \/ usbNewDeviceAddr = hostAddr
         \/ /\ Setting /\ usbNewDeviceAddr = Current.value
            /\ stage # "setup" \/ aborts > 0
            /\ ~misheard
    /\ stage # "setup" /\ ~misheard /\ Setting =>
         \/ usbNewDeviceAddr = Current.value
         \/ RequestPending /\ pc \notin {"rxLimit", "rxFree"}

\* What holds while no packet was lost.
DeviceInv == ControlInv /\ FreshInv /\ TokenInv /\ RequestInv /\ AddrInv
BusInv ==
  /\ TypeInv /\ RequestStable /\ SetupInv /\ ScriptInv
  /\ losses = 0 => DeviceInv

-----------------------------------------------------------------------------
(* Every step of the bus is one of the driver *)

LEMMA CurrentRequest ==
  ASSUME ScriptInv, step <= Len(Script)
  PROVE  /\ Current \in Requests /\ Current \in RequestType
         /\ Current.bRequest = "SET_ADDRESS" => Current.value \in 0 .. 127
<1>1. step \in 1 .. Len(Script) /\ Script \in Seq(Requests)
  BY ScriptAssumption DEF ScriptInv
<1>2. Current \in Requests /\ Current \in RequestType
  BY <1>1, RequestsAssumption DEF Current
<1>3. Current.bRequest = "SET_ADDRESS" => Current.value < 128
  BY <1>1, AddressingAssumption DEF Current
<1>4. Current.value \in Bytes
  BY <1>2 DEF RequestType
<1>5. \A v \in Bytes : v < 128 => v \in 0 .. 127
  BY DEF Bytes
<1> QED
  BY <1>2, <1>3, <1>4, <1>5

LEMMA BusDriver == ScriptInv /\ [BusNext]_busVars => [Driver]_vars
<1> SUFFICES ASSUME ScriptInv, [BusNext]_busVars, ~UNCHANGED vars PROVE Driver
  OBVIOUS
<1>1. CASE Device
  BY <1>1 DEF Device, Driver
<1>2. CASE HostReset \/ HostGiveUp \/ HostEndReset \/ HostAbort \/ HostTimeout
  BY <1>2 DEF HostReset, HostGiveUp, HostEndReset, HostAbort, HostTimeout, StartReset
<1>3. CASE HostSetupToken \/ HostOutToken \/ HostStatusToken \/ HostAck
  <2>1. (\E tok \in {USBPID_SETUP, USBPID_OUT} : SetupOrOutToken(tok, hostAddr)) \/ IgnoredPacket
    BY <1>3 DEF HostSetupToken, HostOutToken, HostStatusToken, HostAck, HostToken, Packet, Exchange
  <2> QED
    BY <2>1 DEF Driver, Heard
<1>4. CASE HostSetupData
  <2>1. Current \in Requests
    BY <1>4, CurrentRequest DEF HostSetupData, ScriptInv
  <2>2. DataPacket(Current, SetupSize + RxOverhead) \/ IgnoredPacket
    BY <1>4 DEF HostSetupData, Exchange
  <2>3. SetupSize + RxOverhead \in 1 .. 11
    BY DEF SetupSize, RxOverhead
  <2> QED
    BY <2>1, <2>2, <2>3 DEF Driver, Heard
<1>5. CASE HostOutData \/ HostStatusData
  <2>1. (\E n \in {PacketSize + RxOverhead, RxOverhead} : DataPacket(Junk, n)) \/ IgnoredPacket
    BY <1>5 DEF HostOutData, HostStatusData, Exchange
  <2>2. {PacketSize + RxOverhead, RxOverhead} \subseteq 1 .. 11
    BY DEF PacketSize, RxOverhead
  <2> QED
    BY <2>1, <2>2 DEF Driver, Heard
<1>6. CASE HostIn \/ HostPoll
  <2>1. InToken0(hostAddr) \/ InToken1(hostAddr) \/ IgnoredPacket
    BY <1>6 DEF HostIn, HostPoll, Exchange
  <2> QED
    BY <2>1 DEF Driver, Heard
<1> QED
  BY <1>1, <1>2, <1>3, <1>4, <1>5, <1>6 DEF BusNext, Host, busVars

LEMMA NothingSeen == <<>> \in Seq(SegmentType)
OBVIOUS

LEMMA ScriptInit == BusInit => ScriptInv
<1> SUFFICES ASSUME BusInit PROVE ScriptInv
  OBVIOUS
<1>1. misheard \in BOOLEAN
  BY DEF BusInit
<1> QED
  BY <1>1, NothingSeen DEF BusInit, ScriptInv

LEMMA ScriptStep == TypeInv /\ StageInv /\ ScriptInv /\ [BusNext]_busVars => ScriptInv'
<1> SUFFICES ASSUME TypeInv, StageInv, ScriptInv, [BusNext]_busVars PROVE ScriptInv'
  OBVIOUS
<1> USE DEF ScriptInv, StageInv
<1>0. step <= Len(Script) /\ Complete => 
        /\ step' = step + 1 /\ stage' = "setup" /\ seen' = <<>> /\ expect' = USBPID_DATA1
        /\ hostAddr' \in 0 .. 127
        /\ seen' \in Seq(SegmentType)
  BY CurrentRequest, NothingSeen DEF Complete, StartTransfer
<1>1. CASE Device
  BY <1>1 DEF Device, budget
<1>2. CASE HostReset \/ HostGiveUp
  <2>1. seen' = <<>> /\ seen' \in Seq(SegmentType)
    BY <1>2, NothingSeen DEF HostReset, HostGiveUp, StartReset
  <2>2. resets' \in Nat /\ misheard' \in BOOLEAN
    BY <1>2 DEF HostReset, HostGiveUp, StartReset, budget
  <2> QED
    BY <1>2, <2>1, <2>2 DEF HostReset, HostGiveUp, StartReset
<1>3. CASE HostEndReset
  BY <1>3 DEF HostEndReset, budget
<1>4. CASE HostAbort \/ HostTimeout
  BY <1>4, NothingSeen DEF HostAbort, HostTimeout, StartTransfer, Transferring, budget
<1>5. CASE HostSetupToken \/ HostOutToken \/ HostStatusToken \/ HostAck
  BY <1>5 DEF HostSetupToken, HostOutToken, HostStatusToken, HostAck, HostToken, Packet,
              Exchange, Lose, notTransfer, Transferring, budget
<1>6. CASE HostSetupData
  <2>1. misheard' \in BOOLEAN
    BY <1>6 DEF HostSetupData
  <2> QED
    BY <1>6, <2>1 DEF HostSetupData, Exchange, Lose, budget, AfterSetup
<1>7. CASE HostOutData
  BY <1>7 DEF HostOutData, Exchange, Lose, budget
<1>8. CASE HostStatusData
  <2>1. step <= Len(Script) /\ UNCHANGED <<bus, misheard>> /\ resets' \in Nat
        /\ xact' = "none"
    BY <1>8 DEF HostStatusData, Exchange, Lose, budget
  <2>2. CASE UNCHANGED <<step, stage, hostAddr, expect, seen>>
    BY <2>1, <2>2
  <2>3. CASE Complete
    BY <1>0, <2>1, <2>3, <1>8 DEF HostStatusData
  <2> QED
    BY <1>8, <2>2, <2>3 DEF HostStatusData, Exchange
<1>9. CASE HostIn
  <2>1. usbTxBuf.seg \in SegmentType
    BY DEF TypeInv, TypeOK
  <2>2. Take(usbTxBuf.seg) => seen' \in Seq(SegmentType)
    BY <2>1 DEF Take
  <2>3. step <= Len(Script) /\ UNCHANGED <<bus, misheard>> /\ resets' \in Nat
        /\ xact' \in {"none", "ack"}
    BY <1>9 DEF HostIn, Exchange, Lose, budget, Transferring
  <2>4. CASE UNCHANGED <<step, stage, hostAddr, expect, seen>>
    BY <2>3, <2>4
  <2>5. CASE stage = "in" /\ Take(usbTxBuf.seg)
    BY <2>2, <2>3, <2>5, <1>9 DEF Take, HostIn, Transferring
  <2>6. CASE Complete
    BY <1>0, <2>3, <2>6, <1>9 DEF HostIn, Transferring
  <2> QED
    BY <1>9, <2>4, <2>5, <2>6 DEF HostIn, Exchange
<1>10. CASE HostPoll
  BY <1>10 DEF HostPoll, Exchange, Lose, budget, Configured
<1>11. CASE UNCHANGED busVars
  BY <1>11 DEF busVars, hostVars, budget
<1> QED
  BY <1>1, <1>2, <1>3, <1>4, <1>5, <1>6, <1>7, <1>8, <1>9, <1>10, <1>11 DEF BusNext, Host

-----------------------------------------------------------------------------
(* What a step does, while no packet is lost *)

transfer == <<bus, step, stage, hostAddr, expect, seen, misheard, budget>>
device == <<pc, wasReset, usbNewDeviceAddr>>
received == <<usbRxLen, usbRxToken, req, sent>>

LEMMA LoopEffect ==
  ASSUME TypeInv, MainLoop
  PROVE  /\ UNCHANGED <<usbCurrentTok, usbRxToken, req, sent>>
         /\ usbRxLen' \in {usbRxLen, 0} /\ (pc # "rxFree" => usbRxLen' = usbRxLen)
         /\ usbDeviceAddr' = IF pc = "clearAddr" THEN 0 ELSE usbDeviceAddr
         /\ wasReset' = IF pc = "clearAddr" THEN TRUE
                        ELSE IF pc = "calibrate" THEN FALSE ELSE wasReset
         /\ usbNewDeviceAddr' =
              IF pc = "line" /\ pc' = "clearAddr" THEN 0
              ELSE IF pc = "rxSetup" /\ usbRxBuf[data].bRequest = "SET_ADDRESS"
              THEN usbRxBuf[data].value ELSE usbNewDeviceAddr
         /\ pc = "rxSetup" => pc' = "rxLimit"
         /\ pc' = "rxLimit" => pc = "rxSetup"
         /\ pc' = "rxFree" => pc = "rxLimit" \/ (pc = "rxProc" /\ (usbRxToken # USBPID_SETUP \/ len # SetupSize))
         /\ pc' = "clearAddr" => pc = "line"
         /\ pc' = "calibrate" => pc = "line" /\ wasReset
         /\ pc \in {"clearAddr", "calibrate"} => pc' = "main"
<1> USE DEF At, Goto, isrOwned, rxVars, addrVars, hist0, notLine, notIntr
<1>1. CASE RxTest \/ RxProc \/ RxAbort
  BY <1>1 DEF RxTest, RxProc, RxAbort
<1>2. CASE RxSetup
  BY <1>2 DEF RxSetup
<1>3. CASE RxLimit \/ RxFree
  BY <1>3 DEF RxLimit, RxFree
<1>4. CASE TxTest \/ usbBuildTxBlock
  BY <1>4 DEF TxTest, usbBuildTxBlock, TxToggle, TxCopy, TxCrc, TxLen
<1>5. CASE LineReset \/ ClearAddr \/ LineIdle \/ Calibrate
  BY <1>5 DEF LineReset, ClearAddr, LineIdle, Calibrate
<1>6. CASE SkipInterrupt \/ \E r \in Reports : SetInterrupt(r)
  BY <1>6 DEF SkipInterrupt, SetInterrupt
<1>7. CASE usbSetInterrupt
  BY <1>7 DEF usbSetInterrupt, IntrTest, IntrToggle, IntrRevoke, IntrCopy, IntrCrc, IntrLen
<1> QED
  BY <1>1, <1>2, <1>3, <1>4, <1>5, <1>6, <1>7 DEF MainLoop, usbPoll, usbProcessRx

LEMMA TokenEffect ==
  ASSUME NEW tok, NEW s, NEW next, HostToken(tok, s, next), losses \in Nat, losses' = losses
  PROVE  /\ bus = "run" /\ step <= Len(Script) /\ xact = "none" /\ stage = s /\ xact' = next
         /\ UNCHANGED <<transfer, polled, device, received, usbDeviceAddr>>
         /\ \/ pc = "calibrate" /\ UNCHANGED usbCurrentTok
            \/ /\ pc # "calibrate"
               /\ usbCurrentTok' = IF hostAddr = usbDeviceAddr THEN tok ELSE 0
<1>1. xact' = next /\ UNCHANGED notTransfer
  BY DEF HostToken, Packet, Exchange
<1>2. SetupOrOutToken(tok, hostAddr) \/ (pc = "calibrate" /\ UNCHANGED vars)
  BY DEF HostToken, Packet, Exchange, Lose, InterruptsEnabled
<1>3. UNCHANGED budget
  BY DEF HostToken, Packet, Exchange, Lose
<1> QED
  BY <1>1, <1>2, <1>3
  DEF HostToken, Transferring, SetupOrOutToken, InterruptsEnabled, notTransfer, transfer, device, received,
      vars, rxVars, localVars, addrVars, hist0

LEMMA SetupDataEffect ==
  ASSUME HostSetupData, losses \in Nat, losses' = losses, TypeInv
  PROVE  /\ bus = "run" /\ xact = "setup" /\ xact' = "none"
         /\ UNCHANGED <<bus, step, hostAddr, expect, seen, budget, polled, device,
                        usbDeviceAddr, usbCurrentTok>>
         /\ \/ UNCHANGED <<stage, misheard, received>>
            \/ /\ pc # "calibrate"
               /\ usbRxLen = 0 /\ usbRxLen' = 11 /\ usbRxToken' = usbCurrentTok
               /\ stage' = AfterSetup(Current)
               /\ usbCurrentTok = USBPID_SETUP /\ ~misheard' /\ req' = Current /\ sent' = 0
            \/ /\ pc # "calibrate"
               /\ usbRxLen = 0 /\ usbRxLen' = 11 /\ usbRxToken' = usbCurrentTok
               /\ stage' = AfterSetup(Current)
               /\ usbCurrentTok = USBPID_OUT /\ misheard' /\ UNCHANGED <<req, sent>>
<1> DEFINE n == SetupSize + RxOverhead
<1>1. n = 11
  BY DEF SetupSize, RxOverhead
<1>2. xact' = "none" /\ UNCHANGED <<bus, polled, step, hostAddr, expect, seen, budget>>
  BY DEF HostSetupData, Exchange, Lose
<1>3. \/ /\ DataPacket(Current, n)
         /\ stage' = IF DataReply = "ACK" THEN AfterSetup(Current) ELSE stage
      \/ UNCHANGED vars /\ stage' = stage
  BY DEF HostSetupData, Exchange, Lose
<1>4. misheard' = IF usbRxLen' = usbRxLen THEN misheard ELSE usbCurrentTok = USBPID_OUT
  BY DEF HostSetupData
<1>5. UNCHANGED <<device, usbDeviceAddr, usbCurrentTok>>
  BY <1>3 DEF DataPacket, device, vars, rxVars, localVars, addrVars
<1>6. CASE DataPacket(Current, n) /\ DataReply = "ACK"
  <2>1. usbRxLen = 0 /\ usbCurrentTok \in {USBPID_SETUP, USBPID_OUT}
    BY <1>6 DEF DataReply, TypeInv, TypeOK
  <2>2. /\ usbRxLen' = 11 /\ usbRxToken' = usbCurrentTok
        /\ usbCurrentTok = USBPID_SETUP => req' = Current /\ sent' = 0
        /\ usbCurrentTok # USBPID_SETUP => UNCHANGED <<req, sent>>
    BY <1>1, <1>6 DEF DataPacket, DataStored, hist0
  <2>3. misheard' = (usbCurrentTok = USBPID_OUT)
    BY <1>4, <2>1, <2>2
  <2>4. USBPID_SETUP # USBPID_OUT
    BY DEF USBPID_SETUP, USBPID_OUT
  <2>5. usbCurrentTok = USBPID_OUT => misheard'
    BY <2>3
  <2>6. usbCurrentTok = USBPID_SETUP => ~misheard'
    BY <2>3, <2>4
  <2>7. stage' = AfterSetup(Current) /\ pc # "calibrate"
    BY <1>3, <1>6, <2>1, <2>2 DEF vars, rxVars, DataPacket, InterruptsEnabled
  <2> QED
    BY <1>2, <1>5, <2>1, <2>2, <2>5, <2>6, <2>7 DEF HostSetupData
<1>7. CASE DataPacket(Current, n) /\ DataReply # "ACK"
  <2>1. UNCHANGED received
    BY <1>7 DEF DataPacket, DataStored, received, hist0
  <2> QED
    BY <1>2, <1>3, <1>4, <1>5, <1>7, <2>1 DEF HostSetupData, received, vars, rxVars
<1>8. CASE UNCHANGED vars /\ stage' = stage
  BY <1>2, <1>4, <1>5, <1>8 DEF HostSetupData, received, vars, rxVars, hist0
<1> QED
  BY <1>3, <1>6, <1>7, <1>8

LEMMA OutDataEffect ==
  ASSUME HostOutData \/ HostStatusData, losses \in Nat, losses' = losses, TypeInv,
         xact = "out" => usbCurrentTok # USBPID_SETUP
  PROVE  /\ bus = "run" /\ xact' = "none"
         /\ UNCHANGED <<bus, misheard, budget, polled, device, usbDeviceAddr, usbCurrentTok,
                        req, sent>>
         /\ \/ UNCHANGED <<usbRxLen, usbRxToken>>
            \/ HostOutData /\ usbRxLen = 0 /\ usbRxLen' = 11 /\ usbRxToken' = USBPID_OUT
<1>1. xact' = "none" /\ UNCHANGED <<bus, polled, misheard, budget>>
  BY DEF HostOutData, HostStatusData, Exchange, Lose
<1>2. \/ HostOutData /\ xact = "out" /\ DataPacket(Junk, PacketSize + RxOverhead)
      \/ DataPacket(Junk, RxOverhead)
      \/ UNCHANGED vars
  BY DEF HostOutData, HostStatusData, Exchange, Lose
<1>3. UNCHANGED <<device, usbDeviceAddr, usbCurrentTok>>
  BY <1>2 DEF DataPacket, device, vars, rxVars, localVars, addrVars
<1>4. CASE HostOutData /\ xact = "out" /\ DataPacket(Junk, PacketSize + RxOverhead)
  <2> DEFINE n == PacketSize + RxOverhead
  <2>1. n = 11 /\ usbCurrentTok \in {0, USBPID_OUT}
    BY <1>4 DEF PacketSize, RxOverhead, TypeInv, TypeOK
  <2>2. UNCHANGED <<req, sent>>
    BY <1>4, <2>1 DEF DataPacket, hist0, USBPID_OUT, USBPID_SETUP
  <2>3. CASE DataStored(n)
    <3>1. usbRxLen = 0 /\ usbCurrentTok = USBPID_OUT
      BY <2>1, <2>3 DEF DataStored, DataReply
    <3> QED
      BY <1>1, <1>3, <1>4, <2>1, <2>2, <2>3, <3>1 DEF HostOutData, DataPacket
  <2>4. CASE ~DataStored(n)
    BY <1>1, <1>3, <1>4, <2>2, <2>4 DEF HostOutData, DataPacket
  <2> QED
    BY <2>3, <2>4
<1>5. CASE DataPacket(Junk, RxOverhead)
  <2>1. ~DataStored(RxOverhead)
    BY DEF DataStored, RxOverhead
  <2>2. UNCHANGED <<usbRxLen, usbRxToken, req, sent>>
    BY <1>5, <2>1 DEF DataPacket, hist0
  <2> QED
    BY <1>1, <1>3, <2>2 DEF HostOutData, HostStatusData
<1>6. CASE UNCHANGED vars
  BY <1>6, <1>1, <1>3 DEF HostOutData, HostStatusData, vars, rxVars, hist0
<1> QED
  BY <1>2, <1>4, <1>5, <1>6

LEMMA InEffect ==
  ASSUME HostIn, losses \in Nat, losses' = losses, usbRxLen \in Nat
  PROVE  /\ bus = "run" /\ step <= Len(Script) /\ xact = "none"
         /\ stage = "in" \/ (stage = "status" /\ ~Reads(Current))
         /\ xact' \in {"none", "ack"}
         /\ UNCHANGED <<bus, misheard, budget, polled, device, usbRxLen, usbRxToken, req>>
         /\ usbCurrentTok' \in {usbCurrentTok, 0}
         /\ \/ UNCHANGED <<transfer, sent, usbDeviceAddr>>
            \/ /\ hostAddr = usbDeviceAddr /\ usbRxLen = 0 /\ ~IsHandshake(usbTxLen)
               /\ sent' = sent + 1 /\ usbDeviceAddr' = usbNewDeviceAddr % 128
               /\ IF usbTxBuf.tok = expect
                  THEN IF stage = "in" THEN Take(usbTxBuf.seg) ELSE Complete
                  ELSE UNCHANGED <<step, stage, hostAddr, expect, seen>>
<1> DEFINE answer == IF InAnswered(hostAddr) THEN InReply0 ELSE "none"
<1>1. /\ xact' \in {"none", "ack"} /\ UNCHANGED <<bus, polled, misheard>>
      /\ UNCHANGED budget
  BY DEF HostIn, Exchange, Lose
<1>2. \/ /\ InToken0(hostAddr)
         /\ IF answer = "DATA" /\ usbTxBuf.tok = expect
            THEN IF stage = "in" THEN Take(usbTxBuf.seg) ELSE Complete
            ELSE UNCHANGED <<step, stage, hostAddr, expect, seen, expect1>>
      \/ UNCHANGED <<vars, step, stage, hostAddr, expect, seen>>
  BY DEF HostIn, Exchange, Lose
<1>3. UNCHANGED <<device, usbRxLen, usbRxToken, req>> /\ usbCurrentTok' \in {usbCurrentTok, 0}
  BY <1>2 DEF InToken0, device, vars, rxVars, localVars, addrVars, hist0
<1>4. CASE InToken0(hostAddr) /\ answer = "DATA"
  <2>1. hostAddr = usbDeviceAddr /\ usbRxLen = 0 /\ ~IsHandshake(usbTxLen)
    BY <1>4 DEF InAnswered, InReply0
  <2>2. sent' = sent + 1 /\ usbDeviceAddr' = usbNewDeviceAddr % 128
    BY <1>4 DEF InToken0, InAnswered, usbSendAndReti
  <2>3. IF usbTxBuf.tok = expect
        THEN IF stage = "in" THEN Take(usbTxBuf.seg) ELSE Complete
        ELSE UNCHANGED <<step, stage, hostAddr, expect, seen>>
    BY <1>4 DEF HostIn, Exchange, Lose, InToken0, vars, hist0, usbSendAndReti
  <2> QED
    BY <1>1, <1>3, <2>1, <2>2, <2>3 DEF HostIn, Transferring
<1>5. CASE \/ InToken0(hostAddr) /\ answer # "DATA"
           \/ UNCHANGED <<vars, step, stage, hostAddr, expect, seen>>
  <2>1. UNCHANGED <<sent, usbDeviceAddr>>
    BY <1>5 DEF InToken0, vars, addrVars, hist0
  <2>2. UNCHANGED <<step, stage, hostAddr, expect, seen>>
    BY <1>2, <1>5
  <2> QED
    BY <1>1, <1>3, <2>1, <2>2 DEF HostIn, Transferring, transfer
<1> QED
  BY <1>2, <1>4, <1>5

LEMMA PollEffect ==
  ASSUME HostPoll \/ HostAck, losses \in Nat, losses' = losses
  PROVE  /\ bus = "run" /\ xact \in {"none", "ack"} /\ xact' \in {"none", "ack"}
         /\ UNCHANGED <<transfer, polled, device, received>>
         /\ usbCurrentTok' \in {usbCurrentTok, 0}
         /\ \/ UNCHANGED usbDeviceAddr
            \/ /\ Configured /\ hostAddr = usbDeviceAddr
               /\ usbDeviceAddr' = usbNewDeviceAddr % 128
         /\ xact = "none" => Configured
<1>1. CASE HostAck
  <2>1. IgnoredPacket \/ UNCHANGED vars
    BY <1>1 DEF HostAck, Packet, Exchange
  <2>2. UNCHANGED <<device, received, usbDeviceAddr>> /\ usbCurrentTok' \in {usbCurrentTok, 0}
    BY <2>1 DEF IgnoredPacket, device, received, vars, rxVars, localVars, addrVars, hist0
  <2> QED
    BY <1>1, <2>2 DEF HostAck, Packet, Exchange, Lose, notTransfer, transfer
<1>2. CASE HostPoll
  <2>1. InToken1(hostAddr) \/ UNCHANGED vars
    BY <1>2 DEF HostPoll, Exchange, Lose
  <2>2. /\ UNCHANGED <<device, received>> /\ usbCurrentTok' \in {usbCurrentTok, 0}
        /\ \/ UNCHANGED usbDeviceAddr
           \/ hostAddr = usbDeviceAddr /\ usbDeviceAddr' = usbNewDeviceAddr % 128
    BY <2>1 DEF InToken1, InAnswered, usbSendAndReti, device, received, vars, rxVars, localVars,
                addrVars, hist0
  <2>3. xact' \in {"none", "ack"} /\ UNCHANGED <<transfer, polled>>
    BY <1>2 DEF HostPoll, Exchange, Lose, transfer
  <2> QED
    BY <1>2, <2>2, <2>3 DEF HostPoll, Configured
<1> QED
  BY <1>1, <1>2

-----------------------------------------------------------------------------
(* The invariants of the device on the bus *)

LEMMA FreshStep ==
  ASSUME TypeInv, RequestStable, SetupInv, ScriptInv, FreshInv, TokenInv,
         [BusNext]_busVars, losses' = losses
  PROVE  FreshInv'
<1>0. /\ losses \in Nat /\ usbRxLen \in Nat
      /\ stage # "setup" => ~(bus = "run" /\ wasReset)
      /\ bus = "run" /\ wasReset => xact \in {"none", "setup"} /\ ~Configured
  BY DEF SetupInv, BufferInv, FreshInv, Configured, TypeInv, TypeOK
<1> USE DEF FreshInv
<1>1. CASE Device
  <2>1. UNCHANGED <<bus, step, stage, xact, hostAddr>>
    BY <1>1 DEF Device
  <2>2. pc = "line" => (pc' = "clearAddr" <=> bus = "reset")
    BY <1>1 DEF Device
  <2>3. polled' = IF pc = "clearAddr" THEN Min2(polled + 1, ResetPolls) ELSE polled
    BY <1>1 DEF Device
  <2>4. usbRxLen = 0 => pc # "rxSetup"
    BY DEF RequestStable, Processing
  <2>5. MainLoop
    BY <1>1 DEF Device
  <2>6. /\ (pc = "clearAddr" => usbNewDeviceAddr = 0)'
        /\ (pc = "calibrate" => wasReset)'
        /\ (bus = "run" /\ pc = "clearAddr" => wasReset)'
    BY <2>1, <2>2, <2>5, LoopEffect
  <2>7. (bus = "reset" /\ polled >= 1 => wasReset /\ pc # "calibrate" /\ usbDeviceAddr = 0)'
    BY <2>1, <2>2, <2>3, <2>5, LoopEffect DEF SetupInv, ResetInv
  <2>8. (bus = "reset" /\ polled >= 2 => usbNewDeviceAddr = 0)'
    <3>1. polled >= 2 /\ bus = "reset" => usbRxLen = 0
      BY DEF SetupInv, ResetInv
    <3> QED
      BY <2>1, <2>2, <2>3, <2>4, <2>5, <3>1, LoopEffect
  <2>9. (bus = "run" /\ wasReset =>
           /\ usbDeviceAddr = 0 /\ usbNewDeviceAddr = 0 /\ usbRxLen = 0
           /\ stage = "setup" /\ step = 1 /\ hostAddr = 0
           /\ xact = "none" \/ (xact = "setup" /\ pc = "calibrate"))'
    BY <2>1, <2>2, <2>4, <2>5, LoopEffect
  <2> QED
    BY <2>6, <2>7, <2>8, <2>9
<1>2. CASE HostReset \/ HostGiveUp
  BY <1>2 DEF HostReset, HostGiveUp, StartReset, vars, rxVars, localVars, addrVars
<1>3. CASE HostEndReset
  <2>1. polled >= 2 /\ bus = "reset" /\ stage = "setup" /\ xact = "none" /\ step = 1 /\ hostAddr = 0
    BY <1>3, PollsAssumption DEF HostEndReset, SetupInv, StageInv, ResetInv, ScriptInv
  <2>2. usbRxLen = 0
    BY <2>1 DEF SetupInv, ResetInv
  <2> QED
    BY <1>3, <2>1, <2>2, PollsAssumption
    DEF HostEndReset, vars, rxVars, localVars, addrVars, SetupInv, ResetInv
<1>4. CASE HostAbort \/ HostTimeout
  BY <1>0, <1>4 DEF HostAbort, HostTimeout, StartTransfer, Transferring, vars, rxVars, localVars, addrVars
<1>5. CASE HostSetupToken
  BY <1>0, <1>5, TokenEffect
  DEF HostSetupToken, Recovered, device, received, transfer
<1>6. CASE HostOutToken \/ HostStatusToken
  BY <1>0, <1>6, TokenEffect DEF HostOutToken, HostStatusToken, device, received, transfer
<1>7. CASE HostSetupData
  BY <1>0, <1>7, SetupDataEffect DEF device, received
<1>8. CASE HostOutData \/ HostStatusData
  <2>1. xact \in {"out", "status"} /\ UNCHANGED <<bus, polled, device, usbDeviceAddr>>
    BY <1>0, <1>8, OutDataEffect DEF HostOutData, HostStatusData, TokenInv
  <2> QED
    BY <1>0, <1>8, <2>1 DEF SetupInv, StageInv, HostOutData, HostStatusData, device
<1>9. CASE HostIn
  BY <1>0, <1>9, InEffect DEF device
<1>10. CASE HostPoll \/ HostAck
  BY <1>0, <1>10, PollEffect DEF device, received, transfer
<1>11. CASE UNCHANGED busVars
  BY <1>11 DEF busVars, vars, rxVars, localVars, addrVars, hostVars
<1> QED
  BY <1>1, <1>2, <1>3, <1>4, <1>5, <1>6, <1>7, <1>8, <1>9, <1>10, <1>11 DEF BusNext, Host

LEMMA TokenStep ==
  ASSUME TypeInv, RequestStable, SetupInv, ScriptInv, FreshInv, TokenInv, AddrInv,
         [BusNext]_busVars, losses' = losses
  PROVE  TokenInv'
<1>0. /\ losses \in Nat /\ usbRxLen \in Nat /\ resets \in Nat
      /\ stage # "setup" => ~(bus = "run" /\ wasReset)
      /\ bus = "run" /\ wasReset => xact \in {"none", "setup"} /\ ~Configured
      /\ USBPID_SETUP # USBPID_OUT /\ USBPID_SETUP # 0 /\ USBPID_OUT # 0
  BY DEF SetupInv, BufferInv, FreshInv, Configured, TypeInv, TypeOK, ScriptInv,
         USBPID_SETUP, USBPID_OUT
<1> USE DEF TokenInv
<1>1. CASE Device
  <2>1. UNCHANGED <<bus, step, stage, xact, hostAddr, resets, misheard>>
    BY <1>1 DEF Device, budget
  <2>2. MainLoop
    BY <1>1 DEF Device
  <2>3. pc = "line" => (pc' = "clearAddr" <=> bus = "reset")
    BY <1>1 DEF Device
  <2>4. usbRxLen = 0 => pc # "rxSetup"
    BY DEF RequestStable, Processing
  <2> QED
    BY <2>1, <2>2, <2>3, <2>4, LoopEffect DEF SetupInv, StageInv, FreshInv
<1>2. CASE HostReset
  BY <1>0, <1>2 DEF HostReset, StartReset, vars, rxVars, ScriptInv
<1>3. CASE HostGiveUp
  <2>1. resets # 0
    BY <1>3 DEF HostGiveUp, Transferring, AddrInv
  <2> QED
    BY <1>3, <2>1 DEF HostGiveUp, StartReset, budget
<1>4. CASE HostEndReset
  <2>1. wasReset
    BY <1>4, PollsAssumption DEF HostEndReset, FreshInv, SetupInv, ResetInv
  <2> QED
    BY <1>4, <2>1 DEF HostEndReset, vars, rxVars, SetupInv, StageInv, budget
<1>5. CASE HostAbort \/ HostTimeout
  BY <1>5 DEF HostAbort, HostTimeout, StartTransfer, vars, rxVars, budget
<1>6. CASE HostSetupToken
  <2>1. wasReset => pc = "calibrate"
    BY <1>6 DEF HostSetupToken, Recovered
  <2>2. pc = "calibrate" => wasReset
    BY DEF FreshInv
  <2> QED
    BY <1>0, <1>6, <2>1, <2>2, TokenEffect
    DEF HostSetupToken, FreshInv, device, received, transfer, budget
<1>7. CASE HostOutToken \/ HostStatusToken
  <2>1. pc # "calibrate" /\ ~wasReset
    BY <1>0, <1>7 DEF HostOutToken, HostStatusToken, HostToken, Transferring, FreshInv
  <2> QED
    BY <1>0, <1>7, <2>1, TokenEffect
    DEF HostOutToken, HostStatusToken, device, received, transfer, budget
<1>8. CASE HostSetupData
  BY <1>0, <1>8, SetupDataEffect DEF device, received, budget
<1>9. CASE HostOutData \/ HostStatusData
  BY <1>0, <1>9, OutDataEffect DEF device, budget
<1>10. CASE HostIn
  BY <1>0, <1>10, InEffect DEF device, budget
<1>11. CASE HostPoll \/ HostAck
  BY <1>0, <1>11, PollEffect DEF device, received, transfer, budget
<1>12. CASE UNCHANGED busVars
  BY <1>12 DEF busVars, vars, rxVars, localVars, addrVars, hostVars, budget
<1> QED
  BY <1>1, <1>2, <1>3, <1>4, <1>5, <1>6, <1>7, <1>8, <1>9, <1>10, <1>11, <1>12 DEF BusNext, Host

LEMMA LimitBelow ==
  ASSUME NEW m \in 0 .. 56, NEW w \in Words
  PROVE  Limit(m, w) <= w /\ w \in Nat
<1>1. w \in Nat
  BY DEF Words
<1> QED
  BY <1>1 DEF Limit

\* The packets of a reply, up to the one that is short or completes wLength, are all of it.
LEMMA ReplyTotal ==
  ASSUME NEW r \in Requests, NEW n \in Nat, Control!HasBlock(r, n),
         NEW s \in Seq(SegmentType), Len(s) = n + 1, s[n + 1] = Control!BlockSegment(r, n)
  PROVE  /\ s[n + 1].len < PacketSize \/ Total(s) >= r.wLength
              => Total(s) = Limit(ReplyLength(r), r.wLength)
         /\ s[n + 1].len >= PacketSize => Control!HasBlock(r, n + 1)
<1> DEFINE l == Limit(ReplyLength(r), r.wLength)
<1>1. ReplyLength(r) \in 0 .. 56 /\ r.wLength \in Words
  BY ReplyType, RequestsAssumption
<1>2. l \in 0 .. 56
  BY <1>1, LimitType
<1>3. l <= r.wLength /\ r.wLength \in Nat
  BY <1>1, LimitBelow
<1>4. Control!Left(r, n) = l - 8 * n /\ Control!Left(r, n) >= 0
      /\ (Control!HasBlock(r, n + 1) <=> l - 8 * (n + 1) >= 0)
  BY SamePackets DEF PacketSize
<1>5. s[n + 1].len = Min2(l - 8 * n, 8)
  BY <1>4, SamePackets DEF Empty, PacketSize, Min2
<1>6. s # <<>>
  OBVIOUS
<1>7. Total(s) = 8 * n + s[n + 1].len
  BY <1>6 DEF Total, PacketSize
<1> HIDE DEF l
<1>8. l \in Nat /\ r.wLength \in Nat
  BY <1>2, <1>3
<1>9. l - 8 * n \in Int
  BY <1>8
<1>10. s[n + 1].len \in Int /\ s[n + 1].len <= 8 /\ s[n + 1].len <= l - 8 * n
       /\ (s[n + 1].len = 8 \/ s[n + 1].len = l - 8 * n)
  BY <1>5, <1>8, <1>9 DEF Min2
<1>11. s[n + 1].len < 8 \/ Total(s) >= r.wLength => Total(s) = l
  BY <1>3, <1>7, <1>8, <1>10
<1>12. s[n + 1].len >= 8 => l - 8 * (n + 1) >= 0
  BY <1>8, <1>10
<1> QED
  BY <1>4, <1>11, <1>12 DEF PacketSize, l

\* Every reply has a first packet, if only an empty one.
LEMMA FirstBlock ==
  ASSUME NEW r \in Requests
  PROVE  Control!HasBlock(r, 0)
<1>1. Control!Left(r, 0) = Limit(ReplyLength(r), r.wLength)
  BY LeftFalls
<1>2. Limit(ReplyLength(r), r.wLength) \in 0 .. 56
  BY RequestsAssumption, ReplyType, LimitType
<1> QED
  BY <1>1, <1>2, SamePackets

\* The host waits in vain only for a device that did not take its request for one.
LEMMA TimeoutMisheard ==
  ASSUME TypeInv, ScriptInv, ControlInv, RequestInv, HostTimeout
  PROVE  misheard
<1> SUFFICES ASSUME ~misheard PROVE FALSE
  OBVIOUS
<1>1. /\ bus = "run" /\ step <= Len(Script) /\ stage # "setup"
      /\ stage = "in" \/ (stage = "status" /\ ~Reads(Current))
      /\ usbRxLen = 0 /\ IsHandshake(usbTxLen) /\ usbMsgLen = USB_NO_MSG
      /\ pc \notin Copying
  BY DEF HostTimeout, Transferring, Mute, Copying
<1>2. ~RequestPending /\ usbTxLen = USBPID_NAK /\ sent \in Nat
  BY <1>1, HandshakeIsNak DEF RequestPending, SetupSize, RxOverhead, TypeInv, TypeOK
<1>3. Remains(sent)
  BY <1>1, <1>2 DEF ControlInv, Serving, Idle
<1>4. req = Current /\ Current \in Requests
  BY <1>1, CurrentRequest DEF RequestInv
<1>5. Control!HasBlock(req, sent)
  <2>1. CASE stage = "in"
    BY <1>1, <1>4, <2>1 DEF RequestInv
  <2>2. CASE stage = "status" /\ ~Reads(Current)
    <3>1. sent = 0
      BY <1>1, <2>2 DEF RequestInv
    <3> QED
      BY <1>4, <3>1, FirstBlock
  <2> QED
    BY <1>1, <2>1, <2>2
<1>6. usbMsgLen = Control!Left(req, sent)
  BY <1>3, <1>5 DEF Remains
<1>7. Control!Left(req, sent) \in Int /\ Control!Left(req, sent) <= 56
  BY <1>2, <1>4, LeftFalls
<1> QED
  BY <1>1, <1>6, <1>7 DEF USB_NO_MSG

\* A device that is configured keeps the address it has.
LEMMA ConfiguredKeeps ==
  ASSUME ScriptInv, Configured
  PROVE  ~Setting
<1>1. PICK i \in 1 .. step - 1 : Script[i].bRequest = "SET_CONFIGURATION"
  BY DEF Configured
<1>2. step <= Len(Script) => i \in 1 .. step /\ step \in 1 .. Len(Script)
  BY ScriptAssumption DEF ScriptInv
<1> QED
  BY <1>1, <1>2, AddressingAssumption DEF Setting, Current

LEMMA RequestKept ==
  ASSUME RequestInv, UNCHANGED <<bus, step, stage, seen, expect, misheard, req, sent>>,
         RequestPending' => RequestPending
  PROVE  RequestInv'
BY DEF RequestInv, Current, Reads, Control!BlockToken, Control!BlockSegment, Control!HasBlock,
       Control!Left

LEMMA StatusDataEffect ==
  ASSUME HostStatusData, losses \in Nat, losses' = losses
  PROVE  \/ UNCHANGED <<step, stage, hostAddr, expect, seen>>
         \/ usbRxLen = 0 /\ Complete
BY DEF HostStatusData, Exchange, Lose, DataReply

LEMMA RequestStep ==
  ASSUME TypeInv, RequestStable, SetupInv, ScriptInv, ControlInv, FreshInv, TokenInv, RequestInv,
         [BusNext]_busVars, losses' = losses
  PROVE  RequestInv'
<1>0. losses \in Nat /\ usbRxLen \in Nat
  BY DEF SetupInv, BufferInv, TypeInv, TypeOK
<1>1. usbRxLen = 0 => ~RequestPending
  BY DEF RequestPending, SetupSize, RxOverhead
<1>2. UNCHANGED <<usbRxLen, usbRxToken>> => (RequestPending' <=> RequestPending)
  BY DEF RequestPending
<1>3. usbRxToken' = USBPID_OUT => ~RequestPending'
  BY DEF RequestPending, USBPID_OUT, USBPID_SETUP
<1>4. CASE Device
  <2>1. UNCHANGED <<bus, step, stage, seen, expect, misheard>> /\ MainLoop
    BY <1>4 DEF Device
  <2>2. usbRxLen' = 0 => ~RequestPending'
    BY DEF RequestPending, SetupSize, RxOverhead
  <2> QED
    BY <1>2, <2>1, <2>2, LoopEffect, RequestKept
<1>5. CASE HostReset \/ HostGiveUp
  BY <1>5 DEF HostReset, HostGiveUp, StartReset, RequestInv
<1>6. CASE HostEndReset
  <2>1. usbRxLen' = 0 /\ stage' = "setup"
    BY <1>6, PollsAssumption DEF HostEndReset, SetupInv, StageInv, ResetInv, vars, rxVars
  <2>2. ~RequestPending'
    BY <2>1 DEF RequestPending, SetupSize, RxOverhead
  <2> QED
    BY <2>1, <2>2 DEF RequestInv
<1>7. CASE HostAbort \/ HostTimeout
  <2>1. UNCHANGED <<bus, step, misheard, usbRxLen, usbRxToken, req>> /\ stage' = "setup"
    BY <1>7 DEF HostAbort, HostTimeout, StartTransfer, vars, rxVars, hist0
  <2> QED
    BY <1>2, <2>1 DEF RequestInv, Current
<1>8. CASE HostSetupToken \/ HostOutToken \/ HostStatusToken
  BY <1>0, <1>2, <1>8, TokenEffect, RequestKept
  DEF HostSetupToken, HostOutToken, HostStatusToken, received, transfer
<1>9. CASE HostSetupData
  <2>1. step <= Len(Script) /\ stage = "setup" /\ seen = <<>> /\ expect = USBPID_DATA1
    BY <1>9 DEF HostSetupData, ScriptInv, SetupInv, StageInv
  <2>2. Current \in Requests
    BY <2>1, CurrentRequest
  <2>3. CASE UNCHANGED <<stage, misheard, received>>
    BY <1>0, <1>2, <1>9, <2>3, SetupDataEffect, RequestKept DEF received
  <2>4. CASE misheard' /\ usbRxToken' = USBPID_OUT
    BY <1>3, <2>4 DEF RequestInv
  <2>5. CASE ~misheard' /\ req' = Current /\ sent' = 0 /\ stage' = AfterSetup(Current)
    <3>1. Current' = Current /\ UNCHANGED <<bus, step, seen, expect>>
      BY <1>0, <1>9, SetupDataEffect DEF Current
    <3>2. Control!BlockToken(0) = USBPID_DATA1
      BY SamePackets
    <3>3. Control!HasBlock(Current, 0)
      BY <2>2, FirstBlock
    <3>4. stage' = "in" => Reads(Current)
      BY <2>5 DEF AfterSetup
    <3>5. stage' = "status" => ~Reads(Current)
      BY <2>5 DEF AfterSetup
    <3>6. Len(seen) = 0
      BY <2>1
    <3> QED
      BY <2>1, <2>5, <3>1, <3>2, <3>3, <3>4, <3>5, <3>6
      DEF RequestInv, Reads, Control!BlockToken, Control!HasBlock, Control!Left
  <2> QED
    BY <1>0, <1>9, <2>3, <2>4, <2>5, SetupDataEffect
<1>10. CASE HostOutData
  <2>1. bus = "run" /\ stage = "out" /\ ~Reads(Current)
    BY <1>10 DEF HostOutData, SetupInv, StageInv
  <2>2. UNCHANGED <<bus, step, seen, expect, misheard>> /\ stage' \in {stage, "status"}
    BY <1>10 DEF HostOutData, Exchange
  <2>3. UNCHANGED <<req, sent>> /\ (RequestPending' => RequestPending)
    BY <1>0, <1>2, <1>3, <1>10, OutDataEffect DEF TokenInv
  <2> QED
    BY <2>1, <2>2, <2>3
    DEF RequestInv, Current, Reads, Control!BlockToken, Control!BlockSegment, Control!HasBlock,
        Control!Left
<1>11. CASE HostStatusData
  <2>1. UNCHANGED <<bus, misheard, req, sent, usbRxLen, usbRxToken>>
    BY <1>0, <1>11, OutDataEffect DEF TokenInv, HostStatusData, HostOutData
  <2>2. CASE UNCHANGED <<step, stage, hostAddr, expect, seen>>
    BY <1>2, <2>1, <2>2, RequestKept
  <2>3. CASE usbRxLen = 0 /\ Complete
    BY <1>1, <1>2, <2>1, <2>3 DEF Complete, StartTransfer, RequestInv
  <2> QED
    BY <1>0, <1>11, <2>2, <2>3, StatusDataEffect
<1>12. CASE HostIn
  <2>1. UNCHANGED <<bus, misheard, usbRxLen, usbRxToken, req>>
    BY <1>0, <1>12, InEffect
  <2>2. CASE UNCHANGED <<transfer, sent>>
    BY <1>2, <2>1, <2>2, RequestKept DEF transfer
  <2>3. CASE usbRxLen = 0 /\ misheard
    BY <1>1, <1>2, <2>1, <2>3 DEF RequestInv
  <2>4. CASE usbRxLen = 0 /\ Complete
    BY <1>1, <1>2, <2>1, <2>4 DEF RequestInv, Complete, StartTransfer
  <2>5. ASSUME usbRxLen = 0, ~IsHandshake(usbTxLen), ~misheard, sent' = sent + 1
        PROVE  /\ usbTxBuf.tok = expect
               /\ stage = "in" /\ Take(usbTxBuf.seg) => RequestInv'
    <3>1. bus = "run" /\ step <= Len(Script) /\ stage # "setup"
      BY <1>0, <1>12, InEffect
    <3>2. Armed /\ sent \in Nat /\ usbTxBuf.seg \in SegmentType
      BY <1>1, <2>5, HandshakeIsNak DEF ControlInv, Serving, TypeInv, TypeOK
    <3>3. req = Current /\ sent = Len(seen) /\ expect = Control!BlockToken(sent)
          /\ (stage = "in" => Reads(Current))
          /\ \A i \in 1 .. Len(seen) : seen[i] = Control!BlockSegment(Current, i - 1)
      BY <2>5, <3>1 DEF RequestInv
    <3>4. usbTxBuf.tok = expect
      BY <3>2, <3>3 DEF Armed
    <3>5. ASSUME stage = "in", Take(usbTxBuf.seg)
          PROVE  RequestInv'
      <4>1. Current \in Requests /\ Current' = Current
        BY <3>1, <3>5, CurrentRequest DEF Take, Current
      <4>2. /\ seen' = Append(seen, usbTxBuf.seg) /\ seen' \in Seq(SegmentType)
            /\ Len(seen') = sent + 1
            /\ seen'[sent + 1] = usbTxBuf.seg
            /\ \A i \in 1 .. sent : seen'[i] = seen[i]
        BY <3>2, <3>3, <3>5 DEF Take, ScriptInv
      <4>3. /\ usbTxBuf.seg = Control!BlockSegment(Current, sent)
            /\ Control!HasBlock(Current, sent)
        BY <3>2, <3>3 DEF Armed
      <4>4. /\ usbTxBuf.seg.len < PacketSize \/ Total(seen') >= Current.wLength
                 => Total(seen') = Limit(ReplyLength(Current), Current.wLength)
            /\ usbTxBuf.seg.len >= PacketSize => Control!HasBlock(Current, sent + 1)
        BY <3>2, <4>1, <4>2, <4>3, ReplyTotal
      <4>5. \A i \in 1 .. Len(seen') : seen'[i] = Control!BlockSegment(Current, i - 1)
        <5>1. sent + 1 - 1 = sent
          BY <3>2
        <5>2. \A i \in 1 .. Len(seen') : i \in 1 .. sent \/ i = sent + 1
          BY <3>2, <4>2
        <5> QED
          BY <3>3, <4>2, <4>3, <5>1, <5>2
      <4>6. expect' = Control!BlockToken(sent + 1)
        BY <3>2, <3>3, <3>5, TokensAlternate DEF Take
      <4>7. stage' = "in" => usbTxBuf.seg.len >= PacketSize
        BY <3>2, <3>5 DEF Take, SegmentType, PacketSize
      <4>8. stage' = "status" => usbTxBuf.seg.len < PacketSize \/ Total(seen') >= Current.wLength
        BY <3>5 DEF Take
      <4>9. stage' \in {"in", "status"}
        BY <3>5 DEF Take
      <4> QED
        BY <1>1, <1>2, <2>1, <2>5, <3>1, <3>3, <3>5, <4>1, <4>2, <4>4, <4>5, <4>6, <4>7, <4>8, <4>9
        DEF RequestInv, Reads, Control!BlockToken, Control!BlockSegment, Control!HasBlock,
            Control!Left
    <3> QED
      BY <3>4, <3>5
  <2> QED
    BY <1>0, <1>12, <2>2, <2>3, <2>4, <2>5, InEffect
<1>13. CASE HostPoll \/ HostAck
  BY <1>0, <1>2, <1>13, PollEffect, RequestKept DEF received, transfer
<1>14. CASE UNCHANGED busVars
  BY <1>2, <1>14, RequestKept DEF busVars, vars, rxVars, hostVars, hist0
<1> QED
  BY <1>4, <1>5, <1>6, <1>7, <1>8, <1>9, <1>10, <1>11, <1>12, <1>13, <1>14 DEF BusNext, Host

LEMMA AddrKept ==
  ASSUME AddrInv, UNCHANGED <<transfer, device, received, usbDeviceAddr>>,
         xact' = "setup" => usbDeviceAddr = hostAddr \/ usbCurrentTok' = 0
  PROVE  AddrInv'
BY DEF AddrInv, RequestPending, Setting, Current, transfer, device, received, budget

LEMMA AddrStep ==
  ASSUME TypeInv, RequestStable, SetupInv, ScriptInv, DeviceInv, [BusNext]_busVars,
         losses = 0, losses' = losses
  PROVE  AddrInv'
<1> USE DEF DeviceInv
<1>0. losses \in Nat /\ usbRxLen \in Nat
  BY DEF SetupInv, BufferInv, TypeInv, TypeOK
<1>1. usbRxLen = 0 => ~RequestPending
  BY DEF RequestPending, SetupSize, RxOverhead
<1>2. bus = "run" /\ stage # "setup" => usbDeviceAddr = hostAddr
  BY DEF AddrInv
<1>3. bus = "run" /\ (misheard \/ ~Setting) /\ usbDeviceAddr = hostAddr => usbNewDeviceAddr = hostAddr
  BY DEF AddrInv
<1>4. CASE Device
  <2>1. UNCHANGED <<bus, step, stage, xact, hostAddr, misheard, aborts>> /\ MainLoop
        /\ (pc = "line" => (pc' = "clearAddr" <=> bus = "reset"))
    BY <1>4 DEF Device, budget
  <2>2. Current' = Current /\ (Setting' <=> Setting)
    BY <2>1 DEF Current, Setting
  <2> SUFFICES ASSUME bus = "run" PROVE AddrInv'
    BY <2>1 DEF AddrInv
  <2>3. usbDeviceAddr' = usbDeviceAddr /\ usbCurrentTok' = usbCurrentTok
    BY <2>1, LoopEffect DEF FreshInv
  <2>4. CASE pc = "rxSetup"
    <3>1. RequestPending /\ usbRxBuf[data] = req /\ usbRxLen > 0
      BY <2>4 DEF ControlInv, RequestStable, Processing
    <3>2. req = Current /\ step <= Len(Script) /\ ~misheard
      BY <3>1 DEF RequestInv
    <3>3. stage # "setup" \/ aborts > 0
      BY <3>1 DEF SetupInv, BufferInv
    <3>4. usbNewDeviceAddr' = IF Setting THEN Current.value ELSE usbNewDeviceAddr
      BY <2>1, <2>4, <3>1, <3>2, LoopEffect DEF Setting
    <3> QED
      BY <2>1, <2>2, <2>3, <3>2, <3>3, <3>4 DEF AddrInv
  <2>5. CASE pc # "rxSetup"
    <3>1. usbNewDeviceAddr' = usbNewDeviceAddr
      BY <2>1, <2>5, LoopEffect
    <3>2. RequestPending /\ pc \notin {"rxLimit", "rxFree"} =>
            RequestPending' /\ pc' \notin {"rxLimit", "rxFree"}
      <4>1. RequestPending => ~(pc = "rxProc" /\ (usbRxToken # USBPID_SETUP \/ len # SetupSize))
        BY DEF ControlInv, RequestPending, SetupSize, RxOverhead
      <4>2. pc # "rxFree" => (RequestPending' <=> RequestPending)
        BY <2>1, LoopEffect DEF RequestPending
      <4> QED
        BY <2>1, <2>5, <4>1, <4>2, LoopEffect
    <3> QED
      BY <2>1, <2>2, <2>3, <3>1, <3>2 DEF AddrInv
  <2> QED
    BY <2>4, <2>5
<1>5. CASE HostReset \/ HostGiveUp
  BY <1>5 DEF HostReset, HostGiveUp, StartReset, AddrInv
<1>6. CASE HostEndReset
  <2>1. usbDeviceAddr = 0 /\ usbNewDeviceAddr = 0 /\ hostAddr = 0 /\ stage = "setup"
    BY <1>6, PollsAssumption
    DEF HostEndReset, FreshInv, ScriptInv, SetupInv, StageInv, ResetInv
  <2> QED
    BY <1>6, <2>1 DEF HostEndReset, AddrInv, vars, addrVars
<1>7. CASE HostAbort
  <2>1. /\ bus = "run" /\ stage # "setup" /\ stage' = "setup" /\ aborts' > 0
        /\ UNCHANGED <<bus, step, misheard, hostAddr, usbDeviceAddr, usbNewDeviceAddr>>
    BY <1>7 DEF HostAbort, Transferring, StartTransfer, SetupInv, BufferInv, vars, addrVars
  <2> QED
    BY <1>2, <2>1 DEF AddrInv, Setting, Current
<1>8. CASE HostTimeout
  <2>1. /\ bus = "run" /\ stage # "setup" /\ stage' = "setup" /\ misheard
        /\ UNCHANGED <<bus, step, misheard, hostAddr, usbDeviceAddr, usbNewDeviceAddr>>
    BY <1>8, TimeoutMisheard DEF HostTimeout, Transferring, StartTransfer, vars, addrVars
  <2> QED
    BY <1>2, <1>3, <2>1 DEF AddrInv
<1>9. CASE HostSetupToken
  <2>1. bus = "run" /\ pc = "calibrate" => usbDeviceAddr = hostAddr
    BY DEF FreshInv
  <2> QED
    BY <1>0, <1>9, <2>1, TokenEffect, AddrKept DEF HostSetupToken
<1>10. CASE HostOutToken \/ HostStatusToken
  <2>1. xact' # "setup" /\ UNCHANGED <<transfer, device, received, usbDeviceAddr>>
    BY <1>0, <1>10, TokenEffect DEF HostOutToken, HostStatusToken
  <2> QED
    BY <2>1, AddrKept
<1>11. CASE HostSetupData
  <2>1. bus = "run" /\ xact = "setup" /\ xact' = "none" /\ step <= Len(Script)
        /\ UNCHANGED <<bus, step, hostAddr, expect, seen, budget, device, usbDeviceAddr>>
    BY <1>0, <1>11, SetupDataEffect DEF ScriptInv
  <2>2. usbCurrentTok \in {USBPID_SETUP, USBPID_OUT} => usbDeviceAddr = hostAddr
    BY <2>1 DEF AddrInv, USBPID_SETUP, USBPID_OUT
  <2>3. CASE UNCHANGED <<stage, misheard, received>>
    BY <2>1, <2>3, AddrKept DEF transfer
  <2>4. CASE /\ usbRxLen = 0 /\ usbRxLen' = 11 /\ usbRxToken' = USBPID_SETUP
             /\ stage' = AfterSetup(Current) /\ usbCurrentTok = USBPID_SETUP /\ ~misheard'
    <3>1. RequestPending'
      BY <2>4 DEF RequestPending, SetupSize, RxOverhead
    <3>2. pc' \notin {"rxLimit", "rxFree"}
      BY <2>1, <2>4 DEF RequestStable, Processing, device
    <3>3. stage' # "setup"
      BY <2>4 DEF AfterSetup
    <3> QED
      BY <2>1, <2>2, <2>4, <3>1, <3>2, <3>3 DEF AddrInv, Setting, Current, device
  <2>5. CASE usbCurrentTok = USBPID_OUT /\ misheard' /\ usbRxLen = 0
    <3>1. usbNewDeviceAddr = hostAddr
      BY <2>1, <2>5 DEF TokenInv, USBPID_OUT, USBPID_SETUP
    <3> QED
      BY <2>1, <2>2, <2>5, <3>1 DEF AddrInv, device
  <2> QED
    BY <1>0, <1>11, <2>3, <2>4, <2>5, SetupDataEffect
<1>12. CASE HostOutData
  <2>1. bus = "run" /\ stage = "out" /\ xact' = "none" /\ stage' \in {"out", "status"}
        /\ UNCHANGED <<bus, step, hostAddr, misheard, aborts, usbDeviceAddr, usbNewDeviceAddr, pc>>
    BY <1>0, <1>12, OutDataEffect
    DEF HostOutData, Exchange, SetupInv, StageInv, TokenInv, device, budget
  <2>2. RequestPending => RequestPending'
    BY <1>0, <1>1, <1>12, OutDataEffect DEF TokenInv, RequestPending
  <2> QED
    BY <2>1, <2>2 DEF AddrInv, Setting, Current
<1>13. CASE HostStatusData
  <2>1. bus = "run" /\ stage = "status" /\ Reads(Current) /\ xact' = "none"
    BY <1>13 DEF HostStatusData, Exchange, SetupInv, StageInv
  <2>2. ~Setting
    BY <2>1 DEF Reads, ReadCodes, Setting
  <2>3. UNCHANGED <<bus, misheard, budget, device, usbDeviceAddr, usbRxLen, usbRxToken, req, sent>>
    BY <1>0, <1>13, OutDataEffect DEF TokenInv, HostStatusData, HostOutData
  <2>4. usbDeviceAddr = hostAddr /\ usbNewDeviceAddr = hostAddr
    BY <1>2, <1>3, <2>1, <2>2
  <2>5. hostAddr' = hostAddr
    BY <1>0, <1>13, <2>1, StatusDataEffect DEF Complete, Reads, ReadCodes
  <2>6. CASE UNCHANGED <<step, stage>>
    BY <2>2, <2>3, <2>4, <2>5, <2>6 DEF AddrInv, Setting, Current, device
  <2>7. CASE stage' = "setup"
    BY <2>3, <2>4, <2>5, <2>7 DEF AddrInv, device
  <2> QED
    BY <1>0, <1>13, <2>6, <2>7, StatusDataEffect DEF Complete, StartTransfer
<1>14. CASE HostIn
  <2>1. bus = "run" /\ step <= Len(Script) /\ stage # "setup" /\ xact' # "setup"
        /\ UNCHANGED <<bus, misheard, budget, device, usbRxLen, usbRxToken>>
    BY <1>0, <1>14, InEffect
  <2>2. CASE UNCHANGED <<transfer, sent, usbDeviceAddr>>
    BY <1>2, <2>1, <2>2 DEF AddrInv, RequestPending, Setting, Current, transfer, device
  <2>3. CASE /\ usbDeviceAddr' = usbNewDeviceAddr % 128
             /\ usbRxLen = 0 /\ ~IsHandshake(usbTxLen)
             /\ IF usbTxBuf.tok = expect
                THEN IF stage = "in" THEN Take(usbTxBuf.seg) ELSE Complete
                ELSE UNCHANGED <<step, stage, hostAddr, expect, seen>>
    <3>1. usbNewDeviceAddr \in 0 .. 127
      BY <1>2, <2>1, CurrentRequest DEF AddrInv, ScriptInv, Setting
    <3>2. usbDeviceAddr' = usbNewDeviceAddr' /\ usbNewDeviceAddr' = usbNewDeviceAddr
      BY <2>1, <2>3, <3>1 DEF device
    <3>3. UNCHANGED <<step, hostAddr>> \/ Complete
      BY <2>3 DEF Take
    <3>4. CASE misheard
      <4>1. usbNewDeviceAddr = hostAddr
        BY <1>2, <1>3, <2>1, <3>4
      <4> QED
        BY <2>1, <3>2, <3>3, <3>4, <4>1 DEF AddrInv, Complete, StartTransfer
    <3>5. CASE ~misheard
      <4>1. usbTxBuf.tok = expect
        BY <1>1, <2>1, <2>3, <3>5, HandshakeIsNak
        DEF ControlInv, Serving, Armed, RequestInv, TypeInv, TypeOK
      <4>2. ~RequestPending /\ ~RequestPending'
        BY <1>1, <2>1, <2>3 DEF RequestPending
      <4>3. CASE stage = "in"
        <5>1. ~Setting /\ Take(usbTxBuf.seg)
          BY <2>1, <2>3, <3>5, <4>1, <4>3 DEF RequestInv, Reads, ReadCodes, Setting
        <5> QED
          BY <1>2, <1>3, <2>1, <3>2, <5>1 DEF AddrInv, Take, Setting, Current
      <4>4. CASE stage # "in"
        <5>1. Complete
          BY <2>3, <4>1, <4>4
        <5>2. usbNewDeviceAddr = IF Setting THEN Current.value ELSE hostAddr
          BY <1>2, <1>3, <2>1, <3>5, <4>2 DEF AddrInv
        <5>3. usbNewDeviceAddr = hostAddr' /\ stage' = "setup"
          BY <2>1, <5>1, <5>2 DEF Complete, StartTransfer, Setting
        <5> QED
          BY <3>2, <5>3 DEF AddrInv
      <4> QED
        BY <4>3, <4>4
    <3> QED
      BY <3>4, <3>5
  <2> QED
    BY <1>0, <1>14, <2>2, <2>3, InEffect
<1>15. CASE HostPoll \/ HostAck
  <2>1. bus = "run" /\ xact' # "setup" /\ UNCHANGED <<transfer, device, received>>
    BY <1>0, <1>15, PollEffect
  <2>2. CASE UNCHANGED usbDeviceAddr
    BY <2>1, <2>2, AddrKept
  <2>3. CASE Configured /\ hostAddr = usbDeviceAddr /\ usbDeviceAddr' = usbNewDeviceAddr % 128
    <3>1. usbNewDeviceAddr = hostAddr /\ hostAddr \in 0 .. 127
      BY <1>3, <2>1, <2>3, ConfiguredKeeps DEF ScriptInv
    <3>2. UNCHANGED usbDeviceAddr
      BY <2>3, <3>1
    <3> QED
      BY <2>1, <3>2, AddrKept
  <2> QED
    BY <1>0, <1>15, <2>2, <2>3, PollEffect
<1>16. CASE UNCHANGED busVars
  <2>1. UNCHANGED <<transfer, device, received, usbDeviceAddr, usbCurrentTok, xact>>
    BY <1>16 DEF busVars, vars, rxVars, localVars, addrVars, hostVars, hist0, transfer, device, received
  <2> QED
    BY <2>1, AddrKept DEF AddrInv, transfer
<1> QED
  BY <1>4, <1>5, <1>6, <1>7, <1>8, <1>9, <1>10, <1>11, <1>12, <1>13, <1>14, <1>15, <1>16
  DEF BusNext, Host

-----------------------------------------------------------------------------
(* What waits as the data of an OUT *)

OutInv ==
  usbRxLen > 0 /\ usbRxToken = USBPID_OUT =>
    usbRxBuf[1 - usbInputBufOffset] = Junk \/ misheard

LEMMA LoopReads ==
  ASSUME MainLoop
  PROVE  UNCHANGED <<usbRxBuf, usbInputBufOffset>>
<1> USE DEF At, Goto, isrOwned, rxVars, notLine, notIntr
<1>1. CASE RxTest \/ usbProcessRx \/ RxFree
  BY <1>1 DEF RxTest, usbProcessRx, RxProc, RxAbort, RxSetup, RxLimit, RxFree
<1>2. CASE TxTest \/ usbBuildTxBlock
  BY <1>2 DEF TxTest, usbBuildTxBlock, TxToggle, TxCopy, TxCrc, TxLen
<1>3. CASE LineReset \/ ClearAddr \/ LineIdle \/ Calibrate
  BY <1>3 DEF LineReset, ClearAddr, LineIdle, Calibrate
<1>4. CASE SkipInterrupt \/ (\E r \in Reports : SetInterrupt(r)) \/ usbSetInterrupt
  BY <1>4 DEF SkipInterrupt, SetInterrupt, usbSetInterrupt, IntrTest, IntrToggle,
              IntrRevoke, IntrCopy, IntrCrc, IntrLen
<1> QED
  BY <1>1, <1>2, <1>3, <1>4 DEF MainLoop, usbPoll

\* Only a packet that is stored changes what waits.
LEMMA WaitingKept ==
  ASSUME TypeInv,
         \/ MainLoop \/ IgnoredPacket \/ UNCHANGED vars
         \/ (\E t, a : SetupOrOutToken(t, a)) \/ (\E a : InToken0(a) \/ InToken1(a))
         \/ (\E b, n : DataPacket(b, n) /\ ~DataStored(n))
  PROVE  /\ usbRxBuf'[1 - usbInputBufOffset'] = usbRxBuf[1 - usbInputBufOffset]
         /\ usbRxToken' = usbRxToken /\ usbRxLen' \in {usbRxLen, 0}
<1> USE DEF TypeInv, TypeOK
<1>1. CASE MainLoop
  BY <1>1, LoopReads, LoopEffect
<1>2. CASE IgnoredPacket \/ UNCHANGED vars
  BY <1>2 DEF IgnoredPacket, Receive, vars, rxVars
<1>3. CASE \E t, a : SetupOrOutToken(t, a)
  BY <1>3 DEF SetupOrOutToken, Receive
<1>4. CASE \E a : InToken0(a) \/ InToken1(a)
  BY <1>4 DEF InToken0, InToken1, Receive
<1>5. CASE \E b, n : DataPacket(b, n) /\ ~DataStored(n)
  BY <1>5 DEF DataPacket, Receive
<1> QED
  BY <1>1, <1>2, <1>3, <1>4, <1>5

LEMMA OutStep == TypeInv /\ OutInv /\ [BusNext]_busVars => OutInv'
<1> SUFFICES ASSUME TypeInv, OutInv, [BusNext]_busVars PROVE OutInv'
  OBVIOUS
<1>0. ASSUME usbRxBuf'[1 - usbInputBufOffset'] = usbRxBuf[1 - usbInputBufOffset],
             usbRxToken' = usbRxToken, usbRxLen' \in {usbRxLen, 0}, misheard' = misheard
      PROVE  OutInv'
  BY <1>0 DEF OutInv
<1>1. CASE Device
  BY <1>0, <1>1, WaitingKept DEF Device
<1>2. CASE HostReset \/ HostGiveUp \/ HostEndReset \/ HostAbort \/ HostTimeout
  BY <1>0, <1>2, WaitingKept DEF HostReset, HostGiveUp, HostEndReset, HostAbort, HostTimeout, StartReset
<1>3. CASE HostSetupToken \/ HostOutToken \/ HostStatusToken \/ HostAck
  <2>1. (\E tok : SetupOrOutToken(tok, hostAddr)) \/ IgnoredPacket \/ UNCHANGED vars
    BY <1>3 DEF HostSetupToken, HostOutToken, HostStatusToken, HostAck, HostToken, Packet, Exchange
  <2>2. misheard' = misheard
    BY <1>3 DEF HostSetupToken, HostOutToken, HostStatusToken, HostAck, HostToken, Packet, Exchange,
                notTransfer
  <2> QED
    BY <1>0, <2>1, <2>2, WaitingKept
<1>4. CASE HostSetupData
  <2> DEFINE n == SetupSize + RxOverhead
  <2>1. DataPacket(Current, n) \/ IgnoredPacket \/ UNCHANGED vars
    BY <1>4 DEF HostSetupData, Exchange
  <2>2. CASE DataPacket(Current, n) /\ DataStored(n)
    <3>1. usbRxLen' # usbRxLen /\ usbRxToken' = usbCurrentTok
      BY <2>2 DEF DataPacket, DataStored, DataReply, SetupSize, RxOverhead
    <3>2. usbCurrentTok = USBPID_OUT => misheard'
      BY <1>4, <3>1 DEF HostSetupData
    <3> QED
      BY <3>1, <3>2 DEF OutInv
  <2>3. CASE (DataPacket(Current, n) /\ ~DataStored(n)) \/ IgnoredPacket \/ UNCHANGED vars
    <3>1. usbRxLen' = usbRxLen
      BY <2>3 DEF DataPacket, IgnoredPacket, vars, rxVars
    <3>2. misheard' = misheard
      BY <1>4, <3>1 DEF HostSetupData
    <3> QED
      BY <1>0, <2>3, <3>2, WaitingKept
  <2> QED
    BY <2>1, <2>2, <2>3
<1>5. CASE HostOutData \/ HostStatusData
  <2>1. misheard' = misheard
    BY <1>5 DEF HostOutData, HostStatusData, Exchange
  <2>2. (\E n : DataPacket(Junk, n)) \/ IgnoredPacket \/ UNCHANGED vars
    BY <1>5 DEF HostOutData, HostStatusData, Exchange
  <2>3. ASSUME NEW n, DataPacket(Junk, n), DataStored(n)
        PROVE  usbRxBuf'[1 - usbInputBufOffset'] = Junk
    BY <2>3 DEF DataPacket, Receive, TypeInv, TypeOK
  <2> QED
    BY <1>0, <2>1, <2>2, <2>3, WaitingKept DEF OutInv
<1>6. CASE HostIn \/ HostPoll
  <2>1. (\E a : InToken0(a) \/ InToken1(a)) \/ IgnoredPacket \/ UNCHANGED vars
    BY <1>6 DEF HostIn, HostPoll, Exchange
  <2>2. misheard' = misheard
    BY <1>6 DEF HostIn, HostPoll, Exchange
  <2> QED
    BY <1>0, <2>1, <2>2, WaitingKept
<1>7. CASE UNCHANGED busVars
  BY <1>0, <1>7, WaitingKept DEF busVars, hostVars
<1> QED
  BY <1>1, <1>2, <1>3, <1>4, <1>5, <1>6, <1>7 DEF BusNext, Host

-----------------------------------------------------------------------------
(* The invariant holds *)

LEMMA LossesCount ==
  ASSUME [BusNext]_busVars
  PROVE  losses' = losses \/ (losses < MaxLoss /\ losses' = losses + 1)
<1>1. CASE \/ Device \/ HostReset \/ HostEndReset \/ HostGiveUp \/ HostAbort \/ HostTimeout
           \/ UNCHANGED busVars
  BY <1>1 DEF Device, HostReset, HostEndReset, HostGiveUp, HostAbort, HostTimeout, busVars, budget
<1>2. CASE HostSetupToken \/ HostOutToken \/ HostStatusToken \/ HostAck
  BY <1>2 DEF HostSetupToken, HostOutToken, HostStatusToken, HostAck, HostToken, Packet, Exchange,
              Lose, budget
<1>3. CASE HostSetupData \/ HostOutData \/ HostStatusData
  BY <1>3 DEF HostSetupData, HostOutData, HostStatusData, Exchange, Lose, budget
<1>4. CASE HostIn \/ HostPoll
  BY <1>4 DEF HostIn, HostPoll, Exchange, Lose, budget
<1> QED
  BY <1>1, <1>2, <1>3, <1>4 DEF BusNext, Host

\* A request that waits is one a host may send: no data is taken for it.
LEMMA WaitingRequest ==
  ASSUME TypeInv, SetupInv, ScriptInv', ControlInv, RequestInv', [BusNext]_busVars, losses' = losses,
         TokenInv
  PROVE  RequestPending' => req' \in Requests
<1>0. losses \in Nat /\ usbRxLen \in Nat
  BY DEF SetupInv, BufferInv, TypeInv, TypeOK
<1> SUFFICES ASSUME RequestPending' PROVE req' \in Requests
  OBVIOUS
<1>1. CASE bus' = "run"
  <2>1. step' <= Len(Script) /\ req' = Script[step'] /\ step' \in Nat \ {0}
    BY <1>1 DEF RequestInv, ScriptInv, Current
  <2>2. step' \in 1 .. Len(Script) /\ Script \in Seq(Requests)
    BY <2>1, ScriptAssumption
  <2> QED
    BY <2>1, <2>2
<1>2. CASE bus' # "run"
  <2>1. Device \/ HostReset \/ HostGiveUp \/ UNCHANGED busVars
    <3>1. (HostSetupToken \/ HostOutToken \/ HostStatusToken) => bus' = "run"
      BY <1>0, TokenEffect DEF HostSetupToken, HostOutToken, HostStatusToken, transfer
    <3>2. (HostSetupData \/ HostOutData \/ HostStatusData) => bus' = "run"
      BY <1>0, SetupDataEffect, OutDataEffect DEF TokenInv
    <3>3. (HostIn \/ HostPoll \/ HostAck) => bus' = "run"
      BY <1>0, InEffect, PollEffect DEF transfer
    <3>4. (HostEndReset \/ HostAbort \/ HostTimeout) => bus' = "run"
      BY DEF HostEndReset, HostAbort, HostTimeout, Transferring
    <3> QED
      BY <1>2, <3>1, <3>2, <3>3, <3>4 DEF BusNext, Host
  <2>2. usbRxLen' \in {usbRxLen, 0} /\ UNCHANGED <<usbRxToken, req>>
    BY <2>1, LoopEffect
    DEF Device, HostReset, HostGiveUp, StartReset, busVars, vars, rxVars, hist0
  <2>3. RequestPending
    BY <2>2 DEF RequestPending, SetupSize, RxOverhead
  <2> QED
    BY <2>2, <2>3 DEF ControlInv
<1> QED
  BY <1>1, <1>2

LEMMA DeviceInit == BusInit => DeviceInv
<1> SUFFICES ASSUME BusInit PROVE DeviceInv
  OBVIOUS
<1>1. Init
  BY DEF BusInit
<1>2. ControlInv
  BY <1>1, ControlInit
<1>3. FreshInv /\ TokenInv
  BY <1>1 DEF BusInit, Init, FreshInv, TokenInv
<1>4. RequestInv /\ AddrInv
  BY DEF BusInit, RequestInv, AddrInv
<1> QED
  BY <1>2, <1>3, <1>4 DEF DeviceInv

LEMMA DeviceStep ==
  ASSUME BusInv, [BusNext]_busVars, losses' = 0
  PROVE  /\ DeviceInv'
         /\ [Control!Next]_(Control!pipe)
<1>1. losses \in Nat
  BY DEF BusInv, SetupInv, BufferInv
<1>2. losses = 0 /\ losses' = losses
  BY <1>1, LossesCount
<1>3. TypeInv /\ RequestStable /\ SetupInv /\ ScriptInv /\ DeviceInv
  BY <1>2 DEF BusInv
<1>4. ControlInv /\ FreshInv /\ TokenInv /\ RequestInv /\ AddrInv
  BY <1>3 DEF DeviceInv
<1>5. FreshInv' /\ TokenInv' /\ RequestInv'
  BY <1>2, <1>3, <1>4, FreshStep, TokenStep, RequestStep
<1>6. AddrInv'
  BY <1>2, <1>3, AddrStep
<1>7. ScriptInv'
  BY <1>3, ScriptStep DEF SetupInv
<1>8. RequestPending' => req' \in Requests
  BY <1>2, <1>3, <1>4, <1>5, <1>7, WaitingRequest
<1>9. ControlInv' /\ [Control!Next]_(Control!pipe)
  BY <1>3, <1>4, <1>8, BusDriver, ControlStep
<1> QED
  BY <1>5, <1>6, <1>9 DEF DeviceInv

LEMMA BusInvariant == BusSpec => []BusInv
<1>1. BusInit => BusInv
  <2>1. BusInit => TypeInv /\ RequestStable
    BY TypeInit DEF BusInit, Init, RequestStable, RequestPending, Processing, SetupSize, RxOverhead
  <2> QED
    BY <2>1, SetupInit, ScriptInit, DeviceInit DEF BusInv
<1>2. BusInv /\ [BusNext]_busVars => BusInv'
  <2> SUFFICES ASSUME BusInv, [BusNext]_busVars PROVE BusInv'
    OBVIOUS
  <2>1. TypeInv' /\ RequestStable' /\ SetupInv' /\ ScriptInv'
    BY BusDriver, TypeStep, StableStep, SetupStep, ScriptStep DEF BusInv, SetupInv
  <2>2. losses' = 0 => DeviceInv'
    BY DeviceStep
  <2> QED
    BY <2>1, <2>2 DEF BusInv
<1> QED
  BY <1>1, <1>2, PTL DEF BusSpec

\* The bytes the host asked for are what it gets, in order and to the end, whatever it
\* gives up and however often it resets the bus: usbMsgLen and usbMsgPtr, which
\* usbProcessRx sets and usbBuildTxBlock moves on, stay in step with its data tokens.
THEOREM HostGetsItsData == BusSpec => []HostDataRight
<1>1. BusInv => HostDataRight
  <2> SUFFICES ASSUME BusInv, losses = 0, Transferring, Reads(Current), ~misheard
               PROVE  HostDataRight
    BY DEF HostDataRight
  <2>1. ScriptInv /\ RequestInv /\ bus = "run"
    BY DEF BusInv, DeviceInv, Transferring
  <2>2. CASE stage = "setup"
    BY <2>1, <2>2 DEF ScriptInv, HostDataRight
  <2>3. CASE stage # "setup"
    BY <2>1, <2>3 DEF RequestInv, HostDataRight
  <2> QED
    BY <2>2, <2>3
<1> QED
  BY <1>1, BusInvariant, PTL

\* usbNewDeviceAddr becomes usbDeviceAddr with the data packet that ends the
\* SET_ADDRESS, and with none before it: host and device change the address together.
THEOREM AddressAgreed == BusSpec => []AddressAgreement
<1>1. BusInv => AddressAgreement
  BY DEF BusInv, DeviceInv, AddrInv, AddressAgreement
<1> QED
  BY <1>1, BusInvariant, PTL

\* What usbProcessRx reads as the data of an OUT was sent as such, but for a request
\* misheard after a second reset or a loss.
THEOREM OutDataGenuine == BusSpec => []OutDataIsData
<1>1. BusInit => OutInv
  BY DEF BusInit, Init, OutInv
<1>2. BusInv /\ OutInv /\ [BusNext]_busVars => OutInv'
  BY OutStep DEF BusInv
<1>3. BusInv /\ OutInv => OutDataIsData
  <2> SUFFICES ASSUME BusInv, OutInv PROVE OutDataIsData
    OBVIOUS
  <2>1. pc = "rxProc" => usbRxLen > 0 /\ data = 1 - usbInputBufOffset
    BY DEF BusInv, RequestStable, Processing
  <2>2. misheard => resets > 0 \/ losses > 0
    BY DEF BusInv, DeviceInv, TokenInv, ScriptInv, SetupInv, BufferInv
  <2> QED
    BY <2>1, <2>2 DEF OutInv, OutDataIsData
<1> QED
  BY <1>1, <1>2, <1>3, BusInvariant, PTL DEF BusSpec

\* On a bus that loses nothing, with any host that keeps the USB rules, endpoint 0
\* implements ControlPipe: no data is taken for a request.
THEOREM ControlOnTheBus == MaxLoss = 0 => (BusSpec => ControlTransfersRight)
<1> SUFFICES ASSUME MaxLoss = 0 PROVE BusSpec => ControlTransfersRight
  OBVIOUS
<1>1. BusInit => losses = 0 /\ Control!Init
  BY ControlInit DEF BusInit
<1>2. BusInv /\ losses = 0 /\ [BusNext]_busVars => (losses = 0)' /\ [Control!Next]_(Control!pipe)
  BY LossesCount, DeviceStep
<1> QED
  BY <1>1, <1>2, BusInvariant, PTL DEF BusSpec, ControlTransfersRight, Control!Spec

-----------------------------------------------------------------------------
(* Reports that do not arrive *)

\* What usbProcessRx works on is the request that waits.
PrepInv ==
  /\ pc = "rxProc" => len = usbRxLen - RxOverhead
  /\ pc \in {"rxAbort", "rxSetup"} => RequestPending

LEMMA PrepStep ==
  ASSUME TypeInv, RequestStable, PrepInv, [Driver]_vars
  PROVE  PrepInv'
<1> USE DEF PrepInv, RequestPending
<1>1. CASE MainLoop
  <2> USE DEF At, Goto, isrOwned, rxVars, notLine, notIntr
  <2>1. CASE RxTest
    BY <2>1 DEF RxTest
  <2>2. CASE usbProcessRx
    BY <2>2 DEF usbProcessRx, RxProc, RxAbort, RxSetup, RxLimit, TypeInv, TypeOK, SetupSize, RxOverhead
  <2>3. CASE RxFree \/ TxTest \/ usbBuildTxBlock
    BY <2>3 DEF RxFree, TxTest, usbBuildTxBlock, TxToggle, TxCopy, TxCrc, TxLen
  <2>4. CASE LineReset \/ ClearAddr \/ LineIdle \/ Calibrate
    BY <2>4 DEF LineReset, ClearAddr, LineIdle, Calibrate
  <2>5. CASE SkipInterrupt \/ (\E r \in Reports : SetInterrupt(r)) \/ usbSetInterrupt
    BY <2>5 DEF SkipInterrupt, SetInterrupt, usbSetInterrupt, IntrTest, IntrToggle,
                IntrRevoke, IntrCopy, IntrCrc, IntrLen
  <2> QED
    BY <1>1, <2>1, <2>2, <2>3, <2>4, <2>5 DEF MainLoop, usbPoll
<1>2. CASE Heard
  <2>1. UNCHANGED <<pc, len>>
    BY <1>2, HandlerEffect DEF localVars
  <2>2. usbRxLen > 0 => UNCHANGED <<usbRxLen, usbRxToken>>
    BY <1>2 DEF Heard, SetupOrOutToken, IgnoredPacket, DataPacket, DataStored, DataReply, InToken0, InToken1
  <2>3. pc \in {"rxProc", "rxAbort", "rxSetup"} => usbRxLen > 0
    BY DEF RequestStable, Processing
  <2> QED
    BY <2>1, <2>2, <2>3
<1>3. CASE UNCHANGED vars
  BY <1>3 DEF vars, rxVars, localVars
<1> QED
  BY <1>1, <1>2, <1>3 DEF Driver

LEMMA ReportStep == TypeInv /\ ReportInv /\ [Driver]_vars => ReportInv'
<1>1. ReportInv /\ UNCHANGED vars => ReportInv'
  BY DEF ReportInv, NoTornReport, Building, NeverRevokes, vars, tx1Vars, localVars
<1> QED
  BY <1>1, ReportInterrupt, ReportMainLoop DEF Driver

\* A script that configures the device once and never selects an interface.
OneConfiguration ==
  /\ \A i \in 1 .. Len(Script) : Script[i].bRequest # "SET_INTERFACE"
  /\ \A i, j \in 1 .. Len(Script) :
       Script[i].bRequest = "SET_CONFIGURATION" /\ Script[j].bRequest = "SET_CONFIGURATION" => i = j

\* No request to select an interface is in the receive buffer.
NoInterface == \A h \in {0, 1} : usbRxBuf[h].bRequest # "SET_INTERFACE"

LEMMA NoInterfaceStep ==
  ASSUME OneConfiguration, TypeInv, ScriptInv, NoInterface, [BusNext]_busVars
  PROVE  NoInterface'
<1>0. Junk.bRequest # "SET_INTERFACE" /\ (step <= Len(Script) => Current.bRequest # "SET_INTERFACE")
  <2>1. step <= Len(Script) => step \in 1 .. Len(Script)
    BY ScriptAssumption DEF ScriptInv
  <2> QED
    BY <2>1 DEF OneConfiguration, Current, Junk
<1>1. ASSUME NEW b, b.bRequest # "SET_INTERFACE", Receive(b)
      PROVE  NoInterface'
  BY <1>1 DEF NoInterface, Receive, TypeInv, TypeOK
<1>2. UNCHANGED usbRxBuf => NoInterface'
  BY DEF NoInterface
<1>3. CASE Device
  BY <1>2, <1>3, LoopReads DEF Device
<1>4. CASE HostReset \/ HostGiveUp \/ HostEndReset \/ HostAbort \/ HostTimeout \/ UNCHANGED busVars
  BY <1>2, <1>4 DEF HostReset, HostGiveUp, HostEndReset, HostAbort, HostTimeout, StartReset, busVars, vars, rxVars
<1>5. CASE HostSetupToken \/ HostOutToken \/ HostStatusToken \/ HostAck
  <2>1. (\E tok : SetupOrOutToken(tok, hostAddr)) \/ IgnoredPacket \/ UNCHANGED vars
    BY <1>5 DEF HostSetupToken, HostOutToken, HostStatusToken, HostAck, HostToken, Packet, Exchange
  <2> QED
    BY <1>0, <1>1, <1>2, <2>1 DEF SetupOrOutToken, IgnoredPacket, vars, rxVars
<1>6. CASE HostSetupData
  <2>1. (\E n : DataPacket(Current, n)) \/ IgnoredPacket \/ UNCHANGED vars
    BY <1>6 DEF HostSetupData, Exchange
  <2>2. step <= Len(Script)
    BY <1>6 DEF HostSetupData, ScriptInv
  <2> QED
    BY <1>0, <1>1, <1>2, <2>1, <2>2 DEF DataPacket, IgnoredPacket, vars, rxVars
<1>7. CASE HostOutData \/ HostStatusData
  <2>1. (\E n : DataPacket(Junk, n)) \/ IgnoredPacket \/ UNCHANGED vars
    BY <1>7 DEF HostOutData, HostStatusData, Exchange
  <2> QED
    BY <1>0, <1>1, <1>2, <2>1 DEF DataPacket, IgnoredPacket, vars, rxVars
<1>8. CASE HostIn \/ HostPoll
  <2>1. (\E a : InToken0(a) \/ InToken1(a)) \/ IgnoredPacket \/ UNCHANGED vars
    BY <1>8 DEF HostIn, HostPoll, Exchange
  <2> QED
    BY <1>0, <1>1, <1>2, <2>1 DEF InToken0, InToken1, IgnoredPacket, vars, rxVars
<1> QED
  BY <1>3, <1>4, <1>5, <1>6, <1>7, <1>8 DEF BusNext, Host

\* The losses and resets allow so many missed reports.
Slack == 2 * losses + resets

\* The report handed over last is not sent yet, or just being handed over.
Loaded ==
  ~IsHandshake(usbTxLen1) \/ pc \in {"intrTest", "intrToggle", "intrCopy", "intrCrc", "intrLen"}

\* The host will take the next packet.
InStep == (usbTxBuf1.tok = expect1) <=> Toggled

\* k reports were sent, and not taken, after the one the host took last.
Round == Cardinality(Reports)
Waiting == IF Loaded THEN 1 ELSE 0
Due(k) == \E m \in Int : report = accepted + k + Waiting + Round * m

\* The reports the host will miss before it takes one, and one more when a
\* configuration may set the token it expects.
Owed(k) == IF InStep THEN k ELSE k + 1
Unset == IF expect1 = USBPID_DATA1 THEN 1 ELSE 0

\* The host configured the device, and the device hears it and goes on doing so.
Settled ==
  /\ Configured
  /\ usbDeviceAddr = hostAddr /\ usbNewDeviceAddr = hostAddr /\ pc # "clearAddr"
  /\ RequestPending => req.bRequest # "SET_ADDRESS"

Room(k) ==
  \/ Owed(k) + Unset <= Slack
  \/ Settled /\ Owed(k) <= Slack

ResyncInv ==
  /\ gap \in Nat /\ gap <= Slack
  /\ accepted \in Reports \cup {NoReport} /\ expect1 \in Tokens
  /\ \E k \in Nat : Due(k) /\ Room(k)

\* No report is lost or handed over twice, as far as the host can tell.
DueKept == \A k \in Nat : Due(k) => Due(k)'

LEMMA RoundNat == Round \in Nat /\ Round > 0 /\ Reports = 1 .. Round
<1>1. Round \in Nat
  BY NumberedAssumption, FS_CardinalityType DEF Round
<1>2. Reports = 1 .. Round /\ Reports # {}
  BY NumberedAssumption, ReportsAssumption DEF Round
<1> QED
  BY <1>1, <1>2

\* Turns of the numbers of reports do not count.
LEMMA ModBound ==
  ASSUME NEW k \in Nat, NEW m \in Int, NEW n \in Nat, n > 0
  PROVE  (k + n * m) % n \in Nat /\ (k + n * m) % n <= k
<1> DEFINE x == k + n * m
           d == x \div n
           r == x % n
<1>1. x \in Int
  OBVIOUS
<1>2. d \in Int
  BY <1>1
<1>3. r \in Nat /\ r < n
  BY <1>1
<1>4. x = n * d + r
  BY <1>1
<1> DEFINE e == d - m
<1>5. k - r = n * e
  BY <1>2, <1>3, <1>4
<1> HIDE DEF d, r, e
<1>6. e \in Int
  BY <1>2 DEF e
<1>7. e < 0 => n * e <= -n
  BY <1>6
<1>8. e >= 0 => n * e >= 0
  BY <1>6
<1>9. r <= k
  BY <1>3, <1>5, <1>6, <1>7, <1>8
<1> QED
  BY <1>3, <1>9 DEF r

LEMMA SlackNat ==
  /\ losses \in Nat /\ resets \in Nat => Slack \in Nat
  /\ losses' \in Nat /\ resets' \in Nat => Slack' \in Nat
BY DEF Slack

LEMMA NextTurn ==
  ASSUME NEW r \in Reports \cup {NoReport}
  PROVE  NextReport(r) \in {r + 1, r + 1 - Round}
BY RoundNat DEF NextReport, NoReport

\* A step that changes nothing between the host and endpoint 1, and does not take
\* room from them.
LEMMA ResyncKept ==
  ASSUME ResyncInv, losses \in Nat, resets \in Nat, losses' \in Nat, resets' \in Nat,
         UNCHANGED <<accepted, gap, expect1>>,
         InStep' <=> InStep, DueKept,
         Slack <= Slack', Settled => Settled' \/ Slack < Slack'
  PROVE  ResyncInv'
<1>1. PICK k \in Nat : Due(k) /\ Room(k)
  BY DEF ResyncInv
<1>2. /\ Slack \in Nat /\ Slack' \in Nat
      /\ Owed(k) \in Nat /\ Unset \in {0, 1}
      /\ Owed(k)' = Owed(k) /\ Unset' = Unset
  <2>1. Slack \in Nat /\ Slack' \in Nat
    BY SlackNat
  <2>2. Owed(k) \in Nat /\ Owed(k)' = Owed(k)
    BY DEF Owed
  <2> QED
    BY <2>1, <2>2 DEF Unset
<1>3. Due(k)'
  BY <1>1 DEF DueKept
<1>4. Room(k)'
  <2>1. CASE Owed(k) + Unset <= Slack
    BY <1>2, <2>1 DEF Room
  <2>2. CASE Settled /\ Owed(k) <= Slack
    BY <1>2, <2>2 DEF Room
  <2> QED
    BY <1>1, <2>1, <2>2 DEF Room
<1>5. gap' \in Nat /\ gap' <= Slack'
  BY <1>2 DEF ResyncInv
<1> QED
  BY <1>3, <1>4, <1>5 DEF ResyncInv

\* The main loop hands over a report and builds its packet.
LEMMA LoopReports ==
  ASSUME TypeInv, ReportInv, ReadyChecked, NoInterface, MainLoop,
         pc = "main" /\ pc' = "intrTest" => report' = NextReport(report),
         expect1 \in Tokens, accepted \in Reports \cup {NoReport},
         UNCHANGED <<expect1, accepted>>
  PROVE  /\ InStep' <=> InStep
         /\ DueKept
<1>0. /\ IsHandshake(usbTxLen1) <=> usbTxLen1 = USBPID_NAK
      /\ IsHandshake(USBPID_NAK)
      /\ ~IsHandshake(ReportSize + TxOverhead)
  BY HandshakeIsNak DEF TypeInv, TypeOK, IsHandshake, USBPID_NAK, ReportSize, TxOverhead
<1>1. ASSUME UNCHANGED <<usbTxBuf1, report>>, Toggled' <=> Toggled, Loaded' <=> Loaded
      PROVE  (InStep' <=> InStep) /\ DueKept
  BY <1>1 DEF InStep, DueKept, Due, Waiting
<1> USE DEF Toggled, Loaded, At, Goto, isrOwned, tx1Vars, notLine, notIntr
<1>2. CASE RxTest \/ RxProc \/ RxAbort \/ RxLimit \/ RxFree
  BY <1>1, <1>2 DEF RxTest, RxProc, RxAbort, RxLimit, RxFree
<1>3. CASE RxSetup
  <2>1. usbRxBuf[data].bRequest # "SET_INTERFACE"
    BY DEF NoInterface, TypeInv, TypeOK
  <2> QED
    BY <1>1, <1>3, <2>1 DEF RxSetup
<1>4. CASE TxTest \/ usbBuildTxBlock
  BY <1>1, <1>4 DEF TxTest, usbBuildTxBlock, TxToggle, TxCopy, TxCrc, TxLen
<1>5. CASE LineReset \/ ClearAddr \/ LineIdle \/ Calibrate \/ SkipInterrupt
  BY <1>1, <1>5 DEF LineReset, ClearAddr, LineIdle, Calibrate, SkipInterrupt
<1>6. CASE \E r \in Reports : SetInterrupt(r)
  <2>1. /\ pc = "main" /\ pc' = "intrTest" /\ UNCHANGED tx1Vars /\ IsHandshake(usbTxLen1)
    BY <1>6 DEF SetInterrupt
  <2>2. ~Loaded /\ Loaded' /\ (Toggled' <=> Toggled)
    BY <2>1
  <2>3. InStep' <=> InStep
    BY <2>1, <2>2 DEF InStep
  <2>4. report' \in {report + 1, report + 1 - Round} /\ report \in Int /\ accepted \in Int
    <3>1. report \in Reports \cup {NoReport}
      BY DEF TypeInv, TypeOK
    <3>2. report \in Int /\ accepted \in Int
      BY <3>1, RoundNat DEF NoReport
    <3> QED
      BY <2>1, <3>1, <3>2, NextTurn
  <2>5. ASSUME NEW k \in Nat, Due(k) PROVE Due(k)'
    <3>1. Waiting = 0 /\ Waiting' = 1
      BY <2>2 DEF Waiting
    <3>2. PICK m \in Int : report = accepted + k + Round * m
      BY <2>4, <2>5, <3>1, RoundNat DEF Due
    <3>3. report' = report + 1 \/ report' = report + 1 - Round
      BY <2>4
    <3>4. CASE report' = report + 1
      <4>1. report' = accepted' + k + Waiting' + Round * m
        BY <2>4, <3>1, <3>2, <3>4, RoundNat
      <4> QED
        BY <4>1 DEF Due, Round
    <3>5. CASE report' = report + 1 - Round
      <4>1. Round * (m - 1) = Round * m - Round
        BY RoundNat
      <4>2. report' = accepted' + k + Waiting' + Round * (m - 1)
        BY <2>4, <3>1, <3>2, <3>5, <4>1, RoundNat
      <4> QED
        BY <4>2 DEF Due, Round
    <3> QED
      BY <3>3, <3>4, <3>5
  <2> QED
    BY <2>3, <2>5 DEF DueKept
<1>7. CASE IntrTest
  BY <1>0, <1>1, <1>7 DEF IntrTest, ReportInv
<1>8. CASE IntrToggle
  <2>1. /\ pc = "intrToggle" /\ pc' = "intrCopy" /\ usbTxLen1' = usbTxLen1
        /\ usbTxBuf1'.tok = OtherToken(usbTxBuf1.tok)
        /\ UNCHANGED report
    BY <1>8 DEF IntrToggle, TypeInv, TypeOK
  <2>2. IsHandshake(usbTxLen1)
    BY <1>0, <2>1 DEF ReportInv, Building
  <2>3. Loaded /\ Loaded' /\ ~Toggled /\ Toggled'
    BY <2>1, <2>2
  <2>4. usbTxBuf1.tok \in Tokens
    BY DEF TypeInv, TypeOK
  <2>5. InStep' <=> InStep
    BY <2>1, <2>3, <2>4 DEF InStep, Tokens, OtherToken, USBPID_DATA0, USBPID_DATA1
  <2>6. Waiting = 1 /\ Waiting' = 1
    BY <2>3 DEF Waiting
  <2> QED
    BY <2>1, <2>5, <2>6 DEF DueKept, Due, Round
<1>9. CASE IntrRevoke
  BY <1>9 DEF IntrRevoke, ReportInv, NeverRevokes
<1>10. CASE IntrCopy \/ IntrCrc \/ IntrLen
  <2>1. /\ pc \in {"intrCopy", "intrCrc", "intrLen"} /\ UNCHANGED report
        /\ usbTxBuf1'.tok = usbTxBuf1.tok
        /\ pc' \in {"intrCrc", "intrLen"} \/ usbTxLen1' = ReportSize + TxOverhead
    BY <1>10 DEF IntrCopy, IntrCrc, IntrLen, usbCrc16Append, TypeInv, TypeOK
  <2>2. Loaded /\ Loaded' /\ Toggled /\ Toggled'
    BY <1>0, <2>1
  <2> QED
    BY <2>1, <2>2 DEF InStep, DueKept, Due, Waiting, Round
<1> QED
  BY <1>2, <1>3, <1>4, <1>5, <1>6, <1>7, <1>8, <1>9, <1>10
  DEF MainLoop, usbPoll, usbProcessRx, usbSetInterrupt

LEMMA DataRequests ==
  ASSUME NEW b, NEW n, DataPacket(b, n)
  PROVE  RequestPending' => (RequestPending /\ req' = req) \/ req' = b
<1>1. CASE DataStored(n)
  BY <1>1 DEF DataPacket, RequestPending
<1>2. CASE ~DataStored(n)
  BY <1>2 DEF DataPacket, RequestPending, hist0
<1> QED
  BY <1>1, <1>2

LEMMA QuietRequests ==
  ASSUME \/ IgnoredPacket \/ UNCHANGED vars
         \/ (\E t, a : SetupOrOutToken(t, a)) \/ (\E a : InToken0(a) \/ InToken1(a))
  PROVE  RequestPending' => RequestPending /\ req' = req
BY DEF IgnoredPacket, SetupOrOutToken, InToken0, InToken1, RequestPending, vars, rxVars, hist0

LEMMA SettledLoop ==
  ASSUME TypeInv, RequestStable, PrepInv, Settled, Device
  PROVE  Settled'
<1>1. /\ MainLoop /\ UNCHANGED <<bus, step, hostAddr>>
      /\ pc = "line" => (pc' = "clearAddr" <=> bus = "reset")
      /\ bus = "run"
  BY DEF Device, Settled, Configured
<1>2. RequestPending' => RequestPending /\ req' = req
  BY <1>1, LoopEffect DEF RequestPending, SetupSize, RxOverhead
<1>3. pc' # "clearAddr" /\ usbDeviceAddr' = usbDeviceAddr
  BY <1>1, LoopEffect DEF Settled
<1>4. usbNewDeviceAddr' = usbNewDeviceAddr
  <2>1. pc = "rxSetup" => usbRxBuf[data] = req /\ req.bRequest # "SET_ADDRESS"
    BY DEF PrepInv, RequestStable, Processing, Settled
  <2> QED
    BY <1>1, <1>3, <2>1, LoopEffect
<1> QED
  BY <1>1, <1>2, <1>3, <1>4 DEF Settled, Configured

\* What the host does elsewhere than on endpoint 1.
LEMMA HostElsewhere ==
  ASSUME TypeInv, ScriptInv, StageInv, [BusNext]_busVars, ~Device, ~HostPoll, ~HostReset, ~HostGiveUp
  PROVE  /\ UNCHANGED <<tx1Vars, pc, report, accepted, gap, resets, usbNewDeviceAddr>>
         /\ usbDeviceAddr' \in {usbDeviceAddr, usbNewDeviceAddr % 128}
         /\ Configured => bus' = "run"
         /\ RequestPending' => \/ RequestPending /\ req' = req
                               \/ req' = Junk
                               \/ step <= Len(Script) /\ req' = Current
         /\ \/ UNCHANGED <<step, hostAddr, expect1>>
            \/ step <= Len(Script) /\ Complete /\ losses' = losses
<1>1. CASE HostEndReset \/ HostAbort \/ HostTimeout \/ UNCHANGED busVars
  <2>1. UNCHANGED vars
    BY <1>1 DEF HostEndReset, HostAbort, HostTimeout, busVars
  <2>2. UNCHANGED <<step, hostAddr, expect1, accepted, gap, resets>> /\ bus' \in {bus, "run"}
    BY <1>1 DEF HostEndReset, HostAbort, HostTimeout, StartTransfer, busVars, hostVars, budget
  <2> QED
    BY <2>1, <2>2, QuietRequests DEF vars, tx1Vars, addrVars, localVars, Configured
<1>2. CASE HostSetupToken \/ HostOutToken \/ HostStatusToken \/ HostAck
  <2>1. (\E tok : SetupOrOutToken(tok, hostAddr)) \/ IgnoredPacket \/ UNCHANGED vars
    BY <1>2 DEF HostSetupToken, HostOutToken, HostStatusToken, HostAck, HostToken, Packet, Exchange
  <2>2. UNCHANGED <<bus, step, hostAddr, expect1, accepted, gap, resets>>
    BY <1>2 DEF HostSetupToken, HostOutToken, HostStatusToken, HostAck, HostToken, Packet, Exchange,
                notTransfer, Lose, budget
  <2>3. UNCHANGED <<tx1Vars, pc, report, usbNewDeviceAddr, usbDeviceAddr>>
    BY <2>1 DEF SetupOrOutToken, IgnoredPacket, vars, addrVars, localVars, tx1Vars
  <2> QED
    BY <2>1, <2>2, <2>3, QuietRequests DEF Configured
<1>3. CASE HostSetupData
  <2>1. (\E n : DataPacket(Current, n)) \/ IgnoredPacket \/ UNCHANGED vars
    BY <1>3 DEF HostSetupData, Exchange
  <2>2. UNCHANGED <<bus, step, hostAddr, expect1, accepted, gap, resets>>
    BY <1>3 DEF HostSetupData, Exchange, Lose, budget
  <2>3. UNCHANGED <<tx1Vars, pc, report, usbNewDeviceAddr, usbDeviceAddr>>
    BY <2>1 DEF DataPacket, IgnoredPacket, vars, addrVars, localVars, tx1Vars
  <2>4. step <= Len(Script)
    BY <1>3 DEF HostSetupData, ScriptInv
  <2> QED
    BY <2>1, <2>2, <2>3, <2>4, QuietRequests, DataRequests DEF Configured
<1>4. CASE HostOutData \/ HostStatusData
  <2>1. (\E n : DataPacket(Junk, n)) \/ IgnoredPacket \/ UNCHANGED vars
    BY <1>4 DEF HostOutData, HostStatusData, Exchange
  <2>2. UNCHANGED <<bus, accepted, gap, resets>>
    BY <1>4 DEF HostOutData, HostStatusData, Exchange, Lose, budget
  <2>3. UNCHANGED <<step, hostAddr, expect1>> \/ (Complete /\ UNCHANGED budget)
    BY <1>4 DEF HostOutData, HostStatusData, Exchange, Lose, DataReply
  <2>4. UNCHANGED <<tx1Vars, pc, report, usbNewDeviceAddr, usbDeviceAddr>>
    BY <2>1 DEF DataPacket, IgnoredPacket, vars, addrVars, localVars, tx1Vars
  <2>5. step <= Len(Script)
    BY <1>4 DEF HostOutData, HostStatusData, ScriptInv, StageInv
  <2> QED
    BY <2>1, <2>2, <2>3, <2>4, <2>5, QuietRequests, DataRequests DEF Configured, budget
<1>5. CASE HostIn
  <2>1. InToken0(hostAddr) \/ IgnoredPacket \/ UNCHANGED vars
    BY <1>5 DEF HostIn, Exchange
  <2>2. UNCHANGED <<bus, accepted, gap, resets>> /\ step <= Len(Script)
    BY <1>5 DEF HostIn, Exchange, Lose, budget, Transferring
  <2>3. UNCHANGED <<step, hostAddr, expect1>> \/ (Complete /\ UNCHANGED budget)
    BY <1>5 DEF HostIn, Exchange, Lose, Take
  <2>4. /\ UNCHANGED <<tx1Vars, pc, report, usbNewDeviceAddr>>
        /\ usbDeviceAddr' \in {usbDeviceAddr, usbNewDeviceAddr % 128}
    BY <2>1 DEF InToken0, usbSendAndReti, IgnoredPacket, vars, addrVars, localVars, tx1Vars
  <2> QED
    BY <2>1, <2>2, <2>3, <2>4, QuietRequests DEF Configured, budget
<1> QED
  BY <1>1, <1>2, <1>3, <1>4, <1>5 DEF BusNext, Host

LEMMA ConfiguredOn ==
  Configured /\ bus' = "run" /\ step \in Nat /\ step' \in {step, step + 1} => Configured'
<1> SUFFICES ASSUME Configured, bus' = "run", step \in Nat, step' = step \/ step' = step + 1
             PROVE  Configured'
  OBVIOUS
<1>1. PICK i \in 1 .. step - 1 : Script[i].bRequest = "SET_CONFIGURATION"
  BY DEF Configured
<1>2. 1 .. step - 1 \subseteq 1 .. step' - 1
  <2>1. 1 .. step - 1 \subseteq 1 .. (step + 1) - 1
    OBVIOUS
  <2> QED
    BY <2>1
<1> QED
  BY <1>1, <1>2 DEF Configured

\* A configured device is given no other address, whatever is lost and given up.
LEMMA SettledKept ==
  ASSUME Settled, ScriptInv, ScriptInv',
         pc' = pc, usbNewDeviceAddr' = usbNewDeviceAddr,
         usbDeviceAddr' \in {usbDeviceAddr, usbNewDeviceAddr % 128}, bus' = "run",
         RequestPending' => \/ RequestPending /\ req' = req
                            \/ req' = Junk
                            \/ step <= Len(Script) /\ req' = Current,
         UNCHANGED <<step, hostAddr>> \/ (step <= Len(Script) /\ Complete)
  PROVE  Settled'
<1>1. ~Setting
  BY ConfiguredKeeps DEF Settled
<1>2. hostAddr' = hostAddr /\ step' \in {step, step + 1} /\ step \in Nat
  BY <1>1 DEF Complete, StartTransfer, Setting, ScriptInv
<1>3. Configured'
  BY <1>2, ConfiguredOn DEF Settled
<1>4. hostAddr % 128 = hostAddr
  BY DEF ScriptInv
<1>5. usbDeviceAddr' = hostAddr' /\ usbNewDeviceAddr' = hostAddr' /\ pc' # "clearAddr"
  BY <1>2, <1>4 DEF Settled
<1>6. RequestPending' => req'.bRequest # "SET_ADDRESS"
  BY <1>1 DEF Settled, Setting, Junk
<1> QED
  BY <1>3, <1>5, <1>6 DEF Settled

\* While nothing is lost and the bus is not reset again, a configured device is settled.
LEMMA SettledNow ==
  ASSUME BusInv, losses = 0, resets = 0, Configured
  PROVE  Settled
<1>1. ScriptInv /\ FreshInv /\ TokenInv /\ RequestInv /\ AddrInv
  BY DEF BusInv, DeviceInv
<1>2. ~Setting /\ bus = "run" /\ ~misheard
  BY <1>1, ConfiguredKeeps DEF Configured, TokenInv
<1>3. usbDeviceAddr = hostAddr /\ usbNewDeviceAddr = hostAddr
  BY <1>1, <1>2 DEF AddrInv
<1>4. pc # "clearAddr"
  <2>1. step # 1
    BY DEF Configured
  <2> QED
    BY <1>1, <1>2, <2>1 DEF FreshInv
<1>5. RequestPending => req.bRequest # "SET_ADDRESS"
  BY <1>1, <1>2 DEF RequestInv, Setting
<1> QED
  BY <1>3, <1>4, <1>5 DEF Settled

LEMMA PollReports ==
  ASSUME HostPoll
  PROVE  /\ Configured
         /\ UNCHANGED <<bus, step, hostAddr, pc, report, usbTxBuf1, usbNewDeviceAddr, resets>>
         /\ usbDeviceAddr' \in {usbDeviceAddr, usbNewDeviceAddr % 128}
         /\ RequestPending' => RequestPending /\ req' = req
         /\ \/ UNCHANGED <<usbTxLen1, accepted, gap, expect1>>
            \/ /\ ~IsHandshake(usbTxLen1) /\ usbTxLen1' = USBPID_NAK
               /\ \/ losses' = losses + 1 /\ UNCHANGED <<accepted, gap, expect1>>
                  \/ /\ losses' = losses /\ usbTxBuf1.tok # expect1
                     /\ UNCHANGED <<accepted, gap, expect1>>
                  \/ /\ losses' = losses /\ usbTxBuf1.tok = expect1
                     /\ accepted' = usbTxBuf1.data /\ gap' = Missed(usbTxBuf1.data)
                     /\ expect1' = OtherToken(expect1)
<1> DEFINE answer == IF InAnswered(hostAddr) THEN InReply1 ELSE "none"
           Took(a) == IF a = "DATA" /\ usbTxBuf1.tok = expect1
                      THEN /\ accepted' = usbTxBuf1.data
                           /\ gap' = Missed(usbTxBuf1.data)
                           /\ expect1' = OtherToken(expect1)
                      ELSE UNCHANGED <<accepted, gap, expect1>>
<1>1. /\ Configured /\ UNCHANGED <<bus, step, hostAddr, resets>>
      /\ InToken1(hostAddr) \/ IgnoredPacket \/ UNCHANGED vars
  BY DEF HostPoll, Exchange, Lose, budget
<1>2. /\ UNCHANGED <<pc, report, usbTxBuf1, usbNewDeviceAddr>>
      /\ usbDeviceAddr' \in {usbDeviceAddr, usbNewDeviceAddr % 128}
  BY <1>1 DEF InToken1, usbSendAndReti, IgnoredPacket, vars, localVars, tx1Vars, addrVars
<1>3. RequestPending' => RequestPending /\ req' = req
  BY <1>1, QuietRequests
<1>4. \/ InToken1(hostAddr) /\ Took(answer) /\ losses' = losses
      \/ InToken1(hostAddr) /\ Took("none") /\ losses' = losses + 1
      \/ UNCHANGED usbTxLen1 /\ Took("none")
  BY DEF HostPoll, Exchange, Lose, budget, IgnoredPacket, vars, tx1Vars
<1>5. Took("none") => UNCHANGED <<accepted, gap, expect1>>
  OBVIOUS
<1>6. CASE InAnswered(hostAddr) /\ InReply1 = "DATA"
  <2>1. InToken1(hostAddr) => ~IsHandshake(usbTxLen1) /\ usbTxLen1' = USBPID_NAK
    BY <1>6 DEF InToken1, InReply1
  <2> QED
    BY <1>1, <1>2, <1>3, <1>4, <1>5, <1>6, <2>1
<1>7. CASE ~(InAnswered(hostAddr) /\ InReply1 = "DATA")
  <2>1. InToken1(hostAddr) => UNCHANGED usbTxLen1
    BY <1>7 DEF InToken1
  <2>2. Took(answer) => UNCHANGED <<accepted, gap, expect1>>
    BY <1>7
  <2> QED
    BY <1>1, <1>2, <1>3, <1>4, <1>5, <2>1, <2>2
<1> QED
  BY <1>6, <1>7

\* The packet that is sent is that of the last report, and none is loaded then.
LEMMA SendingReport ==
  ASSUME TypeInv, ReportInv, ReadyChecked,
         ~IsHandshake(usbTxLen1), usbTxLen1' = USBPID_NAK, UNCHANGED <<pc, report, usbTxBuf1>>
  PROVE  /\ Loaded /\ Toggled /\ ~Loaded' /\ ~Toggled'
         /\ usbTxBuf1.data = report
<1>1. IsHandshake(USBPID_NAK)
  BY DEF IsHandshake, USBPID_NAK
<1>2. pc \notin {"intrTest", "intrToggle", "intrRevoke", "intrCopy", "intrCrc", "intrLen"}
  BY <1>1 DEF ReportInv, Building, NeverRevokes
<1> QED
  BY <1>1, <1>2 DEF Loaded, Toggled, ReportInv, NoTornReport

LEMMA ReportsAreInts ==
  /\ TypeInv => report \in Int
  /\ ResyncInv => accepted \in Int
<1>1. \A r \in Reports \cup {NoReport} : r \in Int
  BY RoundNat DEF NoReport
<1> QED
  BY <1>1 DEF TypeInv, TypeOK, ResyncInv

\* A report that is sent and not taken is one more that the host will miss.
LEMMA DueMore ==
  ASSUME NEW k \in Nat, Due(k), Loaded, ~Loaded', UNCHANGED <<report, accepted>>,
         report \in Int, accepted \in Int
  PROVE  Due(k + 1)'
<1>1. Waiting = 1 /\ Waiting' = 0
  BY DEF Waiting
<1>2. PICK m \in Int : report = accepted + k + 1 + Round * m
  BY <1>1 DEF Due
<1>3. report = accepted + (k + 1) + 0 + Round * m
  BY <1>2, RoundNat
<1>4. report' = accepted' + (k + 1) + Waiting' + Round * m
  BY <1>1, <1>3
<1> QED
  BY <1>4 DEF Due, Round

\* The reports missed before the one the host takes are those it owed.
LEMMA GapBound ==
  ASSUME NEW k \in Nat, Due(k), Loaded, report \in Int, accepted \in Int
  PROVE  Missed(report) \in Nat /\ Missed(report) <= k
<1>1. Waiting = 1
  BY DEF Waiting
<1>2. PICK m \in Int : report = accepted + k + 1 + Round * m
  BY <1>1 DEF Due
<1>3. report - accepted - 1 = k + Round * m
  BY <1>2, RoundNat
<1>4. (k + Round * m) % Round \in Nat /\ (k + Round * m) % Round <= k
  BY RoundNat, ModBound
<1> QED
  BY <1>3, <1>4 DEF Missed, Round

LEMMA OwedRoom ==
  ASSUME NEW k \in Nat, Room(k), losses \in Nat, resets \in Nat
  PROVE  /\ Owed(k) \in {k, k + 1} /\ Unset \in {0, 1} /\ Slack \in Nat
         /\ Owed(k) <= Slack /\ k <= Slack
<1>1. Owed(k) \in {k, k + 1} /\ Unset \in {0, 1} /\ Slack \in Nat
  BY SlackNat DEF Owed, Unset
<1>2. Owed(k) <= Slack
  BY <1>1 DEF Room
<1> QED
  BY <1>1, <1>2

\* The host polls endpoint 1: nothing is sent, or a packet is lost, or dropped as its
\* token was seen before, or taken.
LEMMA ResyncPoll ==
  ASSUME TypeInv, ReportInv, ReadyChecked, ResyncInv, HostPoll,
         losses \in Nat, resets \in Nat,
         Settled => Settled', losses = 0 /\ resets = 0 => Settled
  PROVE  ResyncInv'
<1>1. PICK k \in Nat : Due(k) /\ Room(k)
  BY DEF ResyncInv
<1>2. /\ Owed(k) \in {k, k + 1} /\ Unset \in {0, 1} /\ Slack \in Nat
      /\ Owed(k) <= Slack /\ k <= Slack
  BY <1>1, OwedRoom
<1>3. /\ report \in Int /\ accepted \in Int /\ expect1 \in Tokens /\ usbTxBuf1.tok \in Tokens
      /\ gap \in Nat /\ gap <= Slack /\ accepted \in Reports \cup {NoReport}
  BY ReportsAreInts DEF ResyncInv, TypeInv, TypeOK
<1>4. UNCHANGED <<pc, report, usbTxBuf1, resets>>
  BY PollReports
<1>5. CASE UNCHANGED <<usbTxLen1, accepted, gap, expect1>>
  <2>1. InStep' <=> InStep
    BY <1>4, <1>5 DEF InStep, Toggled
  <2>2. Waiting' = Waiting
    BY <1>4, <1>5 DEF Waiting, Loaded
  <2>3. DueKept
    BY <1>4, <1>5, <2>2 DEF DueKept, Due, Round
  <2>4. losses' = losses \/ losses' = losses + 1
    BY LossesCount, <1>5 DEF HostPoll, Exchange, Lose, budget
  <2>5. losses' \in Nat /\ resets' \in Nat /\ Slack <= Slack'
    BY <1>4, <2>4 DEF Slack
  <2> QED
    BY <1>5, <2>1, <2>3, <2>5, ResyncKept
<1>6. CASE ~IsHandshake(usbTxLen1) /\ usbTxLen1' = USBPID_NAK
  <2>1. /\ Loaded /\ Toggled /\ ~Loaded' /\ ~Toggled'
        /\ usbTxBuf1.data = report
    BY <1>4, <1>6, SendingReport
  <2>2. InStep <=> usbTxBuf1.tok = expect1
    BY <2>1 DEF InStep
  <2>3. CASE losses' = losses + 1 /\ UNCHANGED <<accepted, gap, expect1>>
    <3>1. InStep' <=> ~InStep
      BY <1>4, <2>1, <2>2, <2>3 DEF InStep
    <3>2. Owed(k + 1)' = IF InStep THEN k + 2 ELSE k + 1
      BY <3>1 DEF Owed
    <3>3. Owed(k + 1)' \in {k + 1, k + 2} /\ Owed(k + 1)' <= Owed(k) + 2
      BY <3>2 DEF Owed
    <3>4. Slack' = Slack + 2 /\ Unset' = Unset
      BY <1>4, <2>3 DEF Slack, Unset
    <3>5. Due(k + 1)'
      BY <1>1, <1>3, <1>4, <2>1, <2>3, DueMore
    <3>6. Room(k + 1)'
      <4>1. CASE Owed(k) + Unset <= Slack
        BY <1>2, <3>3, <3>4, <4>1 DEF Room
      <4>2. CASE Settled /\ Owed(k) <= Slack
        BY <1>2, <3>3, <3>4, <4>2 DEF Room
      <4> QED
        BY <1>1, <4>1, <4>2 DEF Room
    <3>7. gap' \in Nat /\ gap' <= Slack'
      BY <1>2, <1>3, <2>3, <3>4
    <3> QED
      BY <1>3, <2>3, <3>5, <3>6, <3>7 DEF ResyncInv
  <2>4. CASE losses' = losses /\ usbTxBuf1.tok # expect1 /\ UNCHANGED <<accepted, gap, expect1>>
    <3>1. ~InStep /\ InStep'
      BY <1>4, <2>1, <2>2, <2>4 DEF InStep
    <3>2. Owed(k + 1)' = Owed(k)
      BY <3>1 DEF Owed
    <3>3. Slack' = Slack /\ Unset' = Unset
      BY <1>4, <2>4 DEF Slack, Unset
    <3>4. Due(k + 1)'
      BY <1>1, <1>3, <1>4, <2>1, <2>4, DueMore
    <3>5. Room(k + 1)'
      BY <1>1, <3>2, <3>3 DEF Room
    <3> QED
      BY <1>3, <2>4, <3>3, <3>4, <3>5 DEF ResyncInv
  <2>5. CASE /\ losses' = losses /\ usbTxBuf1.tok = expect1
             /\ accepted' = usbTxBuf1.data /\ gap' = Missed(usbTxBuf1.data)
             /\ expect1' = OtherToken(expect1)
    <3>1. expect1' \in Tokens /\ usbTxBuf1.tok # expect1'
      BY <1>3, <2>5 DEF Tokens, OtherToken, USBPID_DATA0, USBPID_DATA1
    <3>2. InStep'
      BY <1>4, <2>1, <3>1 DEF InStep
    <3>3. Owed(0)' = 0 /\ Unset' \in {0, 1} /\ Slack' = Slack
      BY <1>4, <2>5, <3>2 DEF Owed, Unset, Slack
    <3>4. Due(0)'
      <4>1. Waiting' = 0
        BY <2>1 DEF Waiting
      <4>2. report' = accepted' + 0 + 0 + Round * 0
        BY <1>3, <1>4, <2>1, <2>5, RoundNat
      <4> QED
        BY <4>1, <4>2 DEF Due, Round
    <3>5. Room(0)'
      <4>1. CASE Slack = 0
        <5>1. losses = 0 /\ resets = 0
          BY <4>1 DEF Slack
        <5> QED
          BY <3>3, <4>1, <5>1 DEF Room
      <4>2. CASE Slack # 0
        BY <1>2, <3>3, <4>2 DEF Room
      <4> QED
        BY <4>1, <4>2
    <3>6. gap' \in Nat /\ gap' <= Slack'
      <4>1. Missed(report) \in Nat /\ Missed(report) <= k
        BY <1>1, <1>3, <2>1, GapBound
      <4> QED
        BY <1>2, <2>1, <2>5, <3>3, <4>1
    <3>7. accepted' \in Reports \cup {NoReport}
      BY <2>5 DEF TypeInv, TypeOK
    <3> QED
      BY <3>1, <3>4, <3>5, <3>6, <3>7 DEF ResyncInv
  <2> QED
    BY <1>5, <2>3, <2>4, <2>5, PollReports
<1> QED
  BY <1>5, <1>6, PollReports

\* The only transfer whose end changes the token expected on endpoint 1 is the one that
\* configures the device.
LEMMA ResyncComplete ==
  ASSUME OneConfiguration, ScriptInv, ResyncInv, step <= Len(Script), Complete,
         TypeInv, UNCHANGED <<tx1Vars, pc, report, accepted, gap, resets, losses>>,
         losses \in Nat, resets \in Nat, Settled => Settled'
  PROVE  ResyncInv'
<1>1. PICK k \in Nat : Due(k) /\ Room(k)
  BY DEF ResyncInv
<1>2. /\ Toggled' <=> Toggled
      /\ Waiting' = Waiting /\ Slack' = Slack
  BY DEF Toggled, Waiting, Loaded, Slack, tx1Vars
<1>3. DueKept
  BY <1>2 DEF DueKept, Due, Round
<1>4. CASE expect1' = expect1
  <2>1. InStep' <=> InStep
    BY <1>2, <1>4 DEF InStep, tx1Vars
  <2>2. losses' \in Nat /\ resets' \in Nat /\ Slack <= Slack'
    BY <1>2, SlackNat
  <2> QED
    BY <1>3, <1>4, <2>1, <2>2, ResyncKept
<1>5. CASE expect1' # expect1
  <2>1. /\ Current.bRequest = "SET_CONFIGURATION"
        /\ expect1 = USBPID_DATA1 /\ expect1' = USBPID_DATA0
    BY <1>5 DEF Complete, ResyncInv, Tokens
  <2>2. ~Configured
    <3> SUFFICES ASSUME Configured PROVE FALSE
      OBVIOUS
    <3>1. PICK i \in 1 .. step - 1 : Script[i].bRequest = "SET_CONFIGURATION"
      BY DEF Configured
    <3>2. i \in 1 .. Len(Script) /\ step \in 1 .. Len(Script) /\ i # step
      BY ScriptAssumption DEF ScriptInv
    <3> QED
      BY <2>1, <3>1, <3>2 DEF OneConfiguration, Current
  <2>3. Owed(k) + Unset <= Slack
    BY <1>1, <2>2 DEF Room, Settled
  <2>4. Owed(k) \in Nat /\ Owed(k)' \in {k, k + 1} /\ Slack \in Nat
    BY SlackNat DEF Owed
  <2>5. Unset = 1 /\ Unset' = 0
    BY <2>1 DEF Unset, USBPID_DATA0, USBPID_DATA1
  <2>6. Owed(k)' <= Owed(k) + 1
    BY <2>4 DEF Owed
  <2>7. Owed(k)' + Unset' <= Slack'
    BY <1>2, <2>3, <2>4, <2>5, <2>6
  <2>8. Due(k)' /\ Room(k)'
    BY <1>1, <1>3, <2>7 DEF DueKept, Room
  <2>9. expect1' \in Tokens
    BY <2>1 DEF Tokens
  <2> QED
    BY <1>2, <2>8, <2>9 DEF ResyncInv
<1> QED
  BY <1>4, <1>5

\* A reset of the bus, which costs a report at most, or none when the device did not
\* hear the host anyway.
LEMMA ResyncReset ==
  ASSUME ResyncInv, losses \in Nat, resets \in Nat, HostReset \/ HostGiveUp
  PROVE  ResyncInv'
<1>1. UNCHANGED <<vars, expect1, accepted, gap, losses>>
  BY DEF HostReset, HostGiveUp, StartReset, budget
<1>2. resets' = resets + 1 \/ (resets' = resets /\ ~Settled)
  BY DEF HostReset, HostGiveUp, budget, Settled
<1>3. (InStep' <=> InStep) /\ Waiting' = Waiting
  BY <1>1 DEF InStep, Toggled, Waiting, Loaded, vars, tx1Vars, localVars
<1>4. DueKept
  BY <1>1, <1>3 DEF DueKept, Due, Round, vars, localVars
<1>5. losses' \in Nat /\ resets' \in Nat /\ Slack <= Slack' /\ (Slack < Slack' \/ ~Settled)
  BY <1>1, <1>2 DEF Slack
<1> QED
  BY <1>1, <1>3, <1>4, <1>5, ResyncKept

LEMMA ResyncStep ==
  ASSUME ReadyChecked, OneConfiguration, BusInv, PrepInv, ReportInv, NoInterface, ResyncInv,
         ScriptInv', [BusNext]_busVars
  PROVE  ResyncInv'
<1>1. /\ TypeInv /\ RequestStable /\ ScriptInv /\ StageInv
      /\ losses \in Nat /\ resets \in Nat
  BY DEF BusInv, SetupInv, BufferInv, ScriptInv
<1>2. CASE Device
  <2>1. /\ MainLoop /\ UNCHANGED <<expect1, accepted, gap, losses, resets>>
        /\ pc = "main" /\ pc' = "intrTest" => report' = NextReport(report)
    BY <1>2 DEF Device, budget
  <2>2. (InStep' <=> InStep) /\ DueKept
    BY <1>1, <2>1, LoopReports DEF ResyncInv
  <2>3. losses' \in Nat /\ resets' \in Nat /\ Slack' = Slack /\ Slack \in Nat
    BY <1>1, <2>1, SlackNat DEF Slack
  <2>4. Settled => Settled'
    BY <1>1, <1>2, SettledLoop
  <2> QED
    BY <1>1, <2>1, <2>2, <2>3, <2>4, ResyncKept
<1>3. CASE HostReset \/ HostGiveUp
  BY <1>1, <1>3, ResyncReset
<1>4. CASE HostPoll
  <2>1. Settled => Settled'
    BY <1>1, <1>4, PollReports, SettledKept DEF Configured
  <2>2. losses = 0 /\ resets = 0 => Settled
    BY <1>4, PollReports, SettledNow
  <2> QED
    BY <1>1, <1>4, <2>1, <2>2, ResyncPoll
<1>5. CASE ~Device /\ ~HostPoll /\ ~HostReset /\ ~HostGiveUp
  <2>1. /\ UNCHANGED <<tx1Vars, pc, report, accepted, gap, resets, usbNewDeviceAddr>>
        /\ usbDeviceAddr' \in {usbDeviceAddr, usbNewDeviceAddr % 128}
        /\ Configured => bus' = "run"
        /\ RequestPending' => \/ RequestPending /\ req' = req
                              \/ req' = Junk
                              \/ step <= Len(Script) /\ req' = Current
        /\ \/ UNCHANGED <<step, hostAddr, expect1>>
           \/ step <= Len(Script) /\ Complete /\ losses' = losses
    BY <1>1, <1>5, HostElsewhere
  <2>2. Settled => Settled'
    BY <1>1, <2>1, SettledKept DEF Settled
  <2>3. CASE UNCHANGED <<step, hostAddr, expect1>>
    <3>1. (InStep' <=> InStep) /\ Waiting' = Waiting
      BY <2>1, <2>3 DEF InStep, Toggled, Waiting, Loaded, tx1Vars
    <3>2. DueKept
      BY <2>1, <3>1 DEF DueKept, Due, Round
    <3>3. losses' = losses \/ losses' = losses + 1
      BY LossesCount
    <3>4. losses' \in Nat /\ resets' \in Nat /\ Slack <= Slack'
      BY <1>1, <2>1, <3>3 DEF Slack
    <3> QED
      BY <1>1, <2>1, <2>2, <2>3, <3>1, <3>2, <3>4, ResyncKept
  <2>4. CASE step <= Len(Script) /\ Complete /\ losses' = losses
    BY <1>1, <2>1, <2>2, <2>4, ResyncComplete
  <2> QED
    BY <2>1, <2>3, <2>4
<1> QED
  BY <1>2, <1>3, <1>4, <1>5

LEMMA ResyncInit ==
  BusInit => PrepInv /\ ReportInv /\ NoInterface /\ ResyncInv
<1> SUFFICES ASSUME BusInit PROVE PrepInv /\ ReportInv /\ NoInterface /\ ResyncInv
  OBVIOUS
<1>1. Init /\ losses = 0 /\ resets = 0 /\ gap = 0 /\ accepted = NoReport /\ expect1 = USBPID_DATA0
  BY DEF BusInit
<1>2. IsHandshake(USBPID_NAK)
  BY DEF IsHandshake, USBPID_NAK
<1>3. PrepInv /\ NoInterface
  BY <1>1 DEF Init, PrepInv, NoInterface, Junk
<1>4. ReportInv
  BY <1>1, <1>2 DEF Init, ReportInv, NoTornReport, Building, NeverRevokes
<1>5. ~Loaded /\ InStep
  BY <1>1, <1>2 DEF Init, Loaded, InStep, Toggled, USBPID_DATA0, USBPID_DATA1
<1>6. Due(0)
  <2>1. Waiting = 0 /\ report = 0 /\ accepted = 0
    BY <1>1, <1>5 DEF Waiting, Init, NoReport
  <2>2. report = accepted + 0 + Waiting + Round * 0
    BY <2>1, RoundNat
  <2> QED
    BY <2>2 DEF Due
<1>7. Owed(0) = 0 /\ Unset = 0 /\ Slack = 0
  BY <1>1, <1>5 DEF Owed, Unset, Slack, USBPID_DATA0, USBPID_DATA1
<1>8. Room(0)
  BY <1>7 DEF Room
<1> QED
  BY <1>1, <1>3, <1>4, <1>6, <1>7, <1>8 DEF ResyncInv, Tokens

\* However many packets are lost and however often the bus is reset, the host takes the
\* reports in order, and each loss makes it miss at most two: the one that was
\* sent, and the next, which usbSetInterrupt gives the token the host saw before.  A
\* reset costs one, as nothing in the driver sets the token of endpoint 1 to DATA0
\* when the host configures it again.
THEOREM ReportsInOrder == ReadyChecked /\ OneConfiguration => (BusSpec => []ReportsResync)
<1> SUFFICES ASSUME ReadyChecked, OneConfiguration
             PROVE  BusSpec => []ReportsResync
  OBVIOUS
<1>1. BusInit => PrepInv /\ ReportInv /\ NoInterface /\ ResyncInv
  BY ResyncInit
<1>2. ASSUME BusInv, BusInv', PrepInv, ReportInv, NoInterface, ResyncInv, [BusNext]_busVars
      PROVE  PrepInv' /\ ReportInv' /\ NoInterface' /\ ResyncInv'
  <2>1. TypeInv /\ RequestStable /\ ScriptInv /\ ScriptInv' /\ [Driver]_vars
    BY <1>2, BusDriver DEF BusInv
  <2>2. PrepInv' /\ ReportInv'
    BY <1>2, <2>1, PrepStep, ReportStep
  <2>3. NoInterface'
    BY <1>2, <2>1, NoInterfaceStep
  <2>4. ResyncInv'
    BY <1>2, <2>1, ResyncStep
  <2> QED
    BY <2>2, <2>3, <2>4
<1>3. ResyncInv => ReportsResync
  BY DEF ResyncInv, ReportsResync, Slack
<1> QED
  BY <1>1, <1>2, <1>3, BusInvariant, PTL DEF BusSpec
=============================================================================
