------------------------------ MODULE UsbDefs ------------------------------
(***************************************************************************)
(* What the modules of the USB side share: the constants of usbdrv.h and   *)
(* usbconfig.h, setup requests, and what the driver replies to each.       *)
(***************************************************************************)
EXTENDS Integers

USBPID_DATA0 == 195
USBPID_DATA1 == 75
USBPID_NAK == 90
USBPID_SETUP == 45
USBPID_OUT == 225
USB_NO_MSG == 255
USB_FLG_MSGPTR_IS_ROM == 64
SetupSize == 8      \* a setup packet's data
RxOverhead == 3     \* PID and CRC, counted in usbRxLen
TxOverhead == 4     \* sync byte, PID and CRC, counted in usbTxLen
PacketSize == 8
ReportSize == 2     \* sizeof(snes_report_t)

Tokens == {USBPID_DATA0, USBPID_DATA1}
OtherToken(t) == IF t = USBPID_DATA0 THEN USBPID_DATA1 ELSE USBPID_DATA0

\* usbTxLen & 0x10: lengths are at most 12, every handshake has bit 4 set
IsHandshake(n) == (n \div 16) % 2 = 1

\* Length of every descriptor the driver knows; 0 is "not available".
DescriptorLength ==
  [device |-> 18, config |-> 34, string0 |-> 4, vendor |-> 44, product |-> 56,
   serial |-> 0, hid |-> 9, report |-> 27, unknown |-> 0]
Descriptors == DOMAIN DescriptorLength

\* bRequest of the standard requests; NON_STANDARD is a request whose type bits
\* say class or vendor, OTHER a standard one the driver has no case for.
RequestCodes ==
  {"GET_STATUS", "SET_ADDRESS", "GET_DESCRIPTOR", "GET_CONFIGURATION",
   "SET_CONFIGURATION", "GET_INTERFACE", "SET_INTERFACE", "OTHER", "NON_STANDARD"}
Bytes == 0 .. 255
Words == 0 .. 65535
RequestType ==
  [bRequest : RequestCodes, desc : Descriptors, value : Bytes, wLength : Words]
\* Bytes that are no setup request: a token, or the data of an OUT.
Junk == [bRequest |-> "JUNK", desc |-> "unknown", value |-> 0, wLength |-> 0]
NoReport == 0         \* no report; reports are numbered from 1

\* The content of a packet is a segment: len bytes of an object from off on.
Objects == Descriptors \cup {"none", "txbuf9", "usbConfiguration", "garbage"}
Empty == [obj |-> "none", off |-> 0, len |-> 0]
NoPacket == [tok |-> 0, seg |-> Empty]

Min2(a, b) == IF a < b THEN a ELSE b

-----------------------------------------------------------------------------
(* What a request is answered with. *)

\* usbFunctionSetup, usbDriverSetup: the object replied from, and its length.
ReplyObject(r) ==
  CASE r.bRequest = "GET_DESCRIPTOR" -> r.desc
    [] r.bRequest = "GET_CONFIGURATION" -> "usbConfiguration"
    [] OTHER -> "txbuf9"

ReplyLength(r) ==
  CASE r.bRequest = "GET_STATUS" -> 2
    [] r.bRequest = "GET_DESCRIPTOR" -> DescriptorLength[r.desc]
    [] r.bRequest \in {"GET_CONFIGURATION", "GET_INTERFACE"} -> 1
    [] OTHER -> 0

\* usbProcessRx: only a wLength below 256 limits the reply.
Limit(n, wLength) == IF wLength < 256 /\ n > wLength THEN wLength ELSE n
=============================================================================
