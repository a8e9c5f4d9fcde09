------------------------------ MODULE MCUsbDrv ------------------------------
(* Requests for the runs of UsbDrv: replies of one, two and three packets,  *)
(* one that fills its packets exactly, and the requests that write state.   *)
EXTENDS UsbDrv

Request(code, desc, value, wLength) ==
  [bRequest |-> code, desc |-> desc, value |-> value, wLength |-> wLength]

GetDevice == Request("GET_DESCRIPTOR", "device", 0, 64)
GetDevice8 == Request("GET_DESCRIPTOR", "device", 0, 8)
GetSerial == Request("GET_DESCRIPTOR", "serial", 0, 256)
GetStatus == Request("GET_STATUS", "unknown", 0, 2)
SetAddress == Request("SET_ADDRESS", "unknown", 1, 0)
SetInterface == Request("SET_INTERFACE", "unknown", 0, 0)
SetReport == Request("NON_STANDARD", "unknown", 0, 8)
GetConfiguration == Request("GET_CONFIGURATION", "unknown", 0, 1)

ControlRequests == {GetDevice, GetDevice8, GetStatus, SetAddress}
ReportRequests == {SetInterface, GetDevice8}
=============================================================================
