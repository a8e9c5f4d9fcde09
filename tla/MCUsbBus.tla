------------------------------ MODULE MCUsbBus ------------------------------
(* The transfers of an enumeration, for the runs of UsbBus.                 *)
EXTENDS UsbBus

Request(code, desc, value, wLength) ==
  [bRequest |-> code, desc |-> desc, value |-> value, wLength |-> wLength]

GetDevice8 == Request("GET_DESCRIPTOR", "device", 0, 8)
GetDevice == Request("GET_DESCRIPTOR", "device", 0, 64)
GetConfig == Request("GET_DESCRIPTOR", "config", 0, 9)
SetAddress == Request("SET_ADDRESS", "unknown", 1, 0)
SetConfiguration == Request("SET_CONFIGURATION", "unknown", 1, 0)
SetReport == Request("NON_STANDARD", "unknown", 0, 8)

Enumeration == <<GetDevice8, SetAddress, SetConfiguration, SetReport, GetDevice>>
EnumerationRequests == {Enumeration[i] : i \in 1 .. Len(Enumeration)}
ShortEnumeration == <<GetDevice, SetAddress, SetConfiguration>>
=============================================================================
