\* Endpoint 0 against a host that sends any packet at any time, and an application
\* that overwrites reports without asking usbInterruptIsReady.
SPECIFICATION Spec
CONSTANTS
  Requests <- ControlRequests
  Reports = {1}
  Addresses = {1}
  PacketLens = {3, 4, 11}
  ReadyChecked = FALSE
INVARIANTS TypeOK NoStaleOrTornReply RequestStable ResetForgetsAddress NoTornReport
PROPERTY ControlTransfersRight
