\* Packets are lost or garbled, and the bus is reset once more.
SPECIFICATION FairBusSpec
CONSTANTS
  Requests <- EnumerationRequests
  Script <- ShortEnumeration
  Reports = {1, 2, 3, 4, 5, 6, 7}
  Addresses = {1}
  PacketLens = {3, 11}
  ReadyChecked = TRUE
  MaxLoss = 2
  MaxAbort = 0
  MaxReset = 1
  ResetPolls = 2
INVARIANT ReportsResync
PROPERTY Enumerated
