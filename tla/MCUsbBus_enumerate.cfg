\* The bus is reset at any moment and the host enumerates the device again.
SPECIFICATION FairBusSpec
CONSTANTS
  Requests <- EnumerationRequests
  Script <- Enumeration
  Reports = {1, 2, 3, 4}
  Addresses = {1}
  PacketLens = {3, 11}
  ReadyChecked = TRUE
  MaxLoss = 0
  MaxAbort = 1
  MaxReset = 1
  ResetPolls = 2
INVARIANTS SetupNeverNaked HostDataRight AddressAgreement OutDataIsData
PROPERTY ReportsFlow
