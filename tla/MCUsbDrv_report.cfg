\* Endpoint 1 against the same host, and the progress of the main loop.
SPECIFICATION FairSpec
CONSTANTS
  Requests <- ReportRequests
  Reports = {1, 2}
  Addresses = {1}
  PacketLens = {3, 11}
  ReadyChecked = TRUE
INVARIANT NeverRevokes
PROPERTIES ReportsRight RxBufferFreed RequestAnswered
