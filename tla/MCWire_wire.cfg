\* Every receiver and transmitter that is modelled.
SPECIFICATION FairSpec
CONSTANTS
  Clocks <- AllClocks
  Pids <- FirstBytes
  Contents <- Runs
  MaxBytes = 12
INVARIANTS PacketsWhole AnswersWhole StoresFit
PROPERTIES Delivered HandlerReturns
