\* Every way to cut the peer's frames into reads; the application only listens.
CONSTANTS
  Traffic <- TidyTraffic
  Early = FALSE
  OnMessage = TRUE
  CloseCodes = {1000, 1001}
  SendLengths = {125}
  MaxSends = 0
  Calls = {}
SPECIFICATION FairSpec
INVARIANTS ControlDataApart
PROPERTIES Prompt DecodeReturns ImplementsReceiver
CHECK_DEADLOCK FALSE
