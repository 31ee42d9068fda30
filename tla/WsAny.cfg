\* Every call of the application and a peer that goes on after a close frame.
CONSTANTS
  Traffic <- RudeTraffic
  Early = TRUE
  OnMessage = TRUE
  CloseCodes = {1000, 1001}
  SendLengths = {125}
  MaxSends = 2
  Calls = {"sendMessage", "ping", "longPing", "close", "sendAfterClose"}
SPECIFICATION Spec
INVARIANTS TypeOK
PROPERTIES ClosedIsQuiet
CHECK_DEADLOCK FALSE
