\* The application, which has no message callback, sends and closes between reads.
CONSTANTS
  Traffic <- QuietTraffic
  Early = TRUE
  OnMessage = FALSE
  CloseCodes = {1000, 1001}
  SendLengths = {126, 65535, 65536}
  MaxSends = 2
  Calls = {"sendMessage", "ping", "longPing", "close"}
SPECIFICATION Spec
 
PROPERTIES NothingAfterError ReceivesFrames
CHECK_DEADLOCK FALSE
