\* A ping with a payload outside a message.
CONSTANTS
  Traffic <- PingThenMessage
  Early = FALSE
  OnMessage = TRUE
  CloseCodes = {1000, 1001}
  SendLengths = {125}
  MaxSends = 0
  Calls = {}
SPECIFICATION Spec
INVARIANTS ControlDataApart
CHECK_DEADLOCK FALSE
