SPECIFICATION Spec
CONSTANTS
  MaxThreads = 2
  MaxCalls = 2
  MaxConns = 3
INVARIANTS
  LoopNotNull
  Balanced
PROPERTIES
  CallsReturn
  Served
CHECK_DEADLOCK FALSE
