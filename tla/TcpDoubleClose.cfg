\* Close requests of the application and of the peer, from either side.
CONSTANTS
  MaxSends = 2
  MaxReads = 0
  Garbage = {0}
  Env = {"doubleClose"}
SPECIFICATION Spec
INVARIANT HandleCloseAssert
CHECK_DEADLOCK FALSE
