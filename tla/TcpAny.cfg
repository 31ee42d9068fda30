\* Every behaviour of users and network the model knows.
CONSTANTS
  MaxSends = 5
  MaxReads = 1
  Garbage = {0, 7}
  Env = {"move", "writeError", "sendAfterClose", "doubleClose", "onClose"}
SPECIFICATION Spec
INVARIANTS TypeOK InOrder
PROPERTY QuietAfterClose
CHECK_DEADLOCK FALSE
