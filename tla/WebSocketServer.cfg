SPECIFICATION Spec
CONSTANTS
  MaxConns = 2
  MaxWrites = 1
INVARIANTS
  MapsAgree
  SendDiesOf
  FreedWithWrites
PROPERTIES
  Released
CHECK_DEADLOCK FALSE
