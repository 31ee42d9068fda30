\* Copying sends, writes that succeed, one close request: the discipline the
\* write path is written for.  The application may install onClose.
CONSTANTS
  MaxSends = 4
  MaxReads = 2
  Garbage = {0, 7}
  Env = {"onClose"}
SPECIFICATION FairSpec
INVARIANTS SerialWrites NoLoss AssertsHold
PROPERTY ImplementsChannel
CHECK_DEADLOCK FALSE
