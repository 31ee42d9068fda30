\* Sizes scaled down so that every branch of ensureSpace is taken often.
CONSTANTS
  InitialSizes = {0, 2, 3}
  kMinWritableSize = 2
  kExpandThreshold = 1
  kExpandSize = 2
  MaxBytes = 6
  MaxLen = 3
SPECIFICATION Spec
INVARIANTS IndicesOK GrantFits
PROPERTIES GrowsOnlyWhenFull ImplementsQueue
CHECK_DEADLOCK FALSE
