SPECIFICATION HandshakeSpec
CONSTANTS
  Requests <- MCRequests
  Malformed <- MCMalformed
  max_header_size = 80
  ULLONG_MAX = 255
INVARIANTS
  OnlyOpenings
  CanonicalAccepted
  DiesOnlyOf
  FramesFollow
PROPERTIES
  Answered
CHECK_DEADLOCK FALSE
