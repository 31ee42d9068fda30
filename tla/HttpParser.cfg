SPECIFICATION FairSpec
CONSTANTS
  Requests <- MCRequests
  Malformed <- MCMalformed
  max_header_size = 36
  ULLONG_MAX = 255
INVARIANTS
  TypeOK
  CallsMeanMessage
  EndsWhereMessageEnds
  
  NoFalseRefusal
  MalformedRefused
PROPERTIES
  ExecuteReturns
CHECK_DEADLOCK FALSE
