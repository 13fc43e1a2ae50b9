CONSTANTS
  Request <- AllRequests
  Command <- MCCommand
  Tokens <- MCTokens
  CallIds <- MCCallIds
  CallId <- MCCallId
  NoCallId = NoCallId
  Idle = Idle
  SaveCallCache = TRUE
  MaxDatagrams = 3

SPECIFICATION FairSpec

INVARIANTS
  TypeOK
  Fifo
  NoStrandedBatch
  CacheMirrorsForwarding

PROPERTY CleanPrefixIsHanded

\* Traffic stops at MaxDatagrams: the threads then wait for ever.
CHECK_DEADLOCK FALSE
