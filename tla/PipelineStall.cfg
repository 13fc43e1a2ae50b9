CONSTANTS
  Request <- AllRequests
  Command <- MCCommand
  Tokens <- MCTokens
  CallIds <- MCCallIds
  CallId <- MCCallId
  NoCallId = NoCallId
  Idle = Idle
  SaveCallCache = FALSE
  MaxDatagrams = 3

SPECIFICATION FairSpec

PROPERTY AckedIsHanded

\* Traffic stops at MaxDatagrams: the threads then wait for ever.
CHECK_DEADLOCK FALSE
