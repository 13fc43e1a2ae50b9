SPECIFICATION FairDeploymentSpec
CONSTANTS
  none = none
  zero = zero
  port = port
  word = word
  PortText <- MCPortText
  Digits <- MCDigits
  NoneText = none
  None = None
  DefaultPort = 2
  MaxRuns = 2
  SlowRestart = TRUE
  MaxStarts = 3
  MaxOsErrors = 1
  MaxRequests = 1
CHECK_DEADLOCK FALSE
INVARIANTS
  DeploymentTypeOK
  ConnectedOnce
  PathIsFree
  ConnectionIsDue
  NoEntryIsLost
PROPERTIES
  Reconnects
  ServesAgain
