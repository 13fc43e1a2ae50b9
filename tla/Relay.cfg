SPECIFICATION FairSpec
CONSTANTS
  s1 = s1
  s1again = s1again
  d1 = d1
  s2 = s2
  p5 = p5
  p6 = p6
  p7 = p7
  p8 = p8
  Blank = Blank
  Message <- MCMessage
  Setup <- MCSetup
  Port <- MCPort
  FirstPort <- MCFirstPort
  SecondPort <- MCSecondPort
  Size <- MCSize
  Cell <- MCCell
  PipeCap = 2
  MayClose = TRUE
  MaxMessages = 3
  MaxReads = 3
  MaxForkFails = 2
CHECK_DEADLOCK FALSE
INVARIANTS
  TypeOK
  PipeAccounting
  ExactlyOnce
  SomeSetupSurvives
PROPERTIES
  KeepsContract
  ParentKeepsReading
  EveryRequestResolved
