SPECIFICATION FairPathSpec
CONSTANTS
  s1 = s1
  d1 = d1
  Blank = Blank
  Message <- MCMessage
  Setup <- MCSetup
  Port <- MCPort
  FirstPort <- MCFirstPort
  SecondPort <- MCSecondPort
  Size <- MCSize
  Cell = {1}
  PipeCap = 1
  MayClose = FALSE
  MaxMessages = 3
  MaxReads = 3
  MaxForkFails = 0
  Ip <- MCIp
  AnyIp = 4
  UdpPort <- MCUdpPort
  SessionOf <- MCSessionOf
  Media <- MCMedia
  NoSession = NoSession
  Bucket <- MCBucket
  BucketOf <- MCBucketOf
  Patient = TRUE
CHECK_DEADLOCK FALSE
INVARIANTS
  PathTypeOK
  LearnedIsTrue
  LastRequestDecides
  MediaReturns
PROPERTY EveryRequestTakesEffect
