SPECIFICATION OverlapSpec
CONSTANTS
  Ip <- MCIp
  Port <- MCPort
  Session <- MCSession
  Handler = {h1, h2}
  Bucket <- OwnBuckets
  BucketOf <- Scattered
  MaxAdds = 4
  NoSession = NoSession
SYMMETRY Interchangeable
INVARIANTS
  TypeOK
  BlocksAccounted
  OwnBucket
  RoundTrip
PROPERTIES
  TeardownRemovesOlder
  ImplementsRules
