SPECIFICATION OverlapSpec
CONSTANTS
  Ip <- MCIp
  Port <- MCPort
  Session <- MCSession
  Handler = {h1, h2}
  Bucket <- FewBuckets
  BucketOf <- Folded
  MaxAdds = 2
  NoSession = NoSession
SYMMETRY Interchangeable
PROPERTY
  TeardownIsSpecific
