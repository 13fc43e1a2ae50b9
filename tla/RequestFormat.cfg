SPECIFICATION Spec
CONSTANTS
  Text <- MCText
  Learned <- MCLearned
CHECK_DEADLOCK FALSE
INVARIANTS
  SetupAsMeant
  TeardownFindsSetup
