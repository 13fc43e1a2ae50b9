SPECIFICATION Spec
CONSTANTS
  n1 = n1
  n2 = n2
  n3 = n3
  w1 = w1
  w2 = w2
  h1 = h1
  Node <- MCNode
  Writer <- MCWriter
  Hook <- MCHook
  Null = Null
  Head = Head
SYMMETRY MCSymmetry
CHECK_DEADLOCK FALSE
INVARIANTS
  TypeOK
  NoUseAfterFree
  BucketIntact
  WalkIsAtomic
PROPERTY RemovalEmpties
