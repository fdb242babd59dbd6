CONSTANTS
  Participant = {p1, p2}
  Node = {n1, n2, n3, n4}
  kRetiresPerAdvance = 1
  kInactive = kInactive
  StoreBufferSize = 1
  Failures = {}
SPECIFICATION Spec
SYMMETRY Symmetry
INVARIANT NoUseAfterFree
