CONSTANTS
  e1 = e1
  e2 = e2
  None = None
  Thread = {p1, p2, p3}
  Elem = {e1, e2}
  Hash <- Hashes
  initial_shift_ = 1
  Failures = {}
SPECIFICATION Spec
SYMMETRY Symmetry
INVARIANTS TableWriteIsSeen
