CONSTANTS
  e1 = e1
  e2 = e2
  None = None
  Thread = {p1, p2}
  Elem = {e1, e2}
  Hash <- Hashes
  kKeyBits = 16
  initial_capacity = 2
  max_capacity_ = 8
  SizeLimit = 8
  Failures = {"new", "membarrier"}
SPECIFICATION Spec
SYMMETRY Symmetry
INVARIANTS TypeOK StartsBefore PublishedInOrder SizeAgrees KeysAreSplitOrdered
PROPERTIES IsASet
