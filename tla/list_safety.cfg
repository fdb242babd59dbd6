CONSTANTS
  None = None
  Thread = {p1, p2}
  Elem = {e1, e2}
  Bucket = {0, 1}
  Node = {r, z, n1, n2, n3}
  Root = r
  Tail = z
  OrdinaryKey <- Keys
  SentinelKey <- BucketKeys
  kTailKey = 9
  Failures = {"new", "membarrier"}
SPECIFICATION Spec
SYMMETRY Symmetry
INVARIANTS TypeOK SplitOrdered NoDanglingPointer OneOwner
PROPERTIES MarkedIsFrozen IsASet
