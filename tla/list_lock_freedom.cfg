CONSTANTS
  None = None
  Thread = {p1, p2}
  Elem = {e1, e2}
  Bucket = {0, 1}
  Node = {r, z, n1, n2}
  Root = r
  Tail = z
  OrdinaryKey <- Keys
  SentinelKey <- BucketKeys
  kTailKey = 9
  Failures = {"new", "membarrier"}
SPECIFICATION NonBlockingSpec
PROPERTIES LockFree
