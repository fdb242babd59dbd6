CONSTANTS
  e1 = e1
  e2 = e2
  e3 = e3
  None = None
  Thread = {p1, p2}
  Elem = {e1, e2, e3}
  Hash <- Hashes
  initial_capacity = 2
  Failures = {"bad_alloc"}
SPECIFICATION FairSpec
INVARIANTS BucketsApart FindStillHolds SizeAgrees DoubledOnce
PROPERTIES IsASet DeadlockFree
