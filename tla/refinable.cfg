CONSTANTS
  e1 = e1
  e2 = e2
  None = None
  Thread = {p1, p2}
  Elem = {e1, e2}
  Hash <- Hashes
  initial_shift_ = 1
  Failures = {"bad_alloc"}
SPECIFICATION FairSpec
INVARIANTS SizeAgrees ArenaCoversTheTable FindStillHolds ResizeAlone
PROPERTIES IsASet ResizeEnds DeadlockFree
CHECK_DEADLOCK FALSE
