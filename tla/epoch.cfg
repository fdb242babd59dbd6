CONSTANTS
  Participant = {p1, p2}
  Node = {n1, n2, n3}
  kRetiresPerAdvance = 1
  kInactive = kInactive
  StoreBufferSize = 1
  Failures = {"bad_alloc", "membarrier"}
SPECIFICATION FairSpec
INVARIANTS PinnedEpoch NothingLeftToRelabel OwnedOnce
PROPERTIES KeepsThePromise GarbageCollected AdvancingReleased
