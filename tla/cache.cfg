CONSTANTS
  None = None
  Thread = {t1, t2}
  Owner = {o1, o2}
  Participant = {q1, q2, q3, q4}
  kReclaimerCacheSize = 2
  MaxReclaimers = 3
SPECIFICATION Spec
SYMMETRY Symmetry
INVARIANTS RightParticipant CacheIsFresh NoneLost
