CONSTANTS
  Elem = {0, 1, 2, 3, 4, 5, 6}
  Hash <- Identity
  initial_capacity = 0
  Failures = {"bad_alloc"}
SPECIFICATION SequentialSpec
INVARIANTS SizeAgrees
PROPERTIES LoadBounded
