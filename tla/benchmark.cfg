CONSTANTS
  Scenarios <- SmallScenarios
  ThreadCounts = {1, 2}
  kStepsPerThread = 2
  HotShare = 2
  StartsPresent = {0, 3}
  nullptr = nullptr
SPECIFICATION Spec
INVARIANTS CheckNeverFails WindowsApart AttachedWhileUsed
