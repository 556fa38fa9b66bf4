SPECIFICATION Spec
CONSTANTS
  Dirs = {"a", "b"}
  Variants = {"", "x", "y"}
  Plans <- MCPlans
  MaxBatches = 3
  MaxFeatures = 2
  MaxAttempts = 2
  MaxStarts = 3
INVARIANT SkipReasonSkips
CHECK_DEADLOCK FALSE
