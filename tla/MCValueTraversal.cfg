SPECIFICATION Spec
CONSTANTS
  DepthCeiling = 3
  Trees <- MCTrees
  LimitSets <- MCLimits
INVARIANTS WorklistBounded MetricsExact
PROPERTY Exact
CHECK_DEADLOCK FALSE
