SPECIFICATION Spec
CONSTANTS
  DepthCeiling = 3
  Trees <- MCTrees
  LimitSets <- MCLimits
INVARIANTS PendingValuesExact ResultExact
PROPERTIES RejectDrainsContainers Exact
CHECK_DEADLOCK FALSE
