SPECIFICATION Spec
CONSTANTS
  Programs <- Scoped
  LimitSets <- Ample
INVARIANT CallsResolveWhereWritten
CHECK_DEADLOCK FALSE
