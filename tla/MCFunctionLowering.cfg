SPECIFICATION Spec
CONSTANTS
  Programs <- MCPrograms
  LimitSets <- MCLimits
INVARIANTS PreflightCovers MetersAgree LoweredExact
  RecursionBounded
CHECK_DEADLOCK FALSE
