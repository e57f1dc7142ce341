SPECIFICATION Spec
CONSTANTS
  Patterns = {"a", "bb", "ccc"}
  Flavors = {"default", "header_name"}
  Bytes <- MCBytes
  BadRegexes <- MCBad
  Policies = {"forbid", "literal_only_precompiled", "dynamic_with_budget"}
  MaxUnique = 3
  MaxSource = 6
  MaxArgs = 5
  Dynamic = "dynamic"
INVARIANTS CompilationBounded CacheMatchesAttempts CleanMeansPrecompiled
  CleanMeansAttempted
CHECK_DEADLOCK FALSE
