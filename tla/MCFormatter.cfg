SPECIFICATION Spec
CONSTANTS
  MaxRecursion = 2
  MaxSerializedDepth = 8
  MaxLexemes = 7
  Lexemes <- MCLexemes
  GivenTrees <- MCGivenTrees
  LimitChoices <- MCLimitChoices
INVARIANTS ParseExact RoundTrip Idempotent
CHECK_DEADLOCK FALSE
