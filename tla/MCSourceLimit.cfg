SPECIFICATION Spec
CONSTANTS
  MaxRecursion = 2
  MaxSerializedDepth = 8
  MaxLexemes = 3
  Lexemes <- MCLexemes
  GivenTrees <- MCGivenTrees
  LimitChoices <- Narrow
INVARIANT CanonicalReads
CHECK_DEADLOCK FALSE
