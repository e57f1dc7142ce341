SPECIFICATION Spec
CONSTANTS
  Names = {"f", "g"}
  Functions <- MCFunctions
  LimitSets <- MCLimits
  DefaultLimits <- MCDefault
  DiagnosticCeiling = 2
  DiagnosticByteCeiling = 3
  BodyDepthCeiling = 3
  MessageBytes = {1, 2}
  HostSignatures <- MCHosts
  MaxRequests = 3
INVARIANTS FailClosed NothingLost AnalyzableFits
  SignaturesCurrent
