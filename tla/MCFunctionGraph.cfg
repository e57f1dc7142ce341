SPECIFICATION Spec
CONSTANTS
  Schemas <- MCSchemas
  Hosts <- MCHosts
  AllowUnknown = FALSE
  Limits <- MCLimits
  Bytes <- MCBytes
INVARIANTS ActiveIsPath ReportsExact
  VerdictExact
PROPERTY Terminates
