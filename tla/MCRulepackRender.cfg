SPECIFICATION Spec
CONSTANTS
  PackName = "pack"
  Requests <- MCRequests
  Files <- MCFiles
INVARIANTS AppliedSoFar WorkPaid InstallStable
PROPERTIES Rendered AppliesAsChecked
