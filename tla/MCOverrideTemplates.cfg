SPECIFICATION Spec
CONSTANTS
  PackName = "pack"
  Requests <- TextFamily
  Files <- MCFiles
INVARIANT PlaceholdersReplaced
