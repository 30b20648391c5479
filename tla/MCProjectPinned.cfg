SPECIFICATION Spec
CONSTANTS
  Names <- MCNames
  Releases <- MCReleases
  BadLine = BadLine
  NoPin = NoPin
  Absent = Absent
  Bare = Bare
  Requests <- MCRequests
  Edits <- NoEdits
  Offered <- MCOffered
  Crashes = FALSE
  MaxCmds = 2
  MaxChurn = 0
INVARIANTS
  DeclaredIsPinned
CHECK_DEADLOCK FALSE
