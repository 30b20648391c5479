SPECIFICATION Spec
CONSTANTS
  Names <- MCNames
  Releases <- MCReleases
  BadLine = BadLine
  NoPin = NoPin
  Absent = Absent
  Bare = Bare
  Requests <- MCRequests
  Edits <- NoEdits
  Offered <- MCOffered
  Crashes = TRUE
  MaxCmds = 3
  MaxChurn = 0
INVARIANTS
  TidyRepairs
CHECK_DEADLOCK FALSE
