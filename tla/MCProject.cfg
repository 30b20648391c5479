SPECIFICATION FairSpec
CONSTANTS
  Names <- MCNames
  Releases <- MCReleases
  BadLine = BadLine
  NoPin = NoPin
  Absent = Absent
  Bare = Bare
  Requests <- MCRequests
  Edits <- MCEdits
  Offered <- MCOffered
  Crashes = TRUE
  MaxCmds = 3
  MaxChurn = 1
INVARIANTS
  LockSound
  LockedIsInstalled
  KeepsWhatWasThere
  TidyRestores
  DeclaredAccepts
PROPERTIES
  CommandsEnd
CHECK_DEADLOCK FALSE
