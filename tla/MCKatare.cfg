SPECIFICATION FairSpec
CONSTANTS
  CR = CR
  LF = LF
  Data = Data
  None = None
  Jobs <- MCJobs
  Bodies <- MCBodies
  Caps <- MCCaps
  LineMax = 3
  BufMax = 4
  SockMax = 2
  Upload = 3
INVARIANTS TypeOK OnlyVerified Served
PROPERTIES Faithful Terminates
