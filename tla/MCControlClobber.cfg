SPECIFICATION FairSpec
CONSTANTS
  Programs <- Clobbering
  Statements <- ClobberingStatements
  Exceptions = {"A", "B", "C"}
  None = None
INVARIANTS MeansWhatItSays
CHECK_DEADLOCK FALSE
