SPECIFICATION FairSpec
CONSTANTS
  Programs <- MCPrograms
  Statements <- MCStatements
  Exceptions = {"A", "B", "C"}
  None = None
INVARIANTS FramesLive MeansWhatItSays
PROPERTIES InterruptQuits
CHECK_DEADLOCK FALSE
