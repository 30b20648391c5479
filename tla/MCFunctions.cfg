SPECIFICATION Spec
CONSTANTS
  Full = 4
  Widths = {2, 3, 4}
  TextMax = 4
  LiteralMax = 5
  Standard = {"math"}
  NULL = NULL
  PathMax = 3
  DigitsMax = 2
  MaxEntries = 2
  MaxFile = 3
  MaxTotal = 3
  KeyMax = 3
  BodyMax = 6
  StoresMax = 3
INVARIANTS
  VersionOrder
  ConstraintReach
  SizedIntegers
  ReadsBack
  LexedAsMeant
  UnitsRun
  OneSlot
  CallsReach
  ArchiveOfFiles
  UnpacksWhole
  RecordsRoundTrip
  KeepsItsType
CHECK_DEADLOCK FALSE
