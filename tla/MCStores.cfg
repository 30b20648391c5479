SPECIFICATION Spec
CONSTANTS
  Full = 5
  Widths = {2, 3, 5}
  TextMax = 4
  LiteralMax = 5
  Standard = {"math"}
  NULL = NULL
  PathMax = 3
  DigitsMax = 2
  MaxEntries = 2
  MaxFile = 3
  MaxTotal = 3
  KeyMax = 3
  BodyMax = 6
  StoresMax = 3
INVARIANT StoresCoerce
CHECK_DEADLOCK FALSE
