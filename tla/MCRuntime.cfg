SPECIFICATION RuntimeSpec
CONSTANTS
  Keys <- MCKeys
  Values = {u, v}
  Null = Null
  Nothing = Nothing
  Hashes <- MCHashes
  IndexMin = 2
  MaxStart = 3
  MaxDrops = 1
  Words <- MCWords
  Payloads <- MCPayloads
  CodePoints <- MCCodePoints
INVARIANTS IndexSound LoopVisits CursorIsPlace
PROPERTIES
  IsOrderedMap
  IsText
SYMMETRY Swapped
CHECK_DEADLOCK FALSE
