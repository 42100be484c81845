SPECIFICATION TreeSpec
CONSTANTS
  MaxKey = 8
  Short = {}
  Keys <- WordKeys
  Length <- WordLength
  WordIds = {1, 2}
  Overhead = 1
  MaxOverhead = 1
  PageRoom = 9
  OffsetBytes = 4
  Updatable = {}
  Deepening = TRUE
INVARIANT
  EveryWordFound
