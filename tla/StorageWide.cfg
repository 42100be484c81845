SPECIFICATION StorageSpec
CONSTANTS
  one = one
  two = two
  big = big
  Data <- Sizes
  Bytes <- SizeBytes
  BlockSize = 4
  MaxBlocks = 2
  CacheSize = 2
  MaxReusable = 1
  LongBytes = 8
  MaxPages = 3
  MaxKey = 6
  Short = {2, 5}
  Keys <- WordKeys
  Length <- WordLength
  WordIds = {1, 2}
  Overhead = 1
  MaxOverhead = 1
  PageRoom = 10
  OffsetBytes = 4
  Updatable = {2}
  Deepening = FALSE
  Arrays = {1, 2}
  Slots = 2
  Elements <- MCElements
  Values <- MCValues
  Props <- MCProps
  Modified = 1
  Numbers = {1}
  NoStrip = {}
  MaxLen <- MCMaxLen
  Texts <- MCTexts
  MaxFiles = 2
  MaxAdded = 3
  MaxSessions = 2
  Letters = {1, 2, 3}
  Words <- MCWords
  Hash <- MCHash
INVARIANT
  RecordsRead
\* The file of word data is full at MaxPages, and an insertion stops where
\* it would split the root above a leaf whose new half is still to be added.
CHECK_DEADLOCK FALSE
