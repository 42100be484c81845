SPECIFICATION SearchingSpec
CONSTANTS
  r1 = r1
  Readers <- OneReader
  UseBtree = TRUE
  OneBuildPerSecond = TRUE
  MaxBuilds = 2
  MaxClock = 1
  MaxUpdates = 1
  MaxIndexes = 2
  FileNumbers = {1, 2, 3}
  Key <- MCKey
  MaxRec = 6
  None = None
  Properties = {"p", "q"}
  Limits <- MCLimits
  LimitLists <- MCLists
  MaxLimits = 2
  SortProps <- MCSortProps
  SortInputs <- MCSortInputs
  Base = 3
  InsertionBelow = 3
  MedianAbove = 3
  NintherAbove = 7
  RankWords = {"u", "v"}
  RankTexts <- MCRankTexts
  Schemes = {0, 1}
  Ln <- MCLn
  Log10 <- MCLog10
  LnFine <- MCLnFine
  FreqCap = 3
  Fine = 1000
  Coarse = 100
  Hundredth = 10000
  Width = 30
  MaxTerms = 3
  MetaNames <- MCMetaNames
  StopWords <- MCStopWords
  ShortWords <- MCShortWords
  Content <- MCContent
  Distance <- MCDistance
  Wild <- MCWild
  Converted <- MCConverted
  Queries <- MCQueries
  Unknown = Unknown
INVARIANTS
  TypeOK
  AcceptedIsOneBuild
  MainFileLast
  QuietOpenAccepted
  HandleSettled
  RecordNumber
  LimitsFollowed
  OrderAsked
  RanksFair
  QueryAnswered
PROPERTIES
  ImplementsStore
  EverythingEnds
  ErrorOrderFree
  ImplementsCursor
\* The bounds on builds and the clock, and the inputs, let everything stop.
CHECK_DEADLOCK FALSE
