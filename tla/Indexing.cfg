SPECIFICATION IndexingSpec
CONSTANTS
  Pages <- MCPages
  Server <- MCServer
  Uri <- MCUri
  Equivalent <- MCEquivalent
  Below <- MCBelow
  Inputs <- MCInputs
  Inodes <- MCInodes
  Trees <- MCTrees
  NoName = 0
  Documents <- UpToTwo
  MaxPrinted = 2
  RunUpdates = TRUE
  MtimeLimit = 1
  NoType = NoType
  a = a
  b = b
  c = c
  Words <- ThreeWords
  Hash <- OneChain
  Metas <- TwoMetas
  PLimit = 60
  FLimit = 2
  ChunkDocs = 3
  MaxDocs = 3
  MetaTags = {"m"}
  PropTags = {"r"}
  IgnoreTags = {"x"}
  EmphasisTags = {"b"}
  BlockTags = {"head"}
  Settings <- AllSettings
  BufferSize = 3
  MaxEvents = 5
  WordMetas = {1, 10}
  WordTexts <- MCTexts
  TakenOut <- MCTakenOut
  OldFiles = 126
  ChunkSize = 2
  BlockSize = 2
  MaxFiles = 3
  MaxWrites = 2
  MergeWords = {"x", "y", "z"}
  MergeInputs <- MCMergeInputs
INVARIANTS
  RobotsObeyed
  EveryPageOnce
  EveryFileOnce
  StreamInStep
  EntriesExact
  WordsPlaced
  SearchReads
  MergedNewest
PROPERTIES
  SourcesEnd
\* Documents, sessions and indexes are read to their end, and then no more.
CHECK_DEADLOCK FALSE
