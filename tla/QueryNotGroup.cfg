SPECIFICATION QuerySpec
CONSTANTS
  MetaNames <- MCMetaNames
  StopWords <- MCStopWords
  ShortWords <- MCShortWords
  Content <- MCContent
  Distance <- MCDistance
  Wild <- MCWild
  Converted <- MCConverted
  Queries <- NotGroupFirst
  Unknown = Unknown
INVARIANTS
  MeaningFound
CHECK_DEADLOCK FALSE
