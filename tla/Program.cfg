SPECIFICATION ProgramSpec
CONSTANTS
  p1 = p1
  p2 = p2
  Paths <- TwoPaths
  Kinds <- CountedKinds
  MaxDate = 2
  MaxFile = 4
  MaxSessions = 3
  MaxCrashes = 1
  Settings <- MCSettings
  Texts <- MCTexts
  Lower <- MCLower
  RowLimit = 3
  SameLimit = 2
  Vowels <- MCVowels
  Digits <- MCDigits
  Puncts <- MCPuncts
  RuleWords <- MCRules
  IndexFacts <- MCFacts
  Answers <- MCAnswers
  NoQuery = "none"
  SortWords <- MCSortWords
  SortStep = 2
  ErrorNumber <- MCErrors
  Ids = {i1, i2, i3}
  Given = {"a", "b", "c"}
  Kept = {"wordchars", "stopwords"}
  Unstored = {"bumppos"}
  Lists = {"stopwords"}
  Values = {0, 1}
  Lengths = {2}
  Biases = {3}
  BiasRange = 10
  MaxFirst = 2
  MaxLater = 1
  MaxIndexings = 2
  LinkSessions = {1}
  Documents <- MCDocuments
  Switches = {"w", "i", "c", "f", "M", "T", "v", "u", "r", "k"}
  IndexNames = {"x", "y"}
  Directories = {"d"}
  ConfigNames = {"conf"}
  Numbers = {"1", "3"}
  MaxWords = 4
  MaxLines = 3
  MaxDepth = 2
SYMMETRY ProgramSymmetry
INVARIANTS
  RemovalsAgree
  NamesAgree
  WordsAgree
  ObjectsUsable
  HeaderAgrees
  CommandObeyed
PROPERTIES
  ImplementsDocumentStore
\* The bounds on documents, sessions, texts and words let everything stop.
CHECK_DEADLOCK FALSE
