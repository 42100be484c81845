SPECIFICATION WordsSpec
CONSTANTS
  Settings <- MCSettings
  Texts <- MCTexts
  Lower <- MCLower
  RowLimit = 3
  SameLimit = 2
  Vowels <- MCVowels
  Digits <- MCDigits
  Puncts <- MCPuncts
  RuleWords <- MCRules
INVARIANTS WordsAsked
CHECK_DEADLOCK FALSE
