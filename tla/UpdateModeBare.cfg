SPECIFICATION UpdateSpec
CONSTANTS
  p1 = p1
  p2 = p2
  Paths <- TwoPaths
  Kinds <- AllKinds
  MaxDate = 1
  MaxFile = 3
  MaxSessions = 2
  MaxCrashes = 0
INVARIANTS
  OneVersionShown
\* The bounds on documents and sessions let everything stop.
CHECK_DEADLOCK FALSE
