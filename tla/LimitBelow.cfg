SPECIFICATION LimSpec
CONSTANTS
  Properties = {"p"}
  Limits <- MCLimits
  LimitLists <- MCLists
  MaxLimits = 1
INVARIANTS
  LimitsMeant
CHECK_DEADLOCK FALSE
