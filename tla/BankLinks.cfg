SPECIFICATION MCSpec
CONSTANTS
  Banks = {"dkb", "ing"}
  NoBank = "none"
  Flows = {"f1", "f2"}
  Lifetime = 2
  WarnTime = 1
  MaxSession = 3
  MaxId = 2
  MaxNow = 2
  MaxMoves = 2
  MaxSlips = 2
INVARIANTS
PROPERTIES
  KeepsSessions
  ExpiredIsTrue
  RenewalClearsIssue
CHECK_DEADLOCK FALSE
