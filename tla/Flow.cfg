SPECIFICATION FairSpec
CONSTANTS
  NoopIndex = 2
  MaxLast = 3
  BatchLen = 2
  MaxInflight = 1
  MaxFlight = 2
  MaxRepeats = 1
INVARIANTS WindowSound MatchSound
PROPERTIES EventuallyMatched
CHECK_DEADLOCK FALSE
