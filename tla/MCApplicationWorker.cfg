SPECIFICATION FairSpec
CONSTANTS
  InflightEntries = 5
  InflightBytes = 5
  BatchEntries = 3
  BatchBytes = 3
  MaxIndex = 6
  MaxStarts = 2
  RetainedUpTo <- MCRetainedUpTo
  BatchUpTo <- MCBatchUpTo
INVARIANTS HeldInOrder CreditsExact AdmissionReachesThread
PROPERTIES ServiceSpec JoinReturns EntriesAreAnswered
CHECK_DEADLOCK FALSE
