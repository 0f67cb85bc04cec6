SPECIFICATION Spec
CONSTANTS
  a = a
  b = b
  c = c
  Node = {a, b, c}
  Nil = Nil
  None = None
  Incumbent = a
  Bootstraps <- MCBootstraps
  Targets <- MCTargets
  MaxTerm = 2
  MaxIndex = 3
  Campaigning = {b}
  Crashing = {b}
INVARIANTS OneWinnerPerTerm CommittedBlocksElection ConfigurationsChain FramesAreAccepted RemovedLeaderSteps
PROPERTIES CommittedLogSpec PromotedHoldCommitted
CHECK_DEADLOCK FALSE
VIEW View
