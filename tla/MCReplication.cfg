SPECIFICATION Spec
CONSTANTS
  Node = {n1, n2, n3}
  Value = {v1}
  Noop = Noop
  Nil = Nil
  MaxTerm = 3
  MaxIndex = 1
  Campaigning = {n1, n2}
  Incumbent = n1
INVARIANTS CommittedBlocksElection NoCommittedConflict
PROPERTY CommittedLogSpec
CHECK_DEADLOCK FALSE
VIEW View
