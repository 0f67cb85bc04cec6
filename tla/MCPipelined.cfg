SPECIFICATION PipelinedSpec
CONSTANTS
  Node = {n1, n2, n3}
  Value = {v1}
  Noop = Noop
  Nil = Nil
  MaxTerm = 2
  MaxIndex = 2
  Campaigning = {n1, n2}
  Pipelining = {n1}
  Incumbent = n1
INVARIANTS CommittedIsDurable
PROPERTY PipelinedLogSpec
CHECK_DEADLOCK FALSE
VIEW PipelinedView
