CONSTANTS
  Node = {a, b, c}
  a = a
  b = b
  c = c
  Nil = Nil
  Incumbent = a
  r1 = r1
  Read = {r1}
  MaxTerm = 2
  MaxRound = 2
  MaxPending = 1
  Timeout = 3
  Cadence = 1
  Foundation = TRUE
  LeaseReads = TRUE
  Campaigning = {b}
  TransferTargets = {}
  Restarting = {}
SPECIFICATION Spec
VIEW View
INVARIANTS ReadsAreCurrent
CHECK_DEADLOCK FALSE
