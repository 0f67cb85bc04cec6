CONSTANTS
  Node = {a, b, c}
  a = a
  b = b
  c = c
  Nil = Nil
  Incumbent = a
  r1 = r1
  r2 = r2
  Read = {r1, r2}
  MaxTerm = 2
  MaxRound = 3
  MaxPending = 2
  Timeout = 3
  Cadence = 1
  Foundation = FALSE
  LeaseReads = FALSE
  Campaigning = {b}
  TransferTargets = {}
  Restarting = {a, c}
SPECIFICATION Spec
VIEW View
SYMMETRY Symmetry
INVARIANTS ReadsAreCurrent
PROPERTY EarlierRoundsFirst
CHECK_DEADLOCK FALSE
