CONSTANTS
  a = a
  b = b
  r1 = r1
  r2 = r2
  Node = {a, b}
  Nil = Nil
  Incumbent = a
  Read = {r1, r2}
  MaxTerm = 2
  MaxRound = 3
  MaxPending = 1
  Timeout = 5
  Cadence = 2
  Foundation = TRUE
  LeaseReads = TRUE
  Campaigning = {b}
  TransferTargets = {b}
  Restarting = {}
SPECIFICATION Spec
VIEW View
SYMMETRY Symmetry
INVARIANTS NoReadForgotten LeaseMeansNoWaiver LeaseMeansRefusal 
CHECK_DEADLOCK FALSE
