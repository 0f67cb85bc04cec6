SPECIFICATION Spec
CONSTANTS
  Node = {n1, n2, n3}
  Value = {v1}
  Noop = Noop
  Nil = Nil
  MaxTerm = 2
  MaxIndex = 2
  Campaigning = {n1, n2}
  Incumbent = Nil
INVARIANTS LogMatching MatchedEntriesAreHeld
CHECK_DEADLOCK FALSE
VIEW View
SYMMETRY Symmetry
