SPECIFICATION Spec
CONSTANTS
  Node = {n1, n2, n3}
  Nil = Nil
  MaxTerm = 2
  MaxEntries = 1
  PreVote = {}
  CheckQuorum = {n1}
  Campaigning = {n1, n2}
  Restarting = {n1, n3}
  TransferTargets = {n2}
INVARIANTS TypeOK ElectionSafety VotesAreOfThisTerm HintNamesLeaderOfTerm
CHECK_DEADLOCK FALSE
VIEW View
