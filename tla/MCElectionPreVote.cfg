SPECIFICATION Spec
CONSTANTS
  Node = {n1, n2, n3}
  Nil = Nil
  MaxTerm = 2
  MaxEntries = 2
  PreVote = {n1, n2, n3}
  CheckQuorum = {}
  Campaigning = {n1}
  Restarting = {n2}
  TransferTargets = {n2}
INVARIANTS CampaignHasMandate TransferTargetHoldsLog
CHECK_DEADLOCK FALSE
VIEW View
