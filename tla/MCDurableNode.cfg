SPECIFICATION Spec
CONSTANTS
  History <- MCHistory
  Committed <- MCCommitted
  Self = self
  Candidates = {c1}
  Leaders = {l1, l2}
  Nil = Nil
  Boundaries = {1, 2}
  MaxBatch = 2
  Atomic = TRUE
INVARIANTS StoresRecover VotesAreDurable AcksAreDurable AppliedIsDurable ReadyMeansPersisted
PROPERTY DiskNeverRegresses
VIEW View
SYMMETRY LeaderSymmetry
