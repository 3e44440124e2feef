\* Two calls and one other committer race; each call may retry twice.
SPECIFICATION CommitSpec
CONSTANTS
  Writer = {w1, w2}
  Other = other
  Retries = 2
  MaxOther = 1
SYMMETRY WriterSymmetry
INVARIANTS
  CommitTypeOK
  ResolvedIsCommitted
  RealTimeOrder
  TwiceOnlyIfFaulty
  ThrewMeansUncommitted
  GivesUpOnlyWhenOutrun
