\* The log a caller may rely on, and that every call ends; one retry each.
SPECIFICATION FairCommitSpec
CONSTANTS
  Writer = {w1, w2}
  Other = other
  Retries = 1
  MaxOther = 1
PROPERTIES
  ImplementsLog
  EveryCallEnds
