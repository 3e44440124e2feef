\* Two deployments of a service, with a retry each, on a standard topic:
\* every request is answered, and a half-done one explained.
SPECIFICATION FairDeploySpec
CONSTANTS
  Writer = {d1, d2}
  Other = other
  Retries = 1
  MaxOther = 0
  Env = {dev}
  Version = {v1}
  Fifo = FALSE
INVARIANTS
  HalfDoneIsExplained
PROPERTIES
  EveryRequestEnds
