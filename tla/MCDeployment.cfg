\* Two deployments of a service in two environments, on a fifo topic, no retry.
SPECIFICATION DeploySpec
CONSTANTS
  Writer = {d1, d2}
  Other = other
  Retries = 0
  MaxOther = 0
  Env = {dev, prod}
  Version = {v1, v2}
  Fifo = TRUE
SYMMETRY DeploymentSymmetry
INVARIANTS
  DeployTypeOK
  RecordsInOrder
  OkMeansAllRecorded
  AloneIsLastEverywhere
PROPERTIES
  ZeroKeepsVersion
