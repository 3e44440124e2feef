SPECIFICATION Spec
CONSTANTS
  anyJob = anyJob
  devRun = devRun
  dev = dev
  prod = prod
  Job = {anyJob, devRun}
  Stopper = {s1}
  EnvAsked = {dev, prod}
  Asks <- OneOfAnyKind
  MaxConfig <- TwoInDev
  MaxImage = 2
  MaxChanges = 3
  OddConfig = {2}
INVARIANTS TypeOK UnknownIsExplained RunsNothingOlder StopsItsRun
PROPERTY ImplementsLaunches
