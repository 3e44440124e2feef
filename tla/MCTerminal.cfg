\* One terminal, with half seconds, two seconds at most in prod and four in dev.
SPECIFICATION Spec
CONSTANTS
  Team = {t1}
  EnvAsked = {"prod", "dev"}
  ToolAsked = {"terminal", "sqs_tool", "dbgate_redis"}
  Second = 2
  ProdMax = 4
  NonProdMax = 8
  Horizon = 11
INVARIANTS
  TypeOK
  ClosesWhenAsked
  UnrecordedIsExplained
