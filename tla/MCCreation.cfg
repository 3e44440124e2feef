\* Four requests to create one name, as a tenant or as a repository, and removals
\* of what they entered.
SPECIFICATION Spec
CONSTANTS
  Caller = {r1, r2, r3, r4}
SYMMETRY CallerSymmetry
INVARIANTS
  TypeOK
  OneWorkflowPerTenant
  OkMeansUnderWay
PROPERTIES
  StuckUntilRemoved
