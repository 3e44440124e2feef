\* One request to create a repository or a tenant: is an answer of 200 a promise?
SPECIFICATION Spec
CONSTANTS
  Caller = {r1, r2}
INVARIANTS
  RepositoryOkMeansStarted
