SPECIFICATION Spec
CONSTANTS
  dev = dev
  test = test
  prod = prod
  KeyRequest = {k1, k2}
  Republisher = {r1, r2}
  EnvironmentsOf <- ThreeEnvironments
  Prod = prod
SYMMETRY RequestSymmetry
INVARIANTS TypeOK AnswersAreTrue
