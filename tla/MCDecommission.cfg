SPECIFICATION Spec
CONSTANTS
  dev = dev
  prod = prod
  Sweep = {s1, s2}
  Remover = {r1}
  Env = {dev, prod}
  Order <- DevThenProd
  MaxRedeploys = 1
  Fifo = TRUE
SYMMETRY SweepSymmetry
INVARIANTS TypeOK AnswersHold NothingRunsUnexplained
