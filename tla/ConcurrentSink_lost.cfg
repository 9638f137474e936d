SPECIFICATION Spec
CONSTANTS
  w1 = w1
  w2 = w2
  Workers <- MCWorkers
  MaxBatchRows = 2
  NRows = 4
INVARIANT NilFlushHidesNoError
