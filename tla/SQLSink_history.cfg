SPECIFICATION Spec
CONSTANTS
  r1 = r1
  r2 = r2
  r3 = r3
  Rows <- TwoRows
  MaxBatchRows = 2
  RetryCount = 1
  Driver = "postgres"
  Keyed = FALSE
  Foreign <- NoRows
INVARIANT StoredOnce
