SPECIFICATION FairSpec
CONSTANTS
  r1 = r1
  r2 = r2
  r3 = r3
  Rows <- MCRows
  MaxBatchRows = 2
  RetryCount = 2
  Driver = "postgres"
  Keyed = TRUE
  Foreign <- NoRows
INVARIANTS TypeOK BatchesWhole DuplicateReportIsReal
PROPERTIES ImplementsDelivery FlushReturns
