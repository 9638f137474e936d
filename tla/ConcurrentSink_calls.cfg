SPECIFICATION FairSpec
CONSTANTS
  w1 = w1
  w2 = w2
  Workers <- MCWorkers
  MaxBatchRows = 2
  NRows = 6
INVARIANTS TypeOK InnerSinkExclusive FlushCoversAllRows FirstReportedIsKept
PROPERTY CallsReturn
