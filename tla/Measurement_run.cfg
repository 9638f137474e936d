SPECIFICATION Spec
CONSTANTS
  w1 = w1
  w2 = w2
  newOrder = newOrder
  Workers <- MCWorkers
  Ops <- OneOp
  MaxCalls = 3
  MaxTicks = 2
INVARIANTS TypeOK SummaryIsExact SeriesIsComplete
PROPERTY FileOnlyGrows
