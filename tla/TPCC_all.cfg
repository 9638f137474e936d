SPECIFICATION FairSpec
CONSTANTS
  k1 = k1
  k2 = k2
  k3 = k3
  Warehouses = {1, 2}
  DistrictPerWarehouse = 2
  CustomerPerDistrict = 1
  Items = {1}
  OrderPerDistrict = 1
  DeliveredPerDistrict = 0
  LoadedAmount = 11
  Workers <- ThreeWorkers
  Inputs <- MCInputs
  StoredProcs <- OneWorker
  MaxTxns = 3
INVARIANTS TypeOK OrdersNumbered OrdersDelivered OnlyStockDeadlocks ChecksPass NothingLost
PROPERTIES ImplementsSerial TransactionsEnd
