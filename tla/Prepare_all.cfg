SPECIFICATION PreparesFairSpec
CONSTANTS
    Flags <- MixedFlags
    DistrictPerWarehouse = 2
    MaxFaults = 1
    ScaleFactor = 1
    Multiplier = 3
    Modulus = 31
    Sampled <- SampledRows
INVARIANTS TypeOK PhasesInOrder EachWarehouseChecked FailsForCause RowsBelongTogether RowsInStep
PROPERTIES ReturnsOnceCreated
