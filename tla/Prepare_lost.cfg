SPECIFICATION PreparesSpec
CONSTANTS
    Flags <- GeneratedFlags
    DistrictPerWarehouse = 2
    MaxFaults = 1
    ScaleFactor = 1
    Multiplier = 3
    Modulus = 31
    Sampled <- SampledRows
INVARIANTS AnalyzedWhenLoaded
