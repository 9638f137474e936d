SPECIFICATION RunsFairSpec
CONSTANTS
    w1 = w1
    w2 = w2
    Workers <- MCWorkers
    Flags <- MixedFlags
    MaxFaults = 1
INVARIANTS
    TypeOK
    StatementsAreCurrent
    ConnectionsReturned
    GivesUpForCause
    CommandReportsErrors
    CountRespected
PROPERTIES
    RunEnds
    OutagesHeal
