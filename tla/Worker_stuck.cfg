SPECIFICATION AnsweringSpec
CONSTANTS
    w1 = w1
    w2 = w2
    Workers <- MCWorkers
    Flags <- PlainFlags
    MaxFaults = 1
PROPERTIES KeepsWorking
