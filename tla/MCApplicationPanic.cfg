SPECIFICATION Spec
CONSTANTS
    Types <- MCTypes
    Calls <- MCCalls
    MaxCalls = 4
    MetadataRounds = 2
    Advertises <- MCAdvertises
    OtelConfigs <- MCOtelConfigs
    Scenarios <- MCScenarios
    Size <- MCSize
    MaxBytes = 16
    MaxDepth = 2
    MaxInits = 2
    Tasks <- MCTasks
    Generations = 2
    MaxRedeliveries = 1
INVARIANT
    EverySpanEnds
CHECK_DEADLOCK FALSE
