SPECIFICATION WorkerSpec
CONSTANTS
    i1 = i1
    i2 = i2
    NoOne = NoOne
    Invocations = {i1, i2}
    Writers = {i1}
    Targets = {t1}
    Hooks <- MCHooks
    Middleware <- MCMiddleware
    CategoryMaps <- MCCategoryMaps
    RecordKinds <- MCRecordKinds
INVARIANTS
    TeardownOrder
    NoOrphanCollector
    DialIsClean
    ClientsAccounted
    RecordsAccounted
PROPERTIES
    StartReturns
CHECK_DEADLOCK FALSE
