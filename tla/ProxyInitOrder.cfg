SPECIFICATION Spec
CONSTANTS
    MaxMessages = 3
    MaxReloads = 1
INVARIANT
    InitReachesChildFirst
CHECK_DEADLOCK FALSE
