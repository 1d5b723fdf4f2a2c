SPECIFICATION Spec
CONSTANTS
    i1 = i1
    i2 = i2
    r1 = r1
    r2 = r2
    r3 = r3
    NoSlot = NoSlot
    NoHeader = NoHeader
    Invocations <- RepeatedInvocations
    Requests <- RepeatedRequests
    IdOf <- RepeatedIdOf
INVARIANTS
    AnswerIsVerdict
    HandlerRunsOnce
    RunsOnlyIfInvoked
CHECK_DEADLOCK FALSE
