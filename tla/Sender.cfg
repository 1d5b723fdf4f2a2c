SPECIFICATION Spec
CONSTANTS
    Callers = {c1, c2}
    MessagesPerCaller = 3
    outboundQueueSize = 2
    NoMessage = NoMessage
INVARIANTS
    TypeOK
    WireIsPrefix
    ResultsAreExclusive
PROPERTIES
    ImplementsOutbound
    LateSendsRefused
    CallersReturn
    StopCompletes
CHECK_DEADLOCK FALSE
