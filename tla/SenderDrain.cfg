SPECIFICATION Spec
CONSTANTS
    Callers = {c1}
    MessagesPerCaller = 2
    outboundQueueSize = 2
    NoMessage = NoMessage
INVARIANT
    FinalLogsDrain
CHECK_DEADLOCK FALSE
