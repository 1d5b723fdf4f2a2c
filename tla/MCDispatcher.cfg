SPECIFICATION Spec
CONSTANTS
    MaxMessages = 4
    http = http
    client = client
    other = other
    FunctionIds <- MCFunctionIds
    Style <- MCStyle
    HTTPProxy = TRUE
INVARIANTS
    TypeOK
    ControlPlaneOrdered
    SuccessIsEarned
    SilenceHasACause
PROPERTY
    EveryRequestAnswered
CHECK_DEADLOCK FALSE
