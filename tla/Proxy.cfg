SPECIFICATION Spec
CONSTANTS
    MaxMessages = 4
    MaxReloads = 1
INVARIANTS
    TypeOK
    ForwardingIsFinal
    ChildGetsHostOrder
    AnsweredAtMostOnce
    ReloadAnswerMeansReady
    NoPanic
PROPERTIES
    EveryMessageDealtWith
    ReloadIsAnswered
CHECK_DEADLOCK FALSE
