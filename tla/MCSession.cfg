CONSTANTS
    MaxItems = 2
    MaxCalls = 3
    MaxConnects = 2
SPECIFICATION Spec
INVARIANTS
    TypeOK
    OwnEnd
    Complete
    OnlyDroppedLeak
    EntityOwn
    AnsweredInStep
PROPERTY InStepReturns
CHECK_DEADLOCK FALSE
