SPECIFICATION EtwSpec
CONSTANT MaxSessions = 3
INVARIANTS
    EtwTypesOK
    OneThread
    FlushHasSession
    NoSessionLeft
PROPERTIES
    EndsInStop
    StopReturns
CHECK_DEADLOCK FALSE
