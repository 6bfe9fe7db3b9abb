SPECIFICATION PipeSpec
CONSTANTS
    Ends <- MCEnds
    Senders <- MCSenders
    MayCrash <- MCSenders
    EmptyText = EmptyText
    Blank = Blank
    None = None
    Free = Free
    Resting <- MCResting
    MaxSends = 2
INVARIANTS
    PipeTypesOK
    InOrder
PROPERTIES
    ImplementsChannel
    EndReturns
CHECK_DEADLOCK FALSE
