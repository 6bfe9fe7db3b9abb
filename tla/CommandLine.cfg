SPECIFICATION CommandSpec
CONSTANTS
    Procs <- MCProcs
    Pids <- MCPids
    Values <- MCValues
    Module <- MCModule
    Ways <- MCWays
    Value <- MCValue
    Cap <- MCCap
    Denied <- MCNobody
    Hidden <- MCSeen
    Protected <- MCOneB
    Commands <- MCAll
    PidReuse = TRUE
    MayFail = TRUE
    NoPid = NoPid
INVARIANTS
    CommandTypesOK
    KillsOnlyTheirIds
    KillComplete
    UnlockedUnlessHeld
    TimeoutHonest
PROPERTIES
    TimeoutEnds
    UnlockEnds
CHECK_DEADLOCK FALSE
