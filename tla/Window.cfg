SPECIFICATION WindowSpec
CONSTANTS
    Procs <- MCProcs
    Pids <- MCPids
    Values <- MCValues
    Module <- MCModule
    Ways <- MCWays
    Hidden <- MCSeen
    Denied <- MCNobody
    Unwatchable <- MCOneC
    Protected <- MCOneB
    MaxLoads = 2
    PidReuse = TRUE
    MayFail = FALSE
    NoPid = NoPid
INVARIANTS
    WindowTypesOK
    RowsWatched
PROPERTIES
    RowLeavesWithProcess
    EndsWhatIsWatched
    ExitedRowsGo
    StaleWatchersEnd
CHECK_DEADLOCK FALSE
