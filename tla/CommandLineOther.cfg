SPECIFICATION CommandSpec
CONSTANTS
    Procs <- MCProcs
    Pids <- MCPids
    Values <- MCValues
    Module <- MCModule
    Ways <- MCWays
    Value <- MCValue
    Cap <- MCCap
    Denied <- MCNobody
    Hidden <- MCSeen
    Protected <- MCNobody
    Commands <- MCKill
    PidReuse = TRUE
    MayFail = FALSE
    NoPid = NoPid
INVARIANTS
    KillsOnlyHolders
CHECK_DEADLOCK FALSE
