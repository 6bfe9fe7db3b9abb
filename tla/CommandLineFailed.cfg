SPECIFICATION CommandSpec
CONSTANTS
    Procs <- MCOneB
    Pids <- MCPids
    Values <- MCValues
    Module <- MCModule
    Ways <- MCWaysB
    Value <- MCValue
    Cap <- MCCap
    Denied <- MCNobody
    Hidden <- MCSeenB
    Protected <- MCNobody
    Commands <- MCWait
    PidReuse = TRUE
    MayFail = TRUE
    NoPid = NoPid
INVARIANTS
    UnlockedWasFree
CHECK_DEADLOCK FALSE
