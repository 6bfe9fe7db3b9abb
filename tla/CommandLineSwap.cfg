SPECIFICATION CommandSpec
CONSTANTS
    Procs <- MCOneA
    Pids <- MCPids
    Values <- MCValues
    Module <- MCModule
    Ways <- MCWaysA
    Value <- MCValue
    Cap <- MCCap
    Denied <- MCNobody
    Hidden <- MCSeenA
    Protected <- MCNobody
    Commands <- MCWait
    PidReuse = TRUE
    MayFail = FALSE
    NoPid = NoPid
INVARIANTS
    UnlockedWasFree
CHECK_DEADLOCK FALSE
