SPECIFICATION SearchSpec
CONSTANTS
    Procs <- MCProcs
    Pids <- MCPids
    Values <- MCValues
    Module <- MCModule
    Ways <- MCWays
    Denied <- MCDenied
    Hidden <- MCHidden
    PidReuse = TRUE
    MayFail = TRUE
    NoPid = NoPid
INVARIANTS
    SearchComplete
    SearchSoundById
