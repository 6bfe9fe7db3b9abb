SPECIFICATION Spec
CONSTANTS
    N <- MCN
    Pids <- MCPids
    Owner <- MCOwner
    Kinds <- MCSlowKinds
    NULL = NULL
    Prompt = FALSE
INVARIANTS
    OneRunner
