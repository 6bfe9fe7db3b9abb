SPECIFICATION FairSpec
CONSTANTS
    N <- MCN
    Pids <- MCPids
    Owner <- MCOwner
    Kinds <- MCAllKinds
    NULL = NULL
    Prompt = TRUE
INVARIANTS
    TypeOK
    OneRunner
    NameIsOwn
    NothingMissed
    NoDoubleClose
    NothingLeaked
PROPERTIES
    ImplementsEnumeration
