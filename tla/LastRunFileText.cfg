SPECIFICATION Spec
CONSTANTS
    Invocations <- MCInvocations
    Items <- MCItems
    Selections <- MCSelections
    Paths <- MCPaths
    Size <- MCSize
    CtrlZ <- MCCtrlZ
    Buffer <- MCBuffer
    NoSelection = NoSelection
INVARIANTS
    ClosedListReadsBack
CHECK_DEADLOCK FALSE
