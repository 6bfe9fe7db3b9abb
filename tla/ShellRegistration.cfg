SPECIFICATION Spec
CONSTANTS
    Hosts = {"explorer", "window"}
    Folders = {"old", "new"}
    Home <- MCHome
    Version <- MCVersion
    Msix = {"old", "new"}
    Win11 = TRUE
    MaxStarts = 4
INVARIANTS
    RegistrationTypesOK
    EnsuredIsRegistered
    UnregisteredIsGone
    NoDanglingHandler
CHECK_DEADLOCK FALSE
