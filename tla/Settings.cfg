SPECIFICATION SettingsSpec
CONSTANTS
    Dlls <- MCDlls
    Modules <- MCModules
    Absent = Absent
    Empty = Empty
    Garbled = Garbled
    NoKey = NoKey
    MaxTime = 2
    MaxChanges = 2
INVARIANTS
    SettingsTypesOK
    ChangesSeen
    FileWhole
    ChoiceKept
CHECK_DEADLOCK FALSE
