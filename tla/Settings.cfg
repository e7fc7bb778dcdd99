SPECIFICATION Spec
CONSTANTS
    v0 = v0
    v1 = v1
    NumKeys = 4
    MainKeys = {1, 2, 4}
    ResetKeys = {1, 2, 3}
    Value = {v0, v1}
    Default = v0
    NoExtensions = v1
    NoFile = NoFile
    Reload = FALSE
INVARIANTS
    TypeOK
    ChoiceSurvives
    CrashKeepsSettings
    AskedOnce
