SPECIFICATION Spec
CONSTANTS
    Procs = {a, b, c}
    Crashes = TRUE
    OldFile = TRUE
    MaxOpens = 4
INVARIANTS
    OpenSeesSchema
    DeletedDefaultStaysDeleted
PROPERTIES
    DefaultIsLostInACrashOnly
CHECK_DEADLOCK FALSE
