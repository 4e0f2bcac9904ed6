SPECIFICATION Spec
CONSTANTS
    Procs = {a}
    Crashes = TRUE
    OldFile = FALSE
    MaxOpens = 3
INVARIANTS
    OpenSeesDefault
CHECK_DEADLOCK FALSE
