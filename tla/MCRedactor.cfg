SPECIFICATION Spec
CONSTANTS
    Bytes = {"a", "b"}
    MaxLength = 6
    Inputs <- MCInputs
    ValueSets <- MCValueSets
INVARIANTS
    TypeOK
    NothingSlipsThrough
    CutsAreLongest
    EveryByteOnce
    OnlyBeginningsAreHeld
CHECK_DEADLOCK FALSE
