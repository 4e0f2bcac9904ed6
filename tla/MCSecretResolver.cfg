SPECIFICATION Spec
CONSTANTS
    v1 = v1
    v2 = v2
    a = a
    Callers = {a}
    Keys = {"A", "A-1"}
    Names = {"A", "A-1", "X"}
    Values = {v1, v2, Empty}
    Empty = Empty
    NoValue = NoValue
    Scan <- MCScan
    Jobs <- MCJobs
SYMMETRY Symmetry
INVARIANTS
    EveryValueIsRedacted
    OneValuePerKey
    ValuesAreFresh
    RunsWithEverything
