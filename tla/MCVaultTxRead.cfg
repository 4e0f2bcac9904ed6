SPECIFICATION Spec
CONSTANTS
    u1 = u1
    u2 = u2
    u3 = u3
    u4 = u4
    u5 = u5
    d1 = d1
    d2 = d2
    d3 = d3
    p1 = p1
    p2 = p2
    v1 = v1
    v2 = v2
    a = a
    b = b
    Procs = {a, b}
    Timeouts = FALSE
    Uuids = {u1, u2, u3, u4, u5}
    Deks = {d1, d2}
    Names = {default}
    DefaultName = default
    PublicKeys = {p1, p2}
    NoKey = NoKey
    RawKeys = {"K"}
    Keys = {"K"}
    Normal <- MCNormal
    Empty = ""
    Values = {v1, v2}
    Garbage = Garbage
SYMMETRY Symmetry
INVARIANTS
    AuthorizedReadSucceeds
