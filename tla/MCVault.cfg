SPECIFICATION Spec
CONSTANTS
    u1 = u1
    u2 = u2
    u3 = u3
    u4 = u4
    u5 = u5
    u6 = u6
    d1 = d1
    d2 = d2
    d3 = d3
    p1 = p1
    p2 = p2
    v1 = v1
    v2 = v2
    Uuids = {u1, u2, u3, u4, u5, u6}
    Deks = {d1, d2, d3}
    Names = {default, u1}
    DefaultName = default
    PublicKeys = {p1, p2}
    NoKey = NoKey
    RawKeys = {"k", "K", "L", " "}
    Keys = {"K", "L"}
    Normal <- MCNormal
    Empty = ""
    Values = {v1, v2}
SYMMETRY Symmetry
INVARIANTS
    EveryCertificateOpensEverySecret
    OnlyCertificatesOpenSecrets
    RefusesExactlyTheLastKey
    IInv
PROPERTIES
    ReferencesAreStable
    WritesRevoke
    ImplementsSharedStore
CHECK_DEADLOCK FALSE
