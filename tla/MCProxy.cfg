SPECIFICATION Spec
CONSTANTS
    A = A
    B = B
    x = x
    u = u
    g = g
    NoValue = NoValue
    NoText = NoText
    Binary = Binary
    Tokens <- MCTokens
    Letters = {A, B}
    Keys <- MCKeys
    Values <- MCValues
    Configs <- MCConfigs
    Requests <- MCRequests
    MethodTokens = {A, B, x, u, g}
    ParsesAsUrl <- MCParsesAsUrl
    UrlPart <- MCUrlPart
INVARIANTS
    SnapshotIsRedacted
    SentIsTheTemplate
    RefusedForAReason
