SPECIFICATION FairSpec
CONSTANTS
    Conns = {a, b}
    Ids = {s, t}
    Protocols = {p, q}
    Limit = 1
    MaxBlocks = 2
INVARIANTS
    ToolsRunInOpenSessions
    StreamKeepsLimit
PROPERTIES
    ShutdownEnds
CHECK_DEADLOCK FALSE
