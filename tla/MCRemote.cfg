SPECIFICATION Spec
CONSTANTS
    v1 = v1
    v2 = v2
    certificate = certificate
    pem = pem
    k1 = k1
    k2 = k2
    Contents = {v1, v2}
    Size <- MCSize
    Packed <- MCPacked
    NoSize = NoSize
    NoLevel = NoLevel
    Commands <- MCCommands
    ClientFiles <- MCClientFiles
    ClientWorkspace = NoWorkspace
    HostWorkspace = NoWorkspace
    NoWorkspace = NoWorkspace
    DefaultWorkspace = "default"
    HostHome = "/home"
    NoHome = NoHome
    Keys = {"A", "B"}
    NoValue = NoValue
    Values <- MCValues
    Normal <- MCNormal
    Invalid = Invalid
    EnvFiles <- MCEnvFiles
    Names = {"work", "id_rsa"}
    IdRsa = "id_rsa"
    PublicKeys = {k1, k2}
    NoFile = NoFile
    Unusable = Unusable
    NoKey = NoKey
    MaxCerts = 2
    Nothing = Nothing
    Blocks = 2
    Capacity = 1
    MaxFaults = 1
INVARIANTS
    SuccessMeansDone
    FailureMeansUndone
    TempFilesLastAsLongAsTheChild
    LookupFailsForAReason
    DoneIsComplete
    UndisturbedIsAllOrNothing
PROPERTIES
    ImportsKeepValues
    RemoteCallEnds
CHECK_DEADLOCK FALSE
