SPECIFICATION FairSpec
CONSTANTS
    NumDaemons = 3
    MaxAlive = 2
    Client = {c1}
    Starts <- MCStarts
    Sock <- MCSock
    Port <- MCPort
    DEFAULT_PORT <- MCDefaultPort
    StoragePlugins <- MCStoragePlugins
    XferPlugins <- MCXferPlugins
INVARIANTS
    ServerReachable
    RunsAsConfigured
PROPERTIES
    FatalExplained
    RestartWorks
CHECK_DEADLOCK FALSE
