CONSTANTS
    Process = {p, q}
    Configurations <- MCConfigurations
    Number <- MCNumber
    kDefaultPort = 3
    kMinPort = 3
    kMaxPort = 4
    kMinChunkSize = 3
    kMaxChunkSize = 5
    kDefaultChunkSize = 3
    kMinSendBufferSize = 3
    kMaxSendBufferSize = 5
    MaxSignals = 2
    MaxSessions = 2
    None = None
    NoValue = None
SPECIFICATION FairSpec
CHECK_DEADLOCK FALSE
INVARIANTS NeverKilledWhileServing PidFileNamesDaemon CallbacksFindTheirObject EveryHandleClosed 
PROPERTY ShutdownEnds
