SPECIFICATION Spec
CONSTANTS
    kTsRangeHours = 48
    kSpdMax = 4
    Pools <- MCPools
    MaxLines = 4
    MaxSessions = 3
    kMaxStatsEntries = 3
    kMaxUnknownModules = 2
    kMaxSkipSamples = 2
    UnknownNames <- MCUnknownNames
    LongNames = {"LongOne", "LongTwo"}
    kFraction = 2
CHECK_DEADLOCK FALSE
INVARIANTS
    ResultIsOfItsSession
    SpeedIsHonest
    ReportIsHonest
    WindowIsElapsedTime
    WarningAgrees
