SPECIFICATION Spec
CONSTANTS
    Threads = {loop, parser}
    Loop = loop
    kMaxLogFileBytes = 1
    kMaxRotationIndex = 1
    kLogRetentionDays = 2
    MaxDay = 3
    MaxLines = 3
    MaxFaults = 2
    MaxStarts = 2
    MaxSweeps = 1
CHECK_DEADLOCK FALSE
INVARIANTS
    WrittenStays
    CleanCallReachesFile
    SoundSinkKeepsLine
    FilesBounded
